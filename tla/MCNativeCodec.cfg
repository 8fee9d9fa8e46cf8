SPECIFICATION FairCodecSpec
CONSTANTS
    Msgs <- MCMsgs
    Quit = Quit
    NoMsg = NoMsg
    MaxPending = 3
    Clips = {"video"}
CHECK_DEADLOCK FALSE
INVARIANTS DataCounted DeletedLast CodecAlive
PROPERTY KeepsMailbox
