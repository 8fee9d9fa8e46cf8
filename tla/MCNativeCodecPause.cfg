SPECIFICATION CodecSpec
CONSTANTS
    Msgs <- MCMsgs
    Quit = Quit
    NoMsg = NoMsg
    MaxPending = 3
    Clips = {"video"}
PROPERTY PauseFlushesBuffers
