----------------------------- MODULE NativeCodec -----------------------------
(***************************************************************************)
(* The video player of the NDK's native-codec sample                       *)
(* (src/development/ndk/platforms/android-21/samples/native-codec): the    *)
(* activity NativeCodec.java, whose callbacks run in the UI thread, the    *)
(* native methods they call, and the worker of the looper, which feeds the *)
(* codec.  The codec and the extractor are external: a call on them        *)
(* brings any result, but the end of the output only after the end of the  *)
(* input.  Times, frames and formats are left out.                         *)
(***************************************************************************)
EXTENDS Looper

CONSTANT Clips \* tracks a source can have: "video", or "audio" alone

VARIABLES
    d,    \* workerdata: codec and extractor, window, and its flags
    ui,   \* the activity: mCreated, mIsPlaying, and whether
          \* mNativeCodecPlayerVideoSink is set; running: the process
    todo  \* the native calls left of the UI thread's callback

codecVars == <<looperVars, d, ui, todo>>

CodecMsgs == {"kMsgCodecBuffer", "kMsgPause", "kMsgResume", "kMsgPauseAck",
              "kMsgDecodeDone", "kMsgSeek"}

ASSUME CodecAssumption == Msgs = CodecMsgs /\ Clips \subseteq {"video", "audio"}

-----------------------------------------------------------------------------
(* The worker.                                                             *)

(* A buffer of input may be free, and then brings data or the end.         *)
Input(w) == IF w.sawInputEOS THEN {w} ELSE {w, [w EXCEPT !.sawInputEOS = TRUE]}

(* A frame may be there, the last one after the end of the input.  With    *)
(* renderonce it is the only one, and doCodecWork returns.                 *)
Output(w) ==
    IF w.sawOutputEOS THEN {[w |-> w, once |-> FALSE]}
    ELSE {[w |-> w, once |-> FALSE]}
         \cup {[w    |-> [w EXCEPT !.sawOutputEOS = eos, !.renderonce = FALSE],
                once |-> w.renderonce] : eos \in {FALSE, w.sawInputEOS}}

doCodecWork ==
    \E w \in Input(d) : \E out \in Output(w) :
        /\ d' = out.w
        /\ IF ~ out.once /\ ~ (out.w.sawInputEOS /\ out.w.sawOutputEOS)
           THEN HandlePosts("kMsgCodecBuffer", FALSE) ELSE HandleReturns

(* Mutant: the codec is deleted, and decoding not ended.                   *)
DecodeDoneGoesOn == d' = [d EXCEPT !.codec = "deleted"] /\ HandleReturns

DecodeDone == /\ d' = [d EXCEPT !.codec = "deleted",
                                !.sawInputEOS = TRUE, !.sawOutputEOS = TRUE]
              /\ HandleReturns

Seek == LET s == [d EXCEPT !.sawInputEOS = FALSE, !.sawOutputEOS = FALSE]
        IN IF d.isPlaying THEN d' = s /\ HandleReturns
           ELSE d' = [s EXCEPT !.renderonce = TRUE] /\ HandlePosts("kMsgCodecBuffer", FALSE)

Pause == IF d.isPlaying
         THEN d' = [d EXCEPT !.isPlaying = FALSE] /\ HandlePosts("kMsgPauseAck", TRUE)
         ELSE UNCHANGED d /\ HandleReturns

Resume == IF d.isPlaying THEN UNCHANGED d /\ HandleReturns
          ELSE d' = [d EXCEPT !.isPlaying = TRUE] /\ HandlePosts("kMsgCodecBuffer", FALSE)

mylooper_handle ==
    /\ \/ msg = "kMsgCodecBuffer" /\ doCodecWork
       \/ msg = "kMsgDecodeDone"  /\ DecodeDone
       \/ msg = "kMsgSeek"        /\ Seek
       \/ msg = "kMsgPause"       /\ Pause
       \/ msg = "kMsgResume"      /\ Resume
       \/ msg = "kMsgPauseAck"    /\ UNCHANGED d /\ HandleReturns
    /\ UNCHANGED <<ui, todo>>

-----------------------------------------------------------------------------
(* The native methods.  The looper exists when mlooper is not NULL.        *)

(* A source that cannot be opened fails; a video track brings a codec; and *)
(* the looper is made, and given its first message.                        *)
createStreamingMediaPlayer ==
    /\ Head(todo) = "create"
    /\ \/ /\ ui' = [ui EXCEPT !.created = FALSE] /\ todo' = <<>>
          /\ UNCHANGED <<looperVars, d>>
       \/ \E clip \in Clips :
            /\ looper
            /\ d' = IF clip = "video"
                    THEN [d EXCEPT !.codec = "live", !.sawInputEOS = FALSE,
                                   !.sawOutputEOS = FALSE, !.isPlaying = FALSE,
                                   !.renderonce = TRUE]
                    ELSE d
            /\ ui' = [ui EXCEPT !.created = TRUE]
            /\ todo' = <<"first">> \o Tail(todo)

FirstBuffer == /\ Head(todo) = "first" /\ post("kMsgCodecBuffer", FALSE)
               /\ todo' = Tail(todo) /\ UNCHANGED <<d, ui>>

setPlayingStreamingMediaPlayer ==
    /\ Head(todo) \in {"resume", "pause"}
    /\ IF cpc = "none" THEN UNCHANGED looperVars
       ELSE post(IF Head(todo) = "resume" THEN "kMsgResume" ELSE "kMsgPause", FALSE)
    /\ todo' = Tail(todo) /\ UNCHANGED <<d, ui>>

(* rewind does not look whether there is a looper: without one the process *)
(* dies.                                                                   *)
rewindStreamingMediaPlayer ==
    /\ Head(todo) = "rewind"
    /\ IF cpc = "none" THEN ui' = [ui EXCEPT !.running = FALSE] /\ UNCHANGED looperVars
                       ELSE post("kMsgSeek", FALSE) /\ UNCHANGED ui
    /\ todo' = Tail(todo) /\ UNCHANGED d

(* shutdown: the last message flushes what is waiting; then quit, which    *)
(* waits for the worker, and the window is released.                       *)
shutdown ==
    \/ /\ Head(todo) = "shutdown" /\ cpc # "none"
       /\ post("kMsgDecodeDone", TRUE)
       /\ todo' = <<"quit">> \o Tail(todo) /\ UNCHANGED <<d, ui>>
    \/ /\ Head(todo) = "quit" /\ quit
       /\ todo' = <<"join">> \o Tail(todo) /\ UNCHANGED <<d, ui>>
    \/ /\ \/ Head(todo) = "join" /\ Joined
          \/ Head(todo) = "shutdown" /\ cpc = "none" /\ UNCHANGED looperVars
       /\ d' = [d EXCEPT !.window = FALSE]
       /\ todo' = Tail(todo) /\ UNCHANGED ui

(* setSurface releases the window there is before it takes the new one.    *)
(* ANativeWindow_fromSurface (external) has a window for every surface:    *)
(* the activity is assumed to pass valid ones.                             *)
setSurface == /\ Head(todo) = "surface" /\ d' = [d EXCEPT !.window = TRUE]
              /\ todo' = Tail(todo) /\ UNCHANGED <<looperVars, ui>>

(* mIsPlaying follows the button only when there is a player.              *)
Toggle == /\ Head(todo) = "toggle"
          /\ ui' = [ui EXCEPT !.playing = ~ ui.playing]
          /\ todo' = <<IF ui.playing THEN "pause" ELSE "resume">>
          /\ UNCHANGED <<looperVars, d>>

Native == /\ todo # <<>> /\ ui.running /\ add["caller"] = NoAdd
          /\ \/ createStreamingMediaPlayer \/ FirstBuffer
             \/ setPlayingStreamingMediaPlayer \/ rewindStreamingMediaPlayer
             \/ shutdown \/ setSurface \/ Toggle

-----------------------------------------------------------------------------
(* The activity's callbacks, which the UI thread makes one at a time.  A   *)
(* source may be selected or not (mSourceString).                          *)
Callback(calls, u) == /\ todo = <<>> /\ ui.running /\ add["caller"] = NoAdd
                      /\ todo' = calls /\ ui' = u
                      /\ UNCHANGED <<looperVars, d>>

Source(selected) == IF selected THEN <<"create">> ELSE <<>>

onStartClick(selected) ==
    IF ui.created THEN Callback(<<"toggle">>, ui)
    ELSE Callback((IF ui.sink THEN <<>> ELSE <<"surface">>) \o Source(selected)
                  \o (IF selected THEN <<"toggle">> ELSE <<>>),
                  [ui EXCEPT !.sink = TRUE])

onRewindClick == ui.sink /\ Callback(<<"rewind">>, ui)

switchSurface(selected) ==
    /\ ui.created
    /\ Callback(<<"shutdown", "surface">> \o Source(selected),
                [ui EXCEPT !.created = FALSE,
                           !.playing = IF selected THEN FALSE ELSE ui.playing])

surfaceCreated == Callback(<<"surface">>, ui)

onPause == Callback(<<"pause">>, [ui EXCEPT !.playing = FALSE])

(* onDestroy; the next activity starts in the same process.                *)
onDestroy == Callback(<<"shutdown">>, [ui EXCEPT !.created = FALSE, !.playing = FALSE,
                                                 !.sink = FALSE])

Activity == \/ \E selected \in BOOLEAN : onStartClick(selected) \/ switchSurface(selected)
            \/ onRewindClick \/ surfaceCreated \/ onPause \/ onDestroy

-----------------------------------------------------------------------------
CodecInit ==
    /\ LooperInit
    /\ d = [codec |-> "none", window |-> FALSE, sawInputEOS |-> FALSE,
            sawOutputEOS |-> FALSE, isPlaying |-> FALSE, renderonce |-> FALSE]
    /\ ui = [created |-> FALSE, playing |-> FALSE, sink |-> FALSE, running |-> TRUE]
    /\ todo = <<>>

UIWork == Native \/ (Adding("caller") /\ UNCHANGED <<d, ui, todo>>)
Worker == (Loop /\ UNCHANGED <<d, ui, todo>>) \/ mylooper_handle

(* The process has died.                                                   *)
Died == ~ ui.running /\ UNCHANGED codecVars

CodecNext == UIWork \/ Activity \/ Worker \/ Died

CodecSpec == CodecInit /\ [][CodecNext]_codecVars

(* The threads are scheduled, and the semaphores starve neither of them.   *)
FairCodecSpec == CodecSpec /\ SF_codecVars(UIWork) /\ SF_codecVars(Worker)

-----------------------------------------------------------------------------
(* What handle does with the message it was given.                         *)
UsesCodec == \/ msg \in {"kMsgDecodeDone", "kMsgSeek"}
             \/ msg = "kMsgCodecBuffer" /\ ~ (d.sawInputEOS /\ d.sawOutputEOS)

(* A message is handled only while what its handler uses exists: the codec *)
(* and extractor are not deleted, although doCodecWork may post between    *)
(* shutdown's two messages, and the codec was configured on a window.  It  *)
(* rests on sources with a video track, on a decoder for its type, and on  *)
(* valid surfaces: the sample checks none of them.                         *)
CodecAlive == /\ wpc = "handle" /\ UsesCodec => d.codec = "live"
              /\ todo # <<>> /\ Head(todo) = "create" => d.window

(* "flush all outstanding codecbuffer messages with a no-op message"       *)
(* (native-codec-jni.cpp:187): a pause drops from the list messages that   *)
(* decode a buffer, and no other.                                          *)
PauseFlushesBuffers ==
    [][AddLink("worker") /\ msg = "kMsgPause" =>
         \A i \in 1..Len(head) : head[i] = "kMsgCodecBuffer"]_codecVars
=============================================================================
