-------------------------- MODULE NativeCodecProofs --------------------------
(***************************************************************************)
(* Proofs about the player: it uses the looper as the looper allows, so    *)
(* all that LooperProofs shows holds of it, and for sources with a video   *)
(* track no message finds its codec deleted.  CodecInv is the inductive    *)
(* invariant: it follows shutdown's last message from addmsg into the list *)
(* and to the worker.                                                      *)
(***************************************************************************)
EXTENDS NativeCodec, LooperProofs

(* Every source has a video track: without one createStreamingMediaPlayer  *)
(* makes a looper and no codec.                                            *)
VideoOnly == Clips \subseteq {"video"}

Calls == {"create", "first", "resume", "pause", "rewind", "shutdown", "quit", "join",
          "surface", "toggle"}

CodecTypes ==
    /\ d \in [codec : {"none", "live", "deleted"}, window : BOOLEAN,
              sawInputEOS : BOOLEAN, sawOutputEOS : BOOLEAN,
              isPlaying : BOOLEAN, renderonce : BOOLEAN]
    /\ ui \in [created : BOOLEAN, playing : BOOLEAN, sink : BOOLEAN, running : BOOLEAN]
    /\ todo \in Seq(Calls)

Last == "kMsgDecodeDone"

(* shutdown has posted its last message, and not yet deleted the looper.   *)
Stopping == cpc = "quit" \/ (todo # <<>> /\ Head(todo) = "quit")

(* The worker has taken the last message.                                  *)
Taken == msg = Last \/ d.codec # "live"

(* What may follow the last message in the list: the buffer the worker     *)
(* posted while it was on its way, and the message to quit.                *)
Harmless == {"kMsgCodecBuffer", Quit}

Unlinked == add["caller"].pc \in {"wait", "link"}

(* The worker posts a buffer, or a flush that answers a pause.             *)
WorkerPosts ==
    add["worker"] # NoAdd =>
        /\ ~ Taken
        /\ \/ add["worker"].msg = "kMsgCodecBuffer"
           \/ add["worker"].msg = "kMsgPauseAck" /\ add["worker"].flush

(* The last message in addmsg flushes, and is the only one.                *)
LastPosted ==
    Unlinked /\ add["caller"].msg = Last =>
        /\ Stopping /\ ~ Taken /\ add["caller"].flush
        /\ \A i \in 1..Len(head) : head[i] # Last

(* In the list it is the first, and nothing after it needs the codec.      *)
LastQueued ==
    \A i \in 1..Len(head) : head[i] = Last =>
        /\ i = 1 /\ Stopping /\ ~ Taken
        /\ \A j \in 2..Len(head) : head[j] \in Harmless
        /\ Unlinked => add["caller"].msg = Quit

(* Once it was taken nothing that is left needs the codec.                 *)
LastTaken ==
    cpc # "none" /\ Taken =>
        /\ Stopping
        /\ \A i \in 1..Len(head) : head[i] \in Harmless
        /\ Unlinked => add["caller"].msg = Quit
        /\ d.codec # "live" => /\ d.sawInputEOS /\ d.sawOutputEOS
                               /\ msg \in {"kMsgCodecBuffer", NoMsg}

(* The calls of a callback: a codec is made when the surface is there, and *)
(* a shutdown that leaves a sink is followed by a new surface.             *)
SurfaceFirst ==
    /\ \A i \in 2..Len(todo) : /\ todo[i] = "create" => todo[i - 1] = "surface"
                               /\ todo[i] \notin {"shutdown", "quit", "join"}
    /\ todo # <<>> /\ todo[1] = "create" => d.window
    /\ todo # <<>> /\ todo[1] \in {"shutdown", "quit", "join"} /\ ui.sink =>
           Len(todo) >= 2 /\ todo[2] = "surface"
    /\ ui.sink => \/ d.window
                  \/ todo # <<>> /\ todo[1] \in {"shutdown", "quit", "join", "surface"}

QueueInv == WorkerPosts /\ LastPosted /\ LastQueued /\ LastTaken

CodecInv == LooperInv /\ CodecTypes /\ QueueInv /\ SurfaceFirst

USE LooperAssumption, CodecAssumption DEF CodecMsgs

-----------------------------------------------------------------------------
(* The player is a client of the looper: every step of it that touches the *)
(* looper is one of the looper's.                                          *)
LEMMA NativeUses == Native => [LooperNext]_looperVars
<1>1. createStreamingMediaPlayer => [LooperNext]_looperVars
  BY DEF createStreamingMediaPlayer, LooperNext
<1>2. ASSUME NEW m \in Msgs, NEW f \in BOOLEAN, post(m, f) PROVE LooperNext
  BY <1>2 DEF LooperNext
<1>3. FirstBuffer => [LooperNext]_looperVars
  BY <1>2 DEF FirstBuffer
<1>4. setPlayingStreamingMediaPlayer => [LooperNext]_looperVars
  BY <1>2 DEF setPlayingStreamingMediaPlayer
<1>5. rewindStreamingMediaPlayer => [LooperNext]_looperVars
  BY <1>2 DEF rewindStreamingMediaPlayer
<1>6. shutdown => [LooperNext]_looperVars
  <2>1. quit \/ Joined => LooperNext
    BY DEF LooperNext, CallerWork
  <2> QED BY <1>2, <2>1 DEF shutdown
<1>7. setSurface \/ Toggle => [LooperNext]_looperVars
  BY DEF setSurface, Toggle
<1> QED BY <1>1, <1>3, <1>4, <1>5, <1>6, <1>7 DEF Native

(* What the player does with a message is one of the looper's handlers.    *)
LEMMA HandleUses == mylooper_handle => LooperNext
<1>1. ASSUME NEW m \in Msgs, NEW f \in BOOLEAN, HandlePosts(m, f) PROVE LooperNext
  BY <1>1 DEF LooperNext, handle
<1>2. HandleReturns => LooperNext
  BY DEF LooperNext, handle
<1>3. doCodecWork => LooperNext
  BY <1>1, <1>2 DEF doCodecWork
<1>4. DecodeDone => LooperNext
  BY <1>2 DEF DecodeDone
<1>5. Seek => LooperNext
  BY <1>1, <1>2 DEF Seek
<1>6. Pause => LooperNext
  BY <1>1, <1>2 DEF Pause
<1>7. Resume => LooperNext
  BY <1>1, <1>2 DEF Resume
<1> QED BY <1>2, <1>3, <1>4, <1>5, <1>6, <1>7 DEF mylooper_handle

(* The activity's callbacks only queue native calls.                       *)
LEMMA ActivityUses == Activity => UNCHANGED <<looperVars, d>>
BY DEF Activity, onStartClick, switchSurface, onRewindClick, surfaceCreated, onPause,
       onDestroy, Callback

(* Every step of the player is a step of the looper, or none of it.        *)
LEMMA StepUses == [CodecNext]_codecVars => [LooperNext]_looperVars
<1>1. UIWork => [LooperNext]_looperVars
  BY NativeUses DEF UIWork, LooperNext, CallerWork
<1>2. Worker => [LooperNext]_looperVars
  BY HandleUses DEF Worker, LooperNext
<1>3. Activity \/ Died \/ UNCHANGED codecVars => UNCHANGED looperVars
  BY ActivityUses DEF Died, codecVars
<1> QED BY <1>1, <1>2, <1>3 DEF CodecNext

(* The player's looper keeps all that LooperProofs shows of a looper: its  *)
(* invariants, and the mailbox.                                            *)
THEOREM PlayerUsesLooper == CodecSpec => LooperSpec
<1>1. CodecInit => LooperInit
  BY DEF CodecInit
<1> QED BY <1>1, StepUses, PTL DEF CodecSpec, LooperSpec
-----------------------------------------------------------------------------
(* The last message on its way: the steps of addmsg.                       *)
LEMMA AddWaitQueue ==
    ASSUME CodecInv, NEW t \in Thread, AddWait(t), UNCHANGED <<d, ui, todo>>
    PROVE  QueueInv'
<1>1. /\ add[t].pc = "wait" /\ add' = [add EXCEPT ![t].pc = "link"]
      /\ UNCHANGED <<head, cpc, msg, d, todo>>
  BY DEF AddWait
<1>2. \A u \in Thread : add'[u] = IF u = t THEN [add[u] EXCEPT !.pc = "link"] ELSE add[u]
  BY <1>1 DEF CodecInv, LooperInv, LooperTypeOK
<1>3. \A u \in Thread : /\ add'[u].msg = add[u].msg /\ add'[u].flush = add[u].flush
                        /\ add'[u].pc \in {"wait", "link"} <=> add[u].pc \in {"wait", "link"}
                        /\ add'[u] # NoAdd => add[u] # NoAdd
  <2> TAKE u \in Thread
  <2>1. add[u] \in [pc : {"no", "wait", "link", "signal"},
                    msg : Msgs \cup {Quit, NoMsg}, flush : BOOLEAN]
    BY DEF CodecInv, LooperInv, LooperTypeOK
  <2>2. CASE u = t
    BY <1>1, <1>2, <2>1, <2>2 DEF NoAdd
  <2>3. CASE u # t
    BY <1>2, <2>3
  <2> QED BY <2>2, <2>3
<1>4. /\ add'["caller"].msg = add["caller"].msg
      /\ add'["caller"].flush = add["caller"].flush
      /\ Unlinked' <=> Unlinked
      /\ add'["worker"].msg = add["worker"].msg
      /\ add'["worker"].flush = add["worker"].flush
      /\ add'["worker"] # NoAdd => add["worker"] # NoAdd
  BY <1>3 DEF Thread, Unlinked
<1>5. Stopping' = Stopping /\ Taken' = Taken
  BY <1>1 DEF Stopping, Taken
<1>6. WorkerPosts'
  BY <1>1, <1>4, <1>5 DEF CodecInv, QueueInv, WorkerPosts
<1>7. LastPosted'
  BY <1>1, <1>4, <1>5 DEF CodecInv, QueueInv, LastPosted
<1>8. LastQueued'
  BY <1>1, <1>4, <1>5 DEF CodecInv, QueueInv, LastQueued
<1>9. LastTaken'
  BY <1>1, <1>4, <1>5 DEF CodecInv, QueueInv, LastTaken
<1> QED BY <1>6, <1>7, <1>8, <1>9 DEF QueueInv

(* The caller links: the last message comes alone, the one to quit at the  *)
(* end, and any other while the codec is there.                            *)
LEMMA CallerLinkQueue ==
    ASSUME CodecInv, AddLink("caller"), UNCHANGED <<d, ui, todo>>
    PROVE  QueueInv'
<1> DEFINE m == add["caller"].msg
<1>1. /\ add["caller"].pc = "link" /\ add' = [add EXCEPT !["caller"].pc = "signal"]
      /\ head' = IF add["caller"].flush THEN <<m>> ELSE Append(head, m)
      /\ UNCHANGED <<cpc, msg, d, todo>>
  BY DEF AddLink
<1>2. Unlinked /\ ~ Unlinked' /\ add'["worker"] = add["worker"]
  BY <1>1 DEF CodecInv, LooperInv, LooperTypeOK, Thread, Unlinked
<1>3. Stopping' = Stopping /\ Taken' = Taken
  BY <1>1 DEF Stopping, Taken
<1>4. m \in Msgs \cup {Quit} /\ head \in Seq(Msgs \cup {Quit})
  BY <1>1 DEF CodecInv, LooperInv, LooperTypeOK, AddShape, Thread, NoAdd
<1>5. \A i \in 1..Len(head') : \/ head'[i] = m /\ (i = 1 \/ ~ add["caller"].flush)
                               \/ i \in 1..Len(head) /\ head'[i] = head[i]
                                  /\ ~ add["caller"].flush
  BY <1>1, <1>4
<1>6. WorkerPosts'
  BY <1>1, <1>2, <1>3 DEF CodecInv, QueueInv, WorkerPosts
<1>7. LastPosted'
  BY <1>2 DEF LastPosted
<1>8. LastQueued'
  <2>1. ASSUME NEW i \in 1..Len(head'), head'[i] = Last
        PROVE  /\ i = 1 /\ Stopping /\ ~ Taken
               /\ \A j \in 2..Len(head') : head'[j] \in Harmless
    <3>1. CASE m = Last
      <4>1. add["caller"].flush /\ Stopping /\ ~ Taken
        BY <1>2, <3>1 DEF CodecInv, QueueInv, LastPosted
      <4>2. head' = <<m>>
        BY <1>1, <4>1
      <4> QED BY <2>1, <4>1, <4>2
    <3>2. CASE m # Last
      <4>1. i \in 1..Len(head) /\ head[i] = Last /\ ~ add["caller"].flush
        BY <1>5, <2>1, <3>2
      <4>2. m = Quit /\ i = 1 /\ Stopping /\ ~ Taken
            /\ \A j \in 2..Len(head) : head[j] \in Harmless
        BY <1>2, <4>1 DEF CodecInv, QueueInv, LastQueued
      <4>3. \A j \in 2..Len(head') : head'[j] = m \/ (j \in 2..Len(head) /\ head'[j] = head[j])
        BY <1>4, <1>5
      <4> QED BY <4>2, <4>3 DEF Harmless
    <3> QED BY <3>1, <3>2
  <2> QED BY <1>2, <1>3, <2>1 DEF LastQueued
<1>9. LastTaken'
  <2>1. CASE cpc # "none" /\ Taken
    <3>1. m = Quit /\ Stopping /\ \A i \in 1..Len(head) : head[i] \in Harmless
      BY <1>2, <2>1 DEF CodecInv, QueueInv, LastTaken
    <3>2. \A i \in 1..Len(head') : head'[i] \in Harmless
      BY <1>5, <3>1 DEF Harmless
    <3> QED BY <1>1, <1>2, <1>3, <2>1, <3>1, <3>2 DEF CodecInv, QueueInv, LastTaken
  <2>2. CASE ~ (cpc # "none" /\ Taken)
    BY <1>1, <1>3, <2>2 DEF LastTaken
  <2> QED BY <2>1, <2>2
<1> QED BY <1>6, <1>7, <1>8, <1>9 DEF QueueInv

(* The worker links: a buffer goes after the last message, and the answer  *)
(* to a pause flushes it away.                                             *)
LEMMA WorkerLinkQueue ==
    ASSUME CodecInv, AddLink("worker"), UNCHANGED <<d, ui, todo>>
    PROVE  QueueInv'
<1> DEFINE m == add["worker"].msg
<1>1. /\ add["worker"].pc = "link" /\ add' = [add EXCEPT !["worker"].pc = "signal"]
      /\ head' = IF add["worker"].flush THEN <<m>> ELSE Append(head, m)
      /\ UNCHANGED <<cpc, msg, d, todo>>
  BY DEF AddLink
<1>2. /\ add["worker"] # NoAdd /\ add'["caller"] = add["caller"]
      /\ add'["worker"].msg = m /\ add'["worker"].flush = add["worker"].flush
  BY <1>1 DEF CodecInv, LooperInv, LooperTypeOK, Thread, NoAdd
<1>3. Stopping' = Stopping /\ Taken' = Taken /\ Unlinked' = Unlinked
  BY <1>1, <1>2 DEF Stopping, Taken, Unlinked
<1>4. ~ Taken /\ (m = "kMsgCodecBuffer" \/ (m = "kMsgPauseAck" /\ add["worker"].flush))
  BY <1>2 DEF CodecInv, QueueInv, WorkerPosts
<1>5. head \in Seq(Msgs \cup {Quit}) /\ m \in Msgs
  BY <1>4 DEF CodecInv, LooperInv, LooperTypeOK
<1>6. \A i \in 1..Len(head') : \/ head'[i] = m
                               \/ i \in 1..Len(head) /\ head'[i] = head[i]
                                  /\ ~ add["worker"].flush
  BY <1>1, <1>5
<1>7. WorkerPosts'
  BY <1>1, <1>2, <1>3, <1>4 DEF WorkerPosts
<1>8. LastPosted'
  BY <1>2, <1>3, <1>4, <1>6 DEF CodecInv, QueueInv, LastPosted, Last
<1>9. LastQueued'
  <2>1. ASSUME NEW i \in 1..Len(head'), head'[i] = Last
        PROVE  /\ i = 1 /\ Stopping
               /\ \A j \in 2..Len(head') : head'[j] \in Harmless
               /\ Unlinked => add["caller"].msg = Quit
    <3>1. i \in 1..Len(head) /\ head[i] = Last /\ ~ add["worker"].flush
      BY <1>4, <1>6, <2>1 DEF Last
    <3>2. i = 1 /\ Stopping /\ (Unlinked => add["caller"].msg = Quit)
          /\ \A j \in 2..Len(head) : head[j] \in Harmless
      BY <3>1 DEF CodecInv, QueueInv, LastQueued
    <3>3. \A j \in 2..Len(head') : head'[j] = m \/ (j \in 2..Len(head) /\ head'[j] = head[j])
      BY <1>5, <1>6
    <3> QED BY <1>4, <3>1, <3>2, <3>3 DEF Harmless
  <2> QED BY <1>2, <1>3, <1>4, <2>1 DEF LastQueued
<1>10. LastTaken'
  BY <1>3, <1>4 DEF LastTaken
<1> QED BY <1>7, <1>8, <1>9, <1>10 DEF QueueInv

(* Signalling the semaphore leaves the queue as it is.                     *)
LEMMA AddSignalQueue ==
    ASSUME CodecInv, NEW t \in Thread, AddSignal(t), UNCHANGED <<d, ui, todo>>
    PROVE  QueueInv'
<1>1. /\ add[t].pc = "signal" /\ add' = [add EXCEPT ![t] = NoAdd]
      /\ UNCHANGED <<head, cpc, d, todo>>
      /\ msg' = IF t = "worker" THEN NoMsg ELSE msg
  BY DEF AddSignal
<1>2. CASE t = "caller"
  <2>1. ~ Unlinked' /\ add'["worker"] = add["worker"] /\ msg' = msg
    BY <1>1, <1>2 DEF CodecInv, LooperInv, LooperTypeOK, Thread, Unlinked, NoAdd
  <2>2. Stopping' = Stopping /\ Taken' = Taken
    BY <1>1, <2>1 DEF Stopping, Taken
  <2>3. WorkerPosts' /\ LastPosted'
    BY <2>1, <2>2 DEF CodecInv, QueueInv, WorkerPosts, LastPosted
  <2>4. LastQueued'
    BY <1>1, <2>1, <2>2 DEF CodecInv, QueueInv, LastQueued
  <2>5. LastTaken'
    BY <1>1, <2>1, <2>2 DEF CodecInv, QueueInv, LastTaken
  <2> QED BY <2>3, <2>4, <2>5 DEF QueueInv
<1>3. CASE t = "worker"
  <2>1. /\ add["worker"] # NoAdd /\ add'["caller"] = add["caller"]
        /\ add'["worker"] = NoAdd /\ msg' = NoMsg
    BY <1>1, <1>3 DEF CodecInv, LooperInv, LooperTypeOK, Thread, NoAdd
  <2>2. ~ Taken /\ ~ Taken'
    BY <1>1, <2>1 DEF CodecInv, QueueInv, WorkerPosts, Taken, Last
  <2>3. Stopping' = Stopping /\ Unlinked' = Unlinked
    BY <1>1, <2>1 DEF Stopping, Unlinked
  <2>4. WorkerPosts' /\ LastTaken'
    BY <2>1, <2>2 DEF WorkerPosts, LastTaken
  <2>5. LastPosted'
    BY <1>1, <2>1, <2>2, <2>3 DEF CodecInv, QueueInv, LastPosted
  <2>6. LastQueued'
    BY <1>1, <2>1, <2>2, <2>3 DEF CodecInv, QueueInv, LastQueued
  <2> QED BY <2>4, <2>5, <2>6 DEF QueueInv
<1> QED BY <1>2, <1>3 DEF Thread
-----------------------------------------------------------------------------
(* The steps of the worker's loop.                                         *)
LEMMA WaitQueue ==
    ASSUME CodecInv, WaitData \/ WaitHead, UNCHANGED <<d, ui, todo>>
    PROVE  QueueInv'
<1>1. UNCHANGED <<head, add, cpc, msg, d, todo>>
  BY DEF WaitData, WaitHead
<1> QED BY <1>1 DEF CodecInv, QueueInv, WorkerPosts, LastPosted, LastQueued, LastTaken,
               Stopping, Taken, Unlinked

(* Taking a message moves it from the queue to the worker.                 *)
LEMMA TakeQueue ==
    ASSUME CodecInv, TakeHead, UNCHANGED <<d, ui, todo>>
    PROVE  QueueInv'
<1>1. /\ wpc = "take" /\ msg = NoMsg /\ add["worker"] = NoAdd /\ cpc # "none"
      /\ head \in Seq(Msgs \cup {Quit}) /\ Last # NoMsg /\ Last # Quit
  BY DEF TakeHead, CodecInv, LooperInv, LooperTypeOK, WorkerShape, AddShape, Last
<1>2. UNCHANGED <<add, cpc, d, todo>>
  BY DEF TakeHead
<1>3. Stopping' = Stopping /\ (Unlinked' <=> Unlinked)
  BY <1>2 DEF Stopping, Unlinked
<1>4. WorkerPosts'
  BY <1>1, <1>2 DEF WorkerPosts
<1>5. CASE head = <<>>
  <2>1. UNCHANGED <<head, msg>>
    BY <1>1, <1>5 DEF TakeHead
  <2> QED BY <1>2, <1>4, <2>1 DEF CodecInv, QueueInv, LastPosted, LastQueued, LastTaken,
                   Stopping, Taken, Unlinked
<1>6. CASE head # <<>>
  <2>1. /\ head' = Tail(head) /\ head[1] = Head(head) /\ Len(head') = Len(head) - 1
        /\ \A i \in 1..Len(head') : i + 1 \in 2..Len(head) /\ head'[i] = head[i + 1]
        /\ 1 \in 1..Len(head)
    BY <1>1, <1>6 DEF TakeHead
  <2>2. msg' = IF head[1] = Quit THEN NoMsg ELSE head[1]
    BY <1>1, <1>6, <2>1 DEF TakeHead
  <2>3. CASE head[1] = Last
    <3>1. /\ Stopping /\ ~ Taken /\ (Unlinked => add["caller"].msg = Quit)
          /\ \A j \in 2..Len(head) : head[j] \in Harmless
      BY <2>1, <2>3 DEF CodecInv, QueueInv, LastQueued
    <3>2. \A i \in 1..Len(head') : head'[i] \in Harmless
      BY <2>1, <3>1
    <3>3. LastPosted'
      BY <1>1, <1>2, <1>3, <3>1 DEF LastPosted
    <3>4. LastQueued'
      BY <1>1, <3>2 DEF LastQueued, Harmless, Last
    <3>5. LastTaken'
      BY <1>2, <1>3, <3>1, <3>2 DEF LastTaken, Taken
    <3> QED BY <1>4, <3>3, <3>4, <3>5 DEF QueueInv
  <2>4. CASE head[1] # Last
    <3>1. msg' # Last /\ msg # Last
      BY <1>1, <2>2, <2>4
    <3>2. Taken' <=> Taken
      BY <1>2, <3>1 DEF Taken
    <3>3. \A i \in 1..Len(head) : head[i] # Last
      BY <2>1, <2>4 DEF CodecInv, QueueInv, LastQueued
    <3>4. \A i \in 1..Len(head') : head'[i] # Last
      BY <2>1, <3>3
    <3>5. LastPosted'
      BY <1>2, <1>3, <3>2, <3>4 DEF CodecInv, QueueInv, LastPosted
    <3>6. LastQueued'
      BY <3>4 DEF LastQueued
    <3>7. ASSUME Taken
          PROVE  /\ \A i \in 1..Len(head') : head'[i] \in Harmless
                 /\ msg' \in {"kMsgCodecBuffer", NoMsg}
      BY <1>1, <2>1, <2>2, <3>7 DEF CodecInv, QueueInv, LastTaken, Harmless
    <3>8. LastTaken'
      BY <1>2, <1>3, <3>2, <3>7 DEF CodecInv, QueueInv, LastTaken
    <3> QED BY <1>4, <3>5, <3>6, <3>8 DEF QueueInv
  <2> QED BY <2>3, <2>4
<1> QED BY <1>5, <1>6

-----------------------------------------------------------------------------
-----------------------------------------------------------------------------
(* A handler that keeps the codec may post what the worker posts.          *)
LEMMA KeepsQueue ==
    ASSUME CodecInv, ~ Taken, d'.codec = d.codec, UNCHANGED todo,
           \/ HandleReturns \/ HandlePosts("kMsgCodecBuffer", FALSE)
           \/ HandlePosts("kMsgPauseAck", TRUE)
    PROVE  QueueInv'
<1>1. /\ wpc = "handle" /\ UNCHANGED <<head, cpc>> /\ msg' \in {msg, NoMsg}
  BY DEF HandleReturns, HandlePosts
<1>2. add["worker"] = NoAdd /\ DOMAIN add = Thread
  BY <1>1 DEF CodecInv, LooperInv, LooperTypeOK, AddShape
<1>3. /\ add'["caller"] = add["caller"]
      /\ \/ add'["worker"] = NoAdd
         \/ add'["worker"].msg = "kMsgCodecBuffer"
         \/ add'["worker"].msg = "kMsgPauseAck" /\ add'["worker"].flush
  BY <1>2 DEF HandleReturns, HandlePosts, AddMsg, Thread
<1>4. ~ Taken'
  BY <1>1 DEF Taken, Last
<1>5. Stopping' = Stopping /\ (Unlinked' <=> Unlinked)
  BY <1>1, <1>3 DEF Stopping, Unlinked
<1>6. WorkerPosts' /\ LastTaken'
  BY <1>3, <1>4 DEF WorkerPosts, LastTaken
<1>7. LastPosted'
  BY <1>1, <1>3, <1>4, <1>5 DEF CodecInv, QueueInv, LastPosted
<1>8. LastQueued'
  BY <1>1, <1>3, <1>4, <1>5 DEF CodecInv, QueueInv, LastQueued
<1> QED BY <1>6, <1>7, <1>8 DEF QueueInv

(* A handler of what is not needed any more returns.                       *)
LEMMA DoneQueue ==
    ASSUME CodecInv, Taken, d'.codec # "live", d'.sawInputEOS, d'.sawOutputEOS,
           UNCHANGED todo, HandleReturns
    PROVE  QueueInv'
<1>1. /\ wpc = "handle" /\ UNCHANGED <<head, cpc, add>> /\ msg' = NoMsg
  BY DEF HandleReturns
<1>2. add["worker"] = NoAdd /\ cpc # "none"
  BY <1>1 DEF CodecInv, LooperInv, AddShape, WorkerShape
<1>3. Stopping' = Stopping /\ (Unlinked' <=> Unlinked)
  BY <1>1 DEF Stopping, Unlinked
<1>4. /\ Stopping /\ (Unlinked => add["caller"].msg = Quit)
      /\ \A i \in 1..Len(head) : head[i] \in Harmless
  BY <1>2 DEF CodecInv, QueueInv, LastTaken
<1>5. WorkerPosts' /\ LastTaken'
  BY <1>1, <1>2, <1>3, <1>4 DEF WorkerPosts, LastTaken
<1>6. LastPosted'
  BY <1>1, <1>3, <1>4 DEF LastPosted, Last
<1>7. LastQueued'
  BY <1>1, <1>4 DEF LastQueued, Harmless, Last
<1> QED BY <1>5, <1>6, <1>7 DEF QueueInv

(* What a frame changes of workerdata; there is none after the last.       *)
Frame(w, eos) == [w EXCEPT !.sawOutputEOS = eos, !.renderonce = FALSE]

(* What doCodecWork makes of the output side: nothing, or one frame.       *)
LEMMA OutputIs ==
    ASSUME NEW w, NEW out \in Output(w)
    PROVE  \/ out.w = w /\ ~ out.once
           \/ ~ w.sawOutputEOS /\ \E eos \in {FALSE, w.sawInputEOS} : out.w = Frame(w, eos)
<1>1. CASE out = [w |-> w, once |-> FALSE]
  BY <1>1
<1>2. CASE out # [w |-> w, once |-> FALSE]
  <2>1. ~ w.sawOutputEOS
    BY <1>2 DEF Output
  <2>2. PICK eos \in {FALSE, w.sawInputEOS} :
          out = [w    |-> [w EXCEPT !.sawOutputEOS = eos, !.renderonce = FALSE],
                 once |-> w.renderonce]
    BY <1>2, <2>1 DEF Output
  <2>3. out.w = Frame(w, eos)
    BY <2>2 DEF Frame
  <2> QED BY <2>1, <2>2, <2>3
<1> QED BY <1>1, <1>2

(* A handler keeps the types, the window and what the activity queued.     *)
LEMMA HandleTypes ==
    ASSUME CodecInv, mylooper_handle
    PROVE  CodecTypes' /\ d'.window = d.window /\ UNCHANGED <<ui, todo>>
<1> DEFINE D == [codec : {"none", "live", "deleted"}, window : BOOLEAN,
                 sawInputEOS : BOOLEAN, sawOutputEOS : BOOLEAN,
                 isPlaying : BOOLEAN, renderonce : BOOLEAN]
<1>1. d \in D
  BY DEF CodecInv, CodecTypes
<1>2. ASSUME doCodecWork PROVE d' \in D /\ d'.window = d.window
  <2>1. PICK w \in Input(d) : \E out \in Output(w) : d' = out.w
    BY <1>2 DEF doCodecWork
  <2>2. w \in D /\ w.window = d.window
    BY <1>1 DEF Input
  <2>3. PICK out \in Output(w) : d' = out.w
    BY <2>1
  <2>4. \A eos \in BOOLEAN : Frame(w, eos) \in D /\ Frame(w, eos).window = d.window
    BY <2>2 DEF Frame
  <2>5. w.sawInputEOS \in BOOLEAN
    BY <2>2
  <2>6. \/ out.w = w
        \/ \E eos \in BOOLEAN : out.w = Frame(w, eos)
    BY <2>3, <2>5, OutputIs
  <2> QED BY <2>2, <2>3, <2>4, <2>6
<1>3. ASSUME DecodeDone \/ Seek PROVE d' \in D /\ d'.window = d.window
  BY <1>1, <1>3 DEF DecodeDone, Seek
<1>4. ASSUME Pause \/ Resume PROVE d' \in D /\ d'.window = d.window
  BY <1>1, <1>4 DEF Pause, Resume
<1>5. d' \in D /\ d'.window = d.window
  BY <1>1, <1>2, <1>3, <1>4 DEF mylooper_handle
<1> QED BY <1>5 DEF CodecInv, CodecTypes, mylooper_handle

(* A handler keeps what is said of the queue.                              *)
LEMMA HandleQueue ==
    ASSUME CodecInv, mylooper_handle
    PROVE  QueueInv'
<1>1. /\ wpc = "handle" /\ cpc # "none" /\ UNCHANGED todo
      /\ d \in [codec : {"none", "live", "deleted"}, window : BOOLEAN,
                sawInputEOS : BOOLEAN, sawOutputEOS : BOOLEAN,
                isPlaying : BOOLEAN, renderonce : BOOLEAN]
  <2>1. wpc = "handle"
    BY DEF mylooper_handle, doCodecWork, DecodeDone, Seek, Pause, Resume, HandleReturns,
           HandlePosts
  <2> QED BY <2>1 DEF mylooper_handle, CodecInv, CodecTypes, LooperInv, WorkerShape
<1>2. CASE msg = "kMsgCodecBuffer" /\ doCodecWork
  <2>1. PICK w \in Input(d) : \E out \in Output(w) :
          /\ d' = out.w
          /\ IF ~ out.once /\ ~ (out.w.sawInputEOS /\ out.w.sawOutputEOS)
             THEN HandlePosts("kMsgCodecBuffer", FALSE) ELSE HandleReturns
    BY <1>2 DEF doCodecWork
  <2>2. PICK out \in Output(w) :
          /\ d' = out.w
          /\ IF ~ out.once /\ ~ (out.w.sawInputEOS /\ out.w.sawOutputEOS)
             THEN HandlePosts("kMsgCodecBuffer", FALSE) ELSE HandleReturns
    BY <2>1
  <2>3. CASE ~ Taken
    <3>1. w \in [codec : {"none", "live", "deleted"}, window : BOOLEAN,
                 sawInputEOS : BOOLEAN, sawOutputEOS : BOOLEAN,
                 isPlaying : BOOLEAN, renderonce : BOOLEAN] /\ w.codec = d.codec
      BY <1>1 DEF Input
    <3>2. w.sawInputEOS \in BOOLEAN
      BY <3>1
    <3>3. \/ out.w = w
          \/ \E eos \in BOOLEAN : out.w = Frame(w, eos)
      BY <2>2, <3>2, OutputIs
    <3>4. d'.codec = d.codec
      BY <2>2, <3>1, <3>3 DEF Frame
    <3> QED BY <1>1, <2>2, <2>3, <3>4, KeepsQueue
  <2>4. CASE Taken
    <3>1. d.codec # "live" /\ d.sawInputEOS /\ d.sawOutputEOS
      BY <1>1, <1>2, <2>4 DEF Taken, Last, CodecInv, QueueInv, LastTaken
    <3>2. w = d
      BY <3>1 DEF Input
    <3>3. out.w = d /\ ~ out.once
      BY <2>2, <3>1, <3>2, OutputIs
    <3>4. d' = d /\ HandleReturns
      BY <2>2, <3>1, <3>3
    <3> QED BY <1>1, <2>4, <3>1, <3>4, DoneQueue
  <2> QED BY <2>3, <2>4
<1>3. CASE msg = "kMsgDecodeDone" /\ DecodeDone
  <2>1. Taken /\ d'.codec # "live" /\ d'.sawInputEOS /\ d'.sawOutputEOS /\ HandleReturns
    BY <1>1, <1>3 DEF DecodeDone, Taken, Last
  <2> QED BY <1>1, <2>1, DoneQueue
<1>4. ASSUME msg \in {"kMsgSeek", "kMsgPause", "kMsgResume", "kMsgPauseAck"} PROVE ~ Taken
  BY <1>1, <1>4 DEF Taken, Last, CodecInv, QueueInv, LastTaken
<1>5. CASE msg = "kMsgSeek" /\ Seek
  <2>1. d'.codec = d.codec /\ (HandleReturns \/ HandlePosts("kMsgCodecBuffer", FALSE))
    BY <1>1, <1>5 DEF Seek
  <2> QED BY <1>1, <1>4, <1>5, <2>1, KeepsQueue
<1>6. CASE msg = "kMsgPause" /\ Pause
  <2>1. d'.codec = d.codec /\ (HandleReturns \/ HandlePosts("kMsgPauseAck", TRUE))
    BY <1>1, <1>6 DEF Pause
  <2> QED BY <1>1, <1>4, <1>6, <2>1, KeepsQueue
<1>7. CASE msg = "kMsgResume" /\ Resume
  <2>1. d'.codec = d.codec /\ (HandleReturns \/ HandlePosts("kMsgCodecBuffer", FALSE))
    BY <1>1, <1>7 DEF Resume
  <2> QED BY <1>1, <1>4, <1>7, <2>1, KeepsQueue
<1>8. CASE msg = "kMsgPauseAck" /\ UNCHANGED d /\ HandleReturns
  BY <1>1, <1>4, <1>8, KeepsQueue
<1> QED BY <1>2, <1>3, <1>5, <1>6, <1>7, <1>8 DEF mylooper_handle
-----------------------------------------------------------------------------
(* The native methods and the callbacks.  One that leaves the looper and   *)
(* the codec alone leaves the last message where it is.                    *)
LEMMA SameQueue ==
    ASSUME CodecInv, UNCHANGED looperVars, Stopping => Stopping', d'.codec = d.codec,
           d'.sawInputEOS = d.sawInputEOS, d'.sawOutputEOS = d.sawOutputEOS
    PROVE  QueueInv'
<1>1. UNCHANGED <<head, add, cpc, msg>>
  BY DEF looperVars
<1>2. (Taken' <=> Taken) /\ (Unlinked' <=> Unlinked)
  BY <1>1 DEF Taken, Unlinked
<1>3. WorkerPosts' /\ LastPosted'
  BY <1>1, <1>2 DEF CodecInv, QueueInv, WorkerPosts, LastPosted
<1>4. LastQueued'
  BY <1>1, <1>2 DEF CodecInv, QueueInv, LastQueued
<1>5. LastTaken'
  BY <1>1, <1>2 DEF CodecInv, QueueInv, LastTaken
<1> QED BY <1>3, <1>4, <1>5 DEF QueueInv

(* A post comes before the last message, or is the last message.           *)
LEMMA PostQueue ==
    ASSUME CodecInv, NEW m \in Msgs, NEW f \in BOOLEAN, post(m, f), UNCHANGED d,
           ~ Stopping, m = Last => f /\ Stopping'
    PROVE  QueueInv'
<1>1. /\ cpc = "free" /\ UNCHANGED <<head, cpc, msg>>
      /\ add' = [add EXCEPT !["caller"] = [pc |-> "wait", msg |-> m, flush |-> f]]
  BY DEF post, AddMsg
<1>2. /\ add'["caller"] = [pc |-> "wait", msg |-> m, flush |-> f]
      /\ add'["worker"] = add["worker"]
  BY <1>1 DEF CodecInv, LooperInv, LooperTypeOK, Thread
<1>3. ~ Taken /\ \A i \in 1..Len(head) : head[i] # Last
  BY <1>1 DEF CodecInv, QueueInv, LastTaken, LastQueued
<1>4. ~ Taken'
  BY <1>1, <1>3 DEF Taken
<1>5. WorkerPosts' /\ LastTaken'
  BY <1>2, <1>3, <1>4 DEF CodecInv, QueueInv, WorkerPosts, LastTaken
<1>6. LastPosted' /\ LastQueued'
  BY <1>1, <1>2, <1>3, <1>4 DEF LastPosted, LastQueued
<1> QED BY <1>5, <1>6 DEF QueueInv

(* shutdown() posts the quit message last.                                 *)
LEMMA QuitQueue ==
    ASSUME CodecInv, quit, UNCHANGED d, Stopping
    PROVE  QueueInv'
<1>1. /\ cpc = "free" /\ cpc' = "quit" /\ UNCHANGED <<head, msg>>
      /\ add' = [add EXCEPT !["caller"] = [pc |-> "wait", msg |-> Quit, flush |-> FALSE]]
  BY DEF quit, AddMsg
<1>2. add'["caller"].msg = Quit /\ add'["worker"] = add["worker"] /\ Quit # Last
  BY <1>1 DEF CodecInv, LooperInv, LooperTypeOK, Thread, Last
<1>3. Stopping' /\ (Taken' <=> Taken)
  BY <1>1 DEF Stopping, Taken
<1>4. WorkerPosts' /\ LastPosted'
  BY <1>2, <1>3 DEF CodecInv, QueueInv, WorkerPosts, LastPosted
<1>5. LastQueued'
  BY <1>1, <1>2, <1>3 DEF CodecInv, QueueInv, LastQueued
<1>6. LastTaken'
  BY <1>1, <1>2, <1>3 DEF CodecInv, QueueInv, LastTaken
<1> QED BY <1>4, <1>5, <1>6 DEF QueueInv

(* A looper that is gone, or new, has no message.                          *)
LEMMA EmptyQueue ==
    ASSUME CodecInv, Joined \/ (looper /\ d'.codec = "live")
    PROVE  QueueInv'
<1>1. /\ head' = <<>> /\ UNCHANGED <<add, msg>>
      /\ add["caller"] = NoAdd /\ add["worker"] = NoAdd /\ msg = NoMsg
  BY DEF Joined, looper, CodecInv, LooperInv, WorkerShape, AddShape
<1>2. ~ Unlinked' /\ Len(head') = 0
  BY <1>1 DEF Unlinked, NoAdd
<1>3. WorkerPosts' /\ LastPosted' /\ LastQueued'
  BY <1>1, <1>2 DEF WorkerPosts, LastPosted, LastQueued
<1>4. cpc' = "none" \/ ~ Taken'
  BY <1>1 DEF Joined, looper, Taken, Last
<1> QED BY <1>3, <1>4 DEF QueueInv, LastTaken

(* A native call keeps what is said of the queue.                          *)
LEMMA NativeQueue ==
    ASSUME VideoOnly, CodecInv, Native
    PROVE  QueueInv'
<1>1. /\ todo # <<>> /\ todo \in Seq(Calls)
      /\ d \in [codec : {"none", "live", "deleted"}, window : BOOLEAN,
                sawInputEOS : BOOLEAN, sawOutputEOS : BOOLEAN,
                isPlaying : BOOLEAN, renderonce : BOOLEAN]
  BY DEF Native, CodecInv, CodecTypes
<1>2. CASE createStreamingMediaPlayer
  <2>1. CASE looper
    <3>1. \E clip \in Clips : d' = IF clip = "video"
                    THEN [d EXCEPT !.codec = "live", !.sawInputEOS = FALSE,
                                   !.sawOutputEOS = FALSE, !.isPlaying = FALSE,
                                   !.renderonce = TRUE]
                    ELSE d
      BY <1>2, <2>1 DEF createStreamingMediaPlayer, looper, looperVars
    <3>2. d'.codec = "live"
      BY <1>1, <3>1 DEF VideoOnly
    <3> QED BY <2>1, <3>2, EmptyQueue
  <2>2. CASE ~ looper
    BY <1>2, <2>2, SameQueue DEF createStreamingMediaPlayer, Stopping, looperVars
  <2> QED BY <2>1, <2>2
<1>3. ASSUME Head(todo) # "quit", cpc = "free" PROVE ~ Stopping
  BY <1>3 DEF Stopping
<1>4. CASE FirstBuffer
  <2>1. post("kMsgCodecBuffer", FALSE) /\ UNCHANGED d /\ Head(todo) # "quit"
    BY <1>4 DEF FirstBuffer
  <2> QED BY <1>3, <2>1, PostQueue DEF post, Last
<1>5. CASE setPlayingStreamingMediaPlayer
  <2>1. Head(todo) # "quit" /\ UNCHANGED d
    BY <1>5 DEF setPlayingStreamingMediaPlayer
  <2>2. CASE UNCHANGED looperVars
    BY <2>1, <2>2, SameQueue DEF Stopping, looperVars
  <2>3. CASE post("kMsgResume", FALSE) \/ post("kMsgPause", FALSE)
    BY <1>3, <2>1, <2>3, PostQueue DEF post, Last
  <2> QED BY <1>5, <2>2, <2>3 DEF setPlayingStreamingMediaPlayer
<1>6. CASE rewindStreamingMediaPlayer
  <2>1. Head(todo) # "quit" /\ UNCHANGED d
    BY <1>6 DEF rewindStreamingMediaPlayer
  <2>2. CASE UNCHANGED looperVars
    BY <2>1, <2>2, SameQueue DEF Stopping, looperVars
  <2>3. CASE post("kMsgSeek", FALSE)
    BY <1>3, <2>1, <2>3, PostQueue DEF post, Last
  <2> QED BY <1>6, <2>2, <2>3 DEF rewindStreamingMediaPlayer
<1>7. CASE shutdown
  <2>1. CASE Head(todo) = "shutdown" /\ post(Last, TRUE) /\ todo' = <<"quit">> \o Tail(todo)
             /\ UNCHANGED d
    <3>1. todo' # <<>> /\ Head(todo') = "quit"
      BY <1>1, <2>1
    <3>2. ~ Stopping /\ Stopping' /\ Last \in Msgs
      BY <1>3, <2>1, <3>1 DEF Stopping, post, Last
    <3> QED BY <2>1, <3>2, PostQueue
  <2>2. CASE Head(todo) = "quit" /\ quit /\ UNCHANGED d
    BY <1>1, <2>2, QuitQueue DEF Stopping
  <2>3. CASE Joined
    BY <2>3, EmptyQueue
  <2>4. CASE Head(todo) = "shutdown" /\ UNCHANGED looperVars
             /\ d' = [d EXCEPT !.window = FALSE]
    BY <1>1, <2>4, SameQueue DEF Stopping, looperVars
  <2> QED BY <1>7, <2>1, <2>2, <2>3, <2>4 DEF shutdown, Last
<1>8. CASE setSurface \/ Toggle
  BY <1>1, <1>8, SameQueue DEF setSurface, Toggle, Stopping, looperVars
<1> QED BY <1>2, <1>4, <1>5, <1>6, <1>7, <1>8 DEF Native
-----------------------------------------------------------------------------
(* A sequence of calls is empty when its length is zero.                   *)
LEMMA EmptyCalls == \A s \in Seq(Calls) : s = <<>> <=> Len(s) = 0
OBVIOUS

(* The surface comes before the codec: the next call of a callback.        *)
LEMMA NextCall ==
    ASSUME CodecInv, todo # <<>>, todo' = Tail(todo), ui'.sink = ui.sink,
           IF Head(todo) = "surface" THEN d'.window
           ELSE Head(todo) \notin {"shutdown", "quit", "join"} => d'.window = d.window
    PROVE  SurfaceFirst'
<1>1. todo \in Seq(Calls) /\ SurfaceFirst
  BY DEF CodecInv, CodecTypes
<1>2. /\ Head(todo) = todo[1] /\ Len(todo') = Len(todo) - 1 /\ Len(todo) \in Nat
      /\ \A i \in 1..Len(todo') : i + 1 \in 2..Len(todo) /\ todo'[i] = todo[i + 1]
  BY <1>1
<1>3. todo' = <<>> <=> Len(todo') = 0
  <2>1. todo' \in Seq(Calls)
    BY <1>1
  <2> QED BY <2>1, EmptyCalls
<1>4. /\ todo' # <<>> => Len(todo) >= 2 /\ todo'[1] = todo[2]
      /\ Len(todo) >= 2 => todo' # <<>>
  BY <1>2, <1>3
<1>5. \A i \in 2..Len(todo') : /\ todo'[i] = "create" => todo'[i - 1] = "surface"
                               /\ todo'[i] \notin {"shutdown", "quit", "join"}
  BY <1>1, <1>2, <1>4 DEF SurfaceFirst
<1>6. todo' # <<>> => todo'[1] \notin {"shutdown", "quit", "join"}
  BY <1>1, <1>2, <1>4 DEF SurfaceFirst
<1>7. todo' # <<>> /\ todo'[1] = "create" => d'.window
  BY <1>1, <1>2, <1>4 DEF SurfaceFirst
<1>8. ui'.sink => d'.window \/ (todo' # <<>> /\ todo'[1] = "surface")
  BY <1>1, <1>2, <1>4 DEF SurfaceFirst
<1> QED BY <1>5, <1>6, <1>7, <1>8 DEF SurfaceFirst

(* A native method that goes on: shutdown, and create with its first       *)
(* message.                                                                *)
LEMMA SameCall ==
    ASSUME CodecInv, NEW c, todo # <<>>, todo' = <<c>> \o Tail(todo), ui'.sink = ui.sink,
           d'.window = d.window,
           \/ Head(todo) \in {"shutdown", "quit"} /\ c \in {"quit", "join"}
           \/ Head(todo) = "create" /\ c = "first"
    PROVE  SurfaceFirst'
<1>1. todo \in Seq(Calls) /\ SurfaceFirst /\ c \in Calls
  BY DEF CodecInv, CodecTypes, Calls
<1>2. /\ Head(todo) = todo[1] /\ Len(todo') = Len(todo) /\ Len(todo) \in Nat \ {0}
      /\ todo' # <<>> /\ todo'[1] = c /\ \A i \in 2..Len(todo) : todo'[i] = todo[i]
  BY <1>1
<1>3. \A i \in 3..Len(todo) : todo[i] = "create" => todo[i - 1] = "surface"
  BY <1>1 DEF SurfaceFirst
<1>4. \A i \in 2..Len(todo) : todo[i] = "create" => i # 2
  BY <1>1, <1>2 DEF SurfaceFirst
<1>5. \A i \in 2..Len(todo') : /\ todo'[i] = "create" => todo'[i - 1] = "surface"
                               /\ todo'[i] \notin {"shutdown", "quit", "join"}
  BY <1>1, <1>2, <1>3, <1>4 DEF SurfaceFirst
<1> QED BY <1>1, <1>2, <1>5 DEF SurfaceFirst

(* A native call keeps the order of the calls that follow it.              *)
LEMMA NativeSurface == CodecInv /\ Native => SurfaceFirst'
<1> SUFFICES ASSUME CodecInv, Native PROVE SurfaceFirst'
  OBVIOUS
<1>1. /\ todo # <<>> /\ todo \in Seq(Calls) /\ Head(todo) = todo[1]
      /\ d \in [codec : {"none", "live", "deleted"}, window : BOOLEAN,
                sawInputEOS : BOOLEAN, sawOutputEOS : BOOLEAN,
                isPlaying : BOOLEAN, renderonce : BOOLEAN]
      /\ ui \in [created : BOOLEAN, playing : BOOLEAN, sink : BOOLEAN, running : BOOLEAN]
  BY DEF Native, CodecInv, CodecTypes
<1>2. CASE createStreamingMediaPlayer
  <2>1. d'.window = d.window /\ ui'.sink = ui.sink /\ Head(todo) = "create"
    BY <1>1, <1>2 DEF createStreamingMediaPlayer
  <2>2. CASE todo' = <<>>
    BY <1>1, <2>1, <2>2 DEF CodecInv, SurfaceFirst
  <2>3. CASE todo' = <<"first">> \o Tail(todo)
    BY <1>1, <2>1, <2>3, SameCall
  <2> QED BY <1>2, <2>2, <2>3 DEF createStreamingMediaPlayer
<1>3. CASE FirstBuffer \/ setPlayingStreamingMediaPlayer \/ rewindStreamingMediaPlayer
  <2>1. /\ todo' = Tail(todo) /\ d' = d /\ ui'.sink = ui.sink
        /\ Head(todo) # "surface"
    BY <1>1, <1>3 DEF FirstBuffer, setPlayingStreamingMediaPlayer,
                      rewindStreamingMediaPlayer
  <2> QED BY <1>1, <2>1, NextCall
<1>4. CASE shutdown
  <2>1. CASE /\ Head(todo) = "shutdown" /\ todo' = <<"quit">> \o Tail(todo)
             /\ UNCHANGED <<d, ui>>
    BY <1>1, <2>1, SameCall
  <2>2. CASE /\ Head(todo) = "quit" /\ todo' = <<"join">> \o Tail(todo)
             /\ UNCHANGED <<d, ui>>
    BY <1>1, <2>2, SameCall
  <2>3. CASE Head(todo) \in {"shutdown", "join"} /\ todo' = Tail(todo) /\ UNCHANGED ui
    BY <1>1, <2>3, NextCall
  <2> QED BY <1>4, <2>1, <2>2, <2>3 DEF shutdown
<1>5. CASE setSurface
  <2>1. Head(todo) = "surface" /\ d'.window /\ todo' = Tail(todo) /\ ui' = ui
    BY <1>1, <1>5 DEF setSurface
  <2> QED BY <1>1, <2>1, NextCall
<1>6. CASE Toggle
  <2>1. /\ d' = d /\ ui'.sink = ui.sink /\ Head(todo) = "toggle"
        /\ todo' = <<"pause">> \/ todo' = <<"resume">>
    BY <1>1, <1>6 DEF Toggle
  <2> QED BY <1>1, <2>1 DEF CodecInv, SurfaceFirst
<1> QED BY <1>2, <1>3, <1>4, <1>5, <1>6 DEF Native

(* What each callback asks for.                                            *)
LEMMA ActivitySurface == CodecInv /\ Activity => SurfaceFirst'
<1> SUFFICES ASSUME CodecInv, Activity PROVE SurfaceFirst'
  OBVIOUS
<1>1. /\ todo = <<>> /\ UNCHANGED d
      /\ ui \in [created : BOOLEAN, playing : BOOLEAN, sink : BOOLEAN, running : BOOLEAN]
      /\ ui.sink => d.window
  BY DEF Activity, onStartClick, switchSurface, onRewindClick, surfaceCreated, onPause,
         onDestroy, Callback, CodecInv, CodecTypes, SurfaceFirst
<1>2. ASSUME NEW selected \in BOOLEAN, onStartClick(selected) PROVE SurfaceFirst'
  <2>1. CASE ui.created
    <3>1. todo' = <<"toggle">> /\ ui' = ui
      BY <1>2, <2>1 DEF onStartClick, Callback
    <3> QED BY <1>1, <3>1 DEF SurfaceFirst
  <2>2. CASE ~ ui.created /\ ui.sink
    <3>1. /\ todo' = <<>> \/ todo' = <<"create", "toggle">>
          /\ d'.window
      BY <1>1, <1>2, <2>2 DEF onStartClick, Callback, Source
    <3> QED BY <3>1 DEF SurfaceFirst
  <2>3. CASE ~ ui.created /\ ~ ui.sink
    <3>1. todo' = <<"surface">> \/ todo' = <<"surface", "create", "toggle">>
      BY <1>1, <1>2, <2>3 DEF onStartClick, Callback, Source
    <3> QED BY <3>1 DEF SurfaceFirst
  <2> QED BY <2>1, <2>2, <2>3
<1>3. ASSUME NEW selected \in BOOLEAN, switchSurface(selected) PROVE SurfaceFirst'
  <2>1. /\ Len(todo') >= 2 /\ todo'[1] = "shutdown" /\ todo'[2] = "surface"
        /\ \A i \in 3..Len(todo') : i = 3 /\ todo'[i] = "create"
    <3>1. todo' = <<"shutdown", "surface">> \o Source(selected)
      BY <1>3 DEF switchSurface, Callback
    <3>2. CASE Source(selected) = <<"create">>
      BY <3>1, <3>2
    <3>3. CASE Source(selected) = <<>>
      BY <3>1, <3>3
    <3> QED BY <3>2, <3>3 DEF Source
  <2> QED BY <2>1 DEF SurfaceFirst
<1>4. CASE onRewindClick \/ surfaceCreated \/ onPause
  <2>1. /\ ui'.sink = ui.sink
        /\ todo' = <<"rewind">> \/ todo' = <<"surface">> \/ todo' = <<"pause">>
    BY <1>1, <1>4 DEF onRewindClick, surfaceCreated, onPause, Callback
  <2> QED BY <1>1, <2>1 DEF SurfaceFirst
<1>5. CASE onDestroy
  <2>1. ~ ui'.sink /\ todo' = <<"shutdown">>
    BY <1>1, <1>5 DEF onDestroy, Callback
  <2> QED BY <2>1 DEF SurfaceFirst
<1> QED BY <1>2, <1>3, <1>4, <1>5 DEF Activity

-----------------------------------------------------------------------------
(* One call is a sequence of calls.                                        *)
LEMMA OneCall == \A c \in Calls : <<c>> \in Seq(Calls)
OBVIOUS

(* What choosing a source queues is a sequence of calls.                   *)
LEMMA SourceCalls == ASSUME NEW b \in BOOLEAN PROVE Source(b) \in Seq(Calls)
<1>1. "create" \in Calls /\ <<>> \in Seq(Calls)
  BY DEF Calls
<1> QED BY <1>1, OneCall DEF Source

(* A native call keeps the types.                                          *)
LEMMA NativeTypes == CodecInv /\ Native => CodecTypes'
<1> SUFFICES ASSUME CodecInv, Native PROVE CodecTypes'
  OBVIOUS
<1>1. /\ todo # <<>> /\ todo \in Seq(Calls) /\ Tail(todo) \in Seq(Calls)
      /\ d \in [codec : {"none", "live", "deleted"}, window : BOOLEAN,
                sawInputEOS : BOOLEAN, sawOutputEOS : BOOLEAN,
                isPlaying : BOOLEAN, renderonce : BOOLEAN]
      /\ ui \in [created : BOOLEAN, playing : BOOLEAN, sink : BOOLEAN, running : BOOLEAN]
  BY DEF Native, CodecInv, CodecTypes
<1>2. \A c \in Calls : <<c>> \o Tail(todo) \in Seq(Calls) /\ <<c>> \in Seq(Calls)
  BY <1>1
<1>3. todo' \in Seq(Calls)
  <2>1. CASE createStreamingMediaPlayer \/ shutdown
    <3>1. \/ todo' = <<>> \/ todo' = Tail(todo)
          \/ \E c \in {"first", "quit", "join"} : todo' = <<c>> \o Tail(todo)
      BY <2>1 DEF createStreamingMediaPlayer, shutdown
    <3>2. {"first", "quit", "join"} \subseteq Calls /\ <<>> \in Seq(Calls)
      BY DEF Calls
    <3>3. \A c \in {"first", "quit", "join"} : <<c>> \o Tail(todo) \in Seq(Calls)
      BY <1>2, <3>2
    <3> QED BY <1>1, <3>1, <3>2, <3>3
  <2>2. CASE Toggle
    BY <1>1, <1>2, <2>2 DEF Toggle, Calls
  <2>3. CASE FirstBuffer \/ setPlayingStreamingMediaPlayer \/ rewindStreamingMediaPlayer
             \/ setSurface
    BY <1>1, <2>3 DEF FirstBuffer, setPlayingStreamingMediaPlayer,
                      rewindStreamingMediaPlayer, setSurface
  <2> QED BY <2>1, <2>2, <2>3 DEF Native
<1>4. /\ d' \in [codec : {"none", "live", "deleted"}, window : BOOLEAN,
                 sawInputEOS : BOOLEAN, sawOutputEOS : BOOLEAN,
                 isPlaying : BOOLEAN, renderonce : BOOLEAN]
      /\ ui' \in [created : BOOLEAN, playing : BOOLEAN, sink : BOOLEAN, running : BOOLEAN]
  <2>1. CASE createStreamingMediaPlayer
    <3>1. \/ d' = d
          \/ d' = [d EXCEPT !.codec = "live", !.sawInputEOS = FALSE,
                            !.sawOutputEOS = FALSE, !.isPlaying = FALSE,
                            !.renderonce = TRUE]
      BY <2>1 DEF createStreamingMediaPlayer
    <3>2. \E b \in BOOLEAN : ui' = [ui EXCEPT !.created = b]
      BY <2>1 DEF createStreamingMediaPlayer
    <3> QED BY <1>1, <3>1, <3>2
  <2>2. CASE shutdown \/ setSurface \/ Toggle
    BY <1>1, <2>2 DEF shutdown, setSurface, Toggle
  <2>3. CASE FirstBuffer \/ setPlayingStreamingMediaPlayer \/ rewindStreamingMediaPlayer
    BY <1>1, <2>3 DEF FirstBuffer, setPlayingStreamingMediaPlayer,
                      rewindStreamingMediaPlayer
  <2> QED BY <2>1, <2>2, <2>3 DEF Native
<1> QED BY <1>3, <1>4 DEF CodecTypes

(* A callback of the activity keeps the types.                             *)
LEMMA ActivityTypes == CodecInv /\ Activity => CodecTypes'
<1> SUFFICES ASSUME CodecInv, Activity PROVE CodecTypes'
  OBVIOUS
<1>1. ui \in [created : BOOLEAN, playing : BOOLEAN, sink : BOOLEAN, running : BOOLEAN]
  BY DEF CodecInv, CodecTypes
<1>2. /\ ui' \in [created : BOOLEAN, playing : BOOLEAN, sink : BOOLEAN, running : BOOLEAN]
      /\ UNCHANGED d
  BY <1>1 DEF Activity, onStartClick, switchSurface, onRewindClick, surfaceCreated, onPause,
              onDestroy, Callback
<1>3. todo' \in Seq(Calls)
  <2>1. CASE onRewindClick \/ surfaceCreated \/ onPause \/ onDestroy
    <3>1. \E c \in {"rewind", "surface", "pause", "shutdown"} : todo' = <<c>>
      BY <2>1 DEF onRewindClick, surfaceCreated, onPause, onDestroy, Callback
    <3>2. {"rewind", "surface", "pause", "shutdown"} \subseteq Calls
      BY DEF Calls
    <3> QED BY <3>1, <3>2, OneCall
  <2>2. \A b \in BOOLEAN : Source(b) \in Seq(Calls)
    BY SourceCalls
  <2>3. ASSUME NEW selected \in BOOLEAN, switchSurface(selected) PROVE todo' \in Seq(Calls)
    <3>1. todo' = <<"shutdown", "surface">> \o Source(selected)
      BY <2>3 DEF switchSurface, Callback
    <3>2. <<"shutdown", "surface">> \in Seq(Calls)
      BY DEF Calls
    <3> QED BY <2>2, <3>1, <3>2
  <2>4. ASSUME NEW selected \in BOOLEAN, onStartClick(selected) PROVE todo' \in Seq(Calls)
    <3>1. CASE ui.created
      <4>1. todo' = <<"toggle">> /\ "toggle" \in Calls
        BY <2>4, <3>1 DEF onStartClick, Callback, Calls
      <4> QED BY <4>1, OneCall
    <3>2. CASE ~ ui.created
      <4> DEFINE p == IF ui.sink THEN <<>> ELSE <<"surface">>
                 q == IF selected THEN <<"toggle">> ELSE <<>>
      <4>1. {"surface", "toggle"} \subseteq Calls /\ <<>> \in Seq(Calls)
        BY DEF Calls
      <4>2. todo' = p \o Source(selected) \o q
        BY <2>4, <3>2 DEF onStartClick, Callback
      <4>3. p \in Seq(Calls) /\ q \in Seq(Calls)
        BY <4>1, OneCall
      <4> HIDE DEF p, q
      <4> QED BY <2>2, <4>2, <4>3
    <3> QED BY <3>1, <3>2
  <2> QED BY <2>1, <2>3, <2>4 DEF Activity
<1> QED BY <1>2, <1>3 DEF CodecInv, CodecTypes

-----------------------------------------------------------------------------
(* The invariant holds at the start.                                       *)
LEMMA CodecInitInv == CodecInit => CodecInv
<1> SUFFICES ASSUME CodecInit PROVE CodecInv
  OBVIOUS
<1>1. LooperInv
  BY InitInv DEF CodecInit
<1>2. CodecTypes /\ SurfaceFirst
  BY DEF CodecInit, CodecTypes, SurfaceFirst
<1>3. /\ head = <<>> /\ add["caller"] = NoAdd /\ add["worker"] = NoAdd /\ cpc = "none"
      /\ ~ Unlinked
  BY DEF CodecInit, LooperInit, Thread, Unlinked, NoAdd
<1>4. QueueInv
  BY <1>3 DEF QueueInv, WorkerPosts, LastPosted, LastQueued, LastTaken
<1> QED BY <1>1, <1>2, <1>4 DEF CodecInv

(* Every step keeps the invariant.                                         *)
LEMMA CodecStepInv ==
    ASSUME VideoOnly PROVE CodecInv /\ [CodecNext]_codecVars => CodecInv'
<1> SUFFICES ASSUME CodecInv, [CodecNext]_codecVars PROVE CodecInv'
  OBVIOUS
<1>1. LooperInv'
  BY StepUses, StepInv DEF CodecInv
<1>2. ASSUME UNCHANGED <<d, ui, todo>> PROVE CodecTypes' /\ SurfaceFirst'
  BY <1>2 DEF CodecInv, CodecTypes, SurfaceFirst
<1>3. ASSUME NEW t \in Thread, Adding(t), UNCHANGED <<d, ui, todo>> PROVE QueueInv'
  BY <1>3, AddWaitQueue, CallerLinkQueue, WorkerLinkQueue, AddSignalQueue
     DEF Adding, Thread
<1>4. CASE UIWork
  <2>1. CASE Native
    BY <1>1, <2>1, NativeQueue, NativeSurface, NativeTypes DEF CodecInv
  <2>2. CASE Adding("caller") /\ UNCHANGED <<d, ui, todo>>
    BY <1>1, <1>2, <1>3, <2>2 DEF CodecInv, Thread
  <2> QED BY <1>4, <2>1, <2>2 DEF UIWork
<1>5. CASE Activity
  <2>1. QueueInv'
    <3>1. todo = <<>>
      BY <1>5 DEF Activity, onStartClick, switchSurface, onRewindClick, surfaceCreated,
                  onPause, onDestroy, Callback
    <3> QED BY <1>5, <3>1, ActivityUses, SameQueue DEF Stopping, looperVars
  <2> QED BY <1>1, <1>5, <2>1, ActivitySurface, ActivityTypes DEF CodecInv
<1>6. CASE Worker
  <2>1. CASE Loop /\ UNCHANGED <<d, ui, todo>>
    BY <1>1, <1>2, <1>3, <2>1, WaitQueue, TakeQueue DEF Loop, CodecInv, Thread
  <2>2. CASE mylooper_handle
    <3>1. SurfaceFirst'
      BY <2>2, HandleTypes DEF CodecInv, SurfaceFirst
    <3> QED BY <1>1, <2>2, <3>1, HandleQueue, HandleTypes DEF CodecInv
  <2> QED BY <1>6, <2>1, <2>2 DEF Worker
<1>7. CASE UNCHANGED codecVars
  BY <1>1, <1>2, <1>7, SameQueue DEF codecVars, CodecInv, Stopping, looperVars
<1> QED BY <1>4, <1>5, <1>6, <1>7 DEF CodecNext, Died

(* The inductive invariant, for sources with a video track.                *)
THEOREM CodecInvariant == ASSUME VideoOnly PROVE CodecSpec => []CodecInv
<1>1. CodecInv /\ [CodecNext]_codecVars => CodecInv'
  BY CodecStepInv
<1> QED BY <1>1, CodecInitInv, PTL DEF CodecSpec

(* doCodecWork, the seek and the deletion of the codec find the codec and  *)
(* the extractor there, whatever the worker posts between shutdown's two   *)
(* messages, and a codec is configured on a window.                        *)
THEOREM CodecOutlivesMessages == ASSUME VideoOnly PROVE CodecSpec => []CodecAlive
<1>1. ASSUME CodecInv, wpc = "handle", UsesCodec PROVE d.codec = "live"
  <2>1. cpc # "none"
    BY <1>1 DEF CodecInv, LooperInv, WorkerShape
  <2> QED BY <1>1, <2>1 DEF CodecInv, QueueInv, LastTaken, Taken, UsesCodec, Last
<1>2. CodecInv => (todo # <<>> /\ Head(todo) = "create" => d.window)
  BY DEF CodecInv, CodecTypes, SurfaceFirst
<1>3. CodecInv => CodecAlive
  BY <1>1, <1>2 DEF CodecAlive
<1> QED BY <1>3, CodecInvariant, PTL
=============================================================================
