----------------------------- MODULE LooperProofs -----------------------------
(***************************************************************************)
(* Proofs about the looper, for any set of messages: the types, the count  *)
(* that wakes the worker, the order of its deletion, and that it           *)
(* implements the mailbox (safety).  LooperInv is the inductive invariant. *)
(***************************************************************************)
EXTENDS Looper, TLAPS

(* At any time one thread at most holds the list: the semaphore and the    *)
(* threads inside make one.                                                *)
Linking(t) == IF add[t].pc = "link" THEN 1 ELSE 0
Holding == IF wpc = "take" THEN 1 ELSE 0
ListGuarded == headwriteprotect + Linking("caller") + Linking("worker") + Holding = 1

(* A thread in addmsg has a message, and the worker is in addmsg only      *)
(* from its handler.                                                       *)
AddShape == /\ \A t \in Thread : \/ add[t] = NoAdd
                                 \/ add[t].pc # "no" /\ add[t].msg \in Msgs \cup {Quit}
            /\ add["worker"] # NoAdd => wpc = "adding"

(* The worker has a message exactly while it handles one, and lives while  *)
(* the looper does.                                                        *)
WorkerShape == /\ IF wpc \in {"handle", "adding"} THEN msg \in Msgs ELSE msg = NoMsg
               /\ cpc = "none" <=> wpc = "none"
               /\ cpc = "none" => head = <<>> /\ add["caller"] = NoAdd
               /\ wpc = "adding" => add["worker"] # NoAdd

LooperInv == LooperTypeOK /\ ListGuarded /\ AddShape /\ WorkerShape /\ DataCounted

USE LooperAssumption

-----------------------------------------------------------------------------
(* The looper starts with no message, no worker and a free list.           *)
LEMMA InitInv == LooperInit => LooperInv
BY DEF LooperInit, LooperInv, LooperTypeOK, ListGuarded, AddShape, WorkerShape,
       DataCounted, Linking, Holding, Signalling, Taking, NoAdd, Thread

(* What a step of each kind does to the invariant: the constructor.        *)
LEMMA NewInv == LooperInv /\ looper => LooperInv'
BY DEF looper, LooperInv, LooperTypeOK, ListGuarded, AddShape, WorkerShape,
       DataCounted, Linking, Holding, Signalling, Taking, NoAdd, Thread

(* post and quit put a message into the caller's addmsg.                   *)
LEMMA PostInv == ASSUME LooperInv, NEW m \in Msgs, NEW f \in BOOLEAN, post(m, f)
                 PROVE  LooperInv'
BY DEF post, AddMsg, LooperInv, LooperTypeOK, ListGuarded, AddShape, WorkerShape,
       DataCounted, Linking, Holding, Signalling, Taking, NoAdd, Thread

(* quit puts its own message into the caller's addmsg.                     *)
LEMMA QuitInv == LooperInv /\ quit => LooperInv'
BY DEF quit, AddMsg, LooperInv, LooperTypeOK, ListGuarded, AddShape, WorkerShape,
       DataCounted, Linking, Holding, Signalling, Taking, NoAdd, Thread

(* addmsg takes the list, links and counts.                                *)
LEMMA AddWaitInv == ASSUME LooperInv, NEW t \in Thread, AddWait(t) PROVE LooperInv'
<1>1. /\ add[t].pc = "wait" /\ headwriteprotect = 1 /\ headwriteprotect' = 0
      /\ add' = [add EXCEPT ![t].pc = "link"]
      /\ UNCHANGED <<head, headdataavailable, cpc, wpc, msg>>
  BY DEF AddWait, LooperInv, LooperTypeOK
<1>2. /\ add'[t] = [add[t] EXCEPT !.pc = "link"]
      /\ \A u \in Thread \ {t} : add'[u] = add[u]
      /\ add' \in [Thread -> [pc : {"no", "wait", "link", "signal"},
                              msg : Msgs \cup {Quit, NoMsg}, flush : BOOLEAN]]
  BY <1>1 DEF LooperInv, LooperTypeOK
<1>3. LooperTypeOK'
  BY <1>1, <1>2 DEF LooperInv, LooperTypeOK
<1>4. ListGuarded' /\ DataCounted'
  BY <1>1, <1>2 DEF LooperInv, LooperTypeOK, ListGuarded, DataCounted, Linking, Holding,
                    Signalling, Taking, Thread
<1>5. /\ add[t].msg \in Msgs \cup {Quit} /\ add[t] # NoAdd
      /\ add'[t].pc = "link" /\ add'[t].msg = add[t].msg /\ add'[t] # NoAdd
  BY <1>1, <1>2 DEF LooperInv, LooperTypeOK, AddShape, NoAdd
<1>6. AddShape'
  BY <1>1, <1>2, <1>5 DEF LooperInv, AddShape, Thread
<1>7. WorkerShape'
  BY <1>1, <1>2, <1>5 DEF LooperInv, WorkerShape, Thread
<1> QED BY <1>3, <1>4, <1>6, <1>7 DEF LooperInv

(* The message is linked, after a flush of the list if asked, and the list freed. *)
LEMMA AddLinkInv == ASSUME LooperInv, NEW t \in Thread, AddLink(t) PROVE LooperInv'
<1> DEFINE new == IF add[t].flush THEN <<add[t].msg>> ELSE Append(head, add[t].msg)
<1>1. /\ add[t].pc = "link" /\ head' = new /\ headwriteprotect' = headwriteprotect + 1
      /\ add' = [add EXCEPT ![t].pc = "signal"]
      /\ UNCHANGED <<headdataavailable, cpc, wpc, msg>>
  BY DEF AddLink
<1>2. /\ add'[t] = [add[t] EXCEPT !.pc = "signal"]
      /\ \A u \in Thread \ {t} : add'[u] = add[u]
      /\ add' \in [Thread -> [pc : {"no", "wait", "link", "signal"},
                              msg : Msgs \cup {Quit, NoMsg}, flush : BOOLEAN]]
  BY <1>1 DEF LooperInv, LooperTypeOK
<1>3. add[t].msg \in Msgs \cup {Quit}
  BY <1>1 DEF LooperInv, AddShape, NoAdd
<1>4. /\ new \in Seq(Msgs \cup {Quit}) /\ Len(new) <= Len(head) + 1
      /\ Len(head) \in Nat /\ Len(new) \in Nat
  <2> DEFINE M == Msgs \cup {Quit}
  <2>1. add[t].msg \in M /\ head \in Seq(M)
    BY <1>3 DEF LooperInv, LooperTypeOK
  <2> HIDE DEF M
  <2>2. <<add[t].msg>> \in Seq(M) /\ Len(<<add[t].msg>>) = 1
    BY <2>1
  <2>3. Append(head, add[t].msg) \in Seq(M) /\ Len(Append(head, add[t].msg)) = Len(head) + 1
    BY <2>1
  <2>4. new \in Seq(M) /\ Len(new) <= Len(head) + 1 /\ Len(head) \in Nat /\ Len(new) \in Nat
    BY <2>1, <2>2, <2>3
  <2> QED BY <2>4 DEF M
<1>5. ListGuarded' /\ headwriteprotect' = 1
  BY <1>1, <1>2 DEF LooperInv, LooperTypeOK, ListGuarded, Linking, Holding, Thread
<1>6. LooperTypeOK'
  BY <1>1, <1>2, <1>4, <1>5 DEF LooperInv, LooperTypeOK
<1>7. DataCounted'
  <2> HIDE DEF new
  <2> QED BY <1>1, <1>2, <1>4 DEF LooperInv, LooperTypeOK, DataCounted, Signalling, Taking,
                                  Thread
<1>8. /\ add[t] # NoAdd
      /\ add'[t].pc = "signal" /\ add'[t].msg = add[t].msg /\ add'[t] # NoAdd
  BY <1>1, <1>2 DEF LooperInv, LooperTypeOK, NoAdd
<1>9. AddShape'
  BY <1>1, <1>2, <1>3, <1>8 DEF LooperInv, AddShape, Thread
<1>10. WorkerShape'
  <2>1. cpc # "none"
    BY <1>8 DEF LooperInv, AddShape, WorkerShape, Thread
  <2> QED BY <1>1, <1>2, <1>8, <2>1 DEF LooperInv, WorkerShape, Thread
<1> QED BY <1>5, <1>6, <1>7, <1>9, <1>10 DEF LooperInv

(* The message is counted and addmsg is done.                              *)
LEMMA AddSignalInv == ASSUME LooperInv, NEW t \in Thread, AddSignal(t) PROVE LooperInv'
<1>1. /\ add[t].pc = "signal" /\ headdataavailable' = headdataavailable + 1
      /\ add' = [add EXCEPT ![t] = NoAdd]
      /\ IF t = "worker" THEN wpc' = "data" /\ msg' = NoMsg ELSE UNCHANGED <<wpc, msg>>
      /\ UNCHANGED <<head, headwriteprotect, cpc>>
  BY DEF AddSignal
<1>2. /\ add'[t] = NoAdd
      /\ \A u \in Thread \ {t} : add'[u] = add[u]
      /\ add' \in [Thread -> [pc : {"no", "wait", "link", "signal"},
                              msg : Msgs \cup {Quit, NoMsg}, flush : BOOLEAN]]
  BY <1>1 DEF LooperInv, LooperTypeOK, NoAdd
<1>3. t = "worker" => wpc = "adding"
  BY <1>1 DEF LooperInv, AddShape, NoAdd
<1>4. LooperTypeOK'
  BY <1>1, <1>2 DEF LooperInv, LooperTypeOK
<1>5. ListGuarded' /\ DataCounted'
  BY <1>1, <1>2, <1>3 DEF LooperInv, LooperTypeOK, ListGuarded, DataCounted, Linking,
                          Holding, Signalling, Taking, NoAdd, Thread
<1>6. AddShape' /\ WorkerShape'
  BY <1>1, <1>2, <1>3 DEF LooperInv, LooperTypeOK, AddShape, WorkerShape, NoAdd, Thread
<1> QED BY <1>4, <1>5, <1>6 DEF LooperInv

(* quit joins the worker.                                                  *)
LEMMA JoinedInv == LooperInv /\ Joined => LooperInv'
BY DEF Joined, LooperInv, LooperTypeOK, ListGuarded, AddShape, WorkerShape,
       DataCounted, Linking, Holding, Signalling, Taking, NoAdd, Thread

(* The worker's loop.                                                      *)
LEMMA WaitDataInv == LooperInv /\ WaitData => LooperInv'
BY DEF WaitData, LooperInv, LooperTypeOK, ListGuarded, AddShape, WorkerShape,
       DataCounted, Linking, Holding, Signalling, Taking, NoAdd, Thread

(* The worker takes the list before it looks at it.                        *)
LEMMA WaitHeadInv == LooperInv /\ WaitHead => LooperInv'
BY DEF WaitHead, LooperInv, LooperTypeOK, ListGuarded, AddShape, WorkerShape,
       DataCounted, Linking, Holding, Signalling, Taking, NoAdd, Thread

(* The worker takes the first message, if any, and leaves when it is quit. *)
LEMMA TakeHeadInv == LooperInv /\ TakeHead => LooperInv'
<1> SUFFICES ASSUME LooperInv, TakeHead PROVE LooperInv'
  OBVIOUS
<1>1. wpc = "take" /\ headwriteprotect' = 1 /\ UNCHANGED <<headdataavailable, add, cpc>>
  BY DEF TakeHead, LooperInv, LooperTypeOK, ListGuarded, Linking, Holding
<1>2. CASE head = <<>>
  <2>1. wpc' = "data" /\ head' = head /\ msg' = msg
    BY <1>2 DEF TakeHead
  <2> QED BY <1>1, <1>2, <2>1 DEF LooperInv, LooperTypeOK, ListGuarded, AddShape,
              WorkerShape, DataCounted, Linking, Holding, Signalling, Taking, NoAdd, Thread
<1>3. CASE head # <<>>
  <2>1. /\ head' = Tail(head)
        /\ IF Head(head) = Quit THEN wpc' = "dead" /\ msg' = msg
                                ELSE wpc' = "handle" /\ msg' = Head(head)
    BY <1>3 DEF TakeHead
  <2>2. /\ Head(head) \in Msgs \cup {Quit} /\ Tail(head) \in Seq(Msgs \cup {Quit})
        /\ Len(Tail(head)) = Len(head) - 1 /\ Len(head) \in Nat
    BY <1>3 DEF LooperInv, LooperTypeOK
  <2>3. LooperTypeOK' /\ AddShape' /\ WorkerShape'
    BY <1>1, <2>1, <2>2 DEF LooperInv, LooperTypeOK, AddShape, WorkerShape, NoAdd, Thread
  <2>4. ListGuarded' /\ DataCounted'
    BY <1>1, <2>1, <2>2 DEF LooperInv, LooperTypeOK, ListGuarded, DataCounted, Linking,
                            Holding, Signalling, Taking, Thread
  <2> QED BY <2>3, <2>4 DEF LooperInv
<1> QED BY <1>2, <1>3

(* handle() returns without having posted.                                 *)
LEMMA ReturnsInv == LooperInv /\ HandleReturns => LooperInv'
BY DEF HandleReturns, LooperInv, LooperTypeOK, ListGuarded, AddShape, WorkerShape,
       DataCounted, Linking, Holding, Signalling, Taking, NoAdd, Thread

(* handle() posts to its own looper: the worker is the adder.              *)
LEMMA PostsInv == ASSUME LooperInv, NEW m \in Msgs, NEW f \in BOOLEAN, HandlePosts(m, f)
                  PROVE  LooperInv'
BY DEF HandlePosts, AddMsg, LooperInv, LooperTypeOK, ListGuarded, AddShape, WorkerShape,
       DataCounted, Linking, Holding, Signalling, Taking, NoAdd, Thread

(* Every step of the looper, its caller and its handler keeps LooperInv.   *)
LEMMA StepInv == LooperInv /\ [LooperNext]_looperVars => LooperInv'
<1> SUFFICES ASSUME LooperInv, [LooperNext]_looperVars PROVE LooperInv'
  OBVIOUS
<1>1. CASE UNCHANGED looperVars
  BY <1>1 DEF looperVars, LooperInv, LooperTypeOK, ListGuarded, AddShape, WorkerShape,
              DataCounted, Linking, Holding, Signalling, Taking
<1>2. CASE LooperNext
  <2>1. ASSUME NEW t \in Thread, Adding(t) PROVE LooperInv'
    BY <2>1, AddWaitInv, AddLinkInv, AddSignalInv DEF Adding
  <2>2. CASE CallerWork
    BY <2>1, <2>2, JoinedInv DEF CallerWork, Thread
  <2>3. CASE Loop
    BY <2>1, <2>3, WaitDataInv, WaitHeadInv, TakeHeadInv DEF Loop, Thread
  <2>4. CASE handle
    BY <2>4, ReturnsInv, PostsInv DEF handle
  <2> QED BY <1>2, <2>2, <2>3, <2>4, NewInv, QuitInv, PostInv DEF LooperNext
<1> QED BY <1>1, <1>2

-----------------------------------------------------------------------------
(* The looper keeps its inductive invariant.                               *)
THEOREM LooperInvariant == LooperSpec => []LooperInv
BY InitInv, StepInv, PTL DEF LooperSpec

(* The variables keep to their types and the list semaphore to 0 and 1.    *)
THEOREM LooperTypes == LooperSpec => []LooperTypeOK
<1>1. LooperInv => LooperTypeOK
  BY DEF LooperInv
<1> QED BY <1>1, LooperInvariant, PTL

(* No wakeup is lost: every message in the list has its count.             *)
THEOREM NoLostWakeup == LooperSpec => []DataCounted
<1>1. LooperInv => DataCounted
  BY DEF LooperInv
<1> QED BY <1>1, LooperInvariant, PTL

(* The looper and its semaphores go last.                                  *)
THEOREM LooperDeletedLast == LooperSpec => []DeletedLast
<1>1. LooperInv => DeletedLast
  BY DEF LooperInv, DeletedLast, WorkerShape, AddShape, Thread
<1> QED BY <1>1, LooperInvariant, PTL

-----------------------------------------------------------------------------
(* A step of a thread in addmsg is one of the mailbox: the link sends, the *)
(* worker's last step ends its handler, and the others are not seen.       *)
LEMMA AddingRefines ==
    ASSUME LooperInv, NEW t \in Thread, Adding(t)
    PROVE  Mail!MailNext \/ UNCHANGED Mail!mailVars
<1>1. CASE AddWait(t)
  BY <1>1 DEF AddWait, Mail!mailVars
<1>2. CASE AddLink(t)
  <2>1. add[t].msg \in Msgs \cup {Quit}
    BY <1>2 DEF AddLink, LooperInv, AddShape, NoAdd
  <2>2. cpc # "none"
    BY <1>2 DEF AddLink, LooperInv, AddShape, WorkerShape, NoAdd, Thread
  <2>3. Mail!Send(add[t].msg) \/ Mail!SendFlush(add[t].msg)
    BY <1>2, <2>2 DEF AddLink, Mail!Send, Mail!SendFlush
  <2> QED BY <2>1, <2>3 DEF Mail!MailNext
<1>3. CASE AddSignal(t)
  <2>1. CASE t = "worker"
    <3>1. wpc = "adding" /\ msg \in Msgs
      BY <1>3, <2>1 DEF AddSignal, LooperInv, AddShape, WorkerShape, NoAdd
    <3>2. Mail!Finish
      BY <1>3, <2>1, <3>1 DEF AddSignal, Mail!Finish
    <3> QED BY <3>2 DEF Mail!MailNext
  <2>2. CASE t # "worker"
    BY <1>3, <2>2 DEF AddSignal, Mail!mailVars
  <2> QED BY <2>1, <2>2
<1> QED BY <1>1, <1>2, <1>3 DEF Adding

(* The worker takes a message, or finds none; a handler ends.              *)
LEMMA TakeRefines == LooperInv /\ TakeHead => Mail!MailNext \/ UNCHANGED Mail!mailVars
<1> SUFFICES ASSUME LooperInv, TakeHead
             PROVE  Mail!MailNext \/ UNCHANGED Mail!mailVars
  OBVIOUS
<1>1. wpc = "take" /\ msg = NoMsg
  BY DEF TakeHead, LooperInv, WorkerShape
<1>2. CASE head = <<>>
  BY <1>1, <1>2 DEF TakeHead, Mail!mailVars
<1>3. CASE head # <<>>
  <2>1. Mail!Take
    BY <1>1, <1>3 DEF TakeHead, Mail!Take
  <2> QED BY <2>1 DEF Mail!MailNext
<1> QED BY <1>2, <1>3

(* Every step of the looper is one of the mailbox or is not seen.          *)
LEMMA StepRefines ==
    LooperInv /\ [LooperNext]_looperVars => [Mail!MailNext]_(Mail!mailVars)
<1> SUFFICES ASSUME LooperInv, [LooperNext]_looperVars
             PROVE  Mail!MailNext \/ UNCHANGED Mail!mailVars
  OBVIOUS
<1>1. CASE UNCHANGED looperVars
  BY <1>1 DEF looperVars, Mail!mailVars
<1>2. CASE looper
  <2>1. Mail!Open
    BY <1>2 DEF looper, Mail!Open, LooperInv, WorkerShape
  <2> QED BY <2>1 DEF Mail!MailNext
<1>3. CASE quit \/ (\E m \in Msgs, flush \in BOOLEAN : post(m, flush))
  BY <1>3 DEF quit, post, Mail!mailVars
<1>4. CASE CallerWork
  <2>1. CASE Joined
    <3>1. Mail!Close
      BY <2>1 DEF Joined, Mail!Close, LooperInv, WorkerShape
    <3> QED BY <3>1 DEF Mail!MailNext
  <2> QED BY <1>4, <2>1, AddingRefines DEF CallerWork, Thread
<1>5. CASE Loop
  <2>1. CASE WaitData \/ WaitHead
    BY <2>1 DEF WaitData, WaitHead, Mail!mailVars
  <2> QED BY <1>5, <2>1, AddingRefines, TakeRefines DEF Loop, Thread
<1>6. CASE handle
  <2>1. CASE HandleReturns
    <3>1. Mail!Finish
      BY <2>1 DEF HandleReturns, Mail!Finish, LooperInv, WorkerShape
    <3> QED BY <3>1 DEF Mail!MailNext
  <2>2. CASE \E m \in Msgs, flush \in BOOLEAN : HandlePosts(m, flush)
    BY <2>2 DEF HandlePosts, Mail!mailVars
  <2> QED BY <1>6, <2>1, <2>2 DEF handle
<1> QED BY <1>1, <1>2, <1>3, <1>4, <1>5, <1>6 DEF LooperNext

(* The looper implements the safety part of the mailbox: order, one        *)
(* message at a time, and no loss but by a flush.                          *)
THEOREM ImplementsMailbox == LooperSpec => Mail!MailSpec
<1>1. LooperInit => Mail!MailInit
  BY DEF LooperInit, Mail!MailInit
<1> QED BY <1>1, StepRefines, LooperInvariant, PTL DEF LooperSpec, Mail!MailSpec
=============================================================================
