-------------------------------- MODULE Looper --------------------------------
(***************************************************************************)
(* The message looper of the NDK's native-codec sample                     *)
(* (src/development/ndk/platforms/android-21/samples/native-codec/jni/     *)
(* looper.cpp): a linked list of messages, a semaphore that counts them, a *)
(* semaphore that protects the list, and a worker thread that takes them.  *)
(* One thread makes, posts to and quits the looper; the worker posts too,  *)
(* from handle, which is the client's.                                     *)
(***************************************************************************)
EXTENDS Naturals, Sequences

CONSTANTS Msgs, Quit, \* what a message asks for; Quit: msg->quit is set
          NoMsg,
          MaxPending  \* bound: posts of the caller not seen by the worker

ASSUME LooperAssumption == Quit \notin Msgs /\ NoMsg \notin Msgs \cup {Quit}
                           /\ MaxPending \in Nat

VARIABLES
    head,               \* the list of messages
    headdataavailable, headwriteprotect, \* the semaphores
    add,                \* each thread's addmsg: step, message, flush
    cpc,                \* the caller: no looper, free, or in quit
    wpc, msg            \* the worker: step and message

looperVars == <<head, headdataavailable, headwriteprotect, add, cpc, wpc, msg>>

Thread == {"caller", "worker"}
NoAdd == [pc |-> "no", msg |-> NoMsg, flush |-> FALSE]

-----------------------------------------------------------------------------
(* The constructor.  It does not assign head: the list is empty because    *)
(* "new mylooper()" clears the object first, mylooper having no            *)
(* constructor of its own.                                                 *)
looper ==
    /\ cpc = "none" /\ cpc' = "free" /\ wpc' = "data"
    /\ head' = <<>> /\ headdataavailable' = 0 /\ headwriteprotect' = 1
    /\ UNCHANGED <<add, msg>>

AddMsg(t, m, flush) ==
    add' = [add EXCEPT ![t] = [pc |-> "wait", msg |-> m, flush |-> flush]]

(* post and quit begin: the message is there and addmsg is called.         *)
post(m, flush) ==
    /\ cpc = "free" /\ add["caller"] = NoAdd /\ headdataavailable < MaxPending
    /\ AddMsg("caller", m, flush)
    /\ UNCHANGED <<head, headdataavailable, headwriteprotect, cpc, wpc, msg>>

quit ==
    /\ cpc = "free" /\ add["caller"] = NoAdd
    /\ cpc' = "quit" /\ AddMsg("caller", Quit, FALSE)
    /\ UNCHANGED <<head, headdataavailable, headwriteprotect, wpc, msg>>

(* addmsg: sem_wait(&headwriteprotect).                                    *)
AddWait(t) ==
    /\ add[t].pc = "wait" /\ headwriteprotect > 0
    /\ headwriteprotect' = headwriteprotect - 1
    /\ add' = [add EXCEPT ![t].pc = "link"]
    /\ UNCHANGED <<head, headdataavailable, cpc, wpc, msg>>

(* Mutant: the message is linked after the first, not after the last.      *)
AddLinkSecond(t) ==
    /\ add[t].pc = "link"
    /\ head' = IF add[t].flush \/ head = <<>> THEN <<add[t].msg>>
               ELSE <<Head(head), add[t].msg>>
    /\ headwriteprotect' = headwriteprotect + 1
    /\ add' = [add EXCEPT ![t].pc = "signal"]
    /\ UNCHANGED <<headdataavailable, cpc, wpc, msg>>

(* The message is linked at the end, or alone after a flush, and           *)
(* sem_post(&headwriteprotect).                                            *)
AddLink(t) ==
    /\ add[t].pc = "link"
    /\ head' = IF add[t].flush THEN <<add[t].msg>> ELSE Append(head, add[t].msg)
    /\ headwriteprotect' = headwriteprotect + 1
    /\ add' = [add EXCEPT ![t].pc = "signal"]
    /\ UNCHANGED <<headdataavailable, cpc, wpc, msg>>

(* Mutant: a flush leaves the count as it was.                             *)
AddSignalUnlessFlush(t) ==
    /\ add[t].pc = "signal"
    /\ headdataavailable' = headdataavailable + (IF add[t].flush THEN 0 ELSE 1)
    /\ add' = [add EXCEPT ![t] = NoAdd]
    /\ IF t = "worker" THEN wpc' = "data" /\ msg' = NoMsg ELSE UNCHANGED <<wpc, msg>>
    /\ UNCHANGED <<head, headwriteprotect, cpc>>

(* sem_post(&headdataavailable), and addmsg returns; the worker's was the  *)
(* last thing its handler did.                                             *)
AddSignal(t) ==
    /\ add[t].pc = "signal"
    /\ headdataavailable' = headdataavailable + 1
    /\ add' = [add EXCEPT ![t] = NoAdd]
    /\ IF t = "worker" THEN wpc' = "data" /\ msg' = NoMsg ELSE UNCHANGED <<wpc, msg>>
    /\ UNCHANGED <<head, headwriteprotect, cpc>>

(* Mutant: quit does not join the worker.                                  *)
QuitNoJoin ==
    /\ cpc = "quit" /\ add["caller"] = NoAdd
    /\ cpc' = "none" /\ head' = <<>>
    /\ UNCHANGED <<headdataavailable, headwriteprotect, add, wpc, msg>>

(* The end of quit and the destructor: the worker is joined, and the       *)
(* semaphores and the looper go, with the messages that are left.          *)
Joined ==
    /\ cpc = "quit" /\ add["caller"] = NoAdd /\ wpc = "dead"
    /\ cpc' = "none" /\ wpc' = "none" /\ head' = <<>>
    /\ UNCHANGED <<headdataavailable, headwriteprotect, add, msg>>

-----------------------------------------------------------------------------
(* The worker's loop.                                                      *)
WaitData ==
    /\ wpc = "data" /\ headdataavailable > 0
    /\ headdataavailable' = headdataavailable - 1 /\ wpc' = "head"
    /\ UNCHANGED <<head, headwriteprotect, add, cpc, msg>>

WaitHead ==
    /\ wpc = "head" /\ headwriteprotect > 0
    /\ headwriteprotect' = headwriteprotect - 1 /\ wpc' = "take"
    /\ UNCHANGED <<head, headdataavailable, add, cpc, msg>>

(* The first message is taken, if a flush has left one, and               *)
(* sem_post(&headwriteprotect); the message to quit ends the worker.       *)
TakeHead ==
    /\ wpc = "take" /\ headwriteprotect' = headwriteprotect + 1
    /\ IF head = <<>>
       THEN wpc' = "data" /\ UNCHANGED <<head, msg>>
       ELSE /\ head' = Tail(head)
            /\ IF Head(head) = Quit THEN wpc' = "dead" /\ UNCHANGED msg
                                    ELSE wpc' = "handle" /\ msg' = Head(head)
    /\ UNCHANGED <<headdataavailable, add, cpc>>

(* The two ways a handler ends: it returns, or it posts and returns.       *)
HandleReturns ==
    /\ wpc = "handle" /\ wpc' = "data" /\ msg' = NoMsg
    /\ UNCHANGED <<head, headdataavailable, headwriteprotect, add, cpc>>

HandlePosts(m, flush) ==
    /\ wpc = "handle" /\ wpc' = "adding" /\ AddMsg("worker", m, flush)
    /\ UNCHANGED <<head, headdataavailable, headwriteprotect, cpc, msg>>

(* Any handler (external).                                                 *)
handle == HandleReturns \/ \E m \in Msgs, flush \in BOOLEAN : HandlePosts(m, flush)

-----------------------------------------------------------------------------
LooperInit ==
    /\ head = <<>> /\ headdataavailable = 0 /\ headwriteprotect = 1
    /\ add = [t \in Thread |-> NoAdd]
    /\ cpc = "none" /\ wpc = "none" /\ msg = NoMsg

Adding(t) == AddWait(t) \/ AddLink(t) \/ AddSignal(t)
CallerWork == Adding("caller") \/ Joined
Loop == Adding("worker") \/ WaitData \/ WaitHead \/ TakeHead

LooperNext == \/ looper \/ quit \/ CallerWork \/ Loop \/ handle
              \/ \E m \in Msgs, flush \in BOOLEAN : post(m, flush)

LooperSpec == LooperInit /\ [][LooperNext]_looperVars

-----------------------------------------------------------------------------
(* Every variable keeps to its type, and the list semaphore to 0 and 1.    *)
LooperTypeOK ==
    /\ head \in Seq(Msgs \cup {Quit})
    /\ headdataavailable \in Nat /\ headwriteprotect \in {0, 1}
    /\ add \in [Thread -> [pc : {"no", "wait", "link", "signal"},
                           msg : Msgs \cup {Quit, NoMsg}, flush : BOOLEAN]]
    /\ cpc \in {"none", "free", "quit"}
    /\ wpc \in {"none", "data", "head", "take", "handle", "adding", "dead"}
    /\ msg \in Msgs \cup {NoMsg}

Signalling(t) == IF add[t].pc = "signal" THEN 1 ELSE 0
Taking == IF wpc \in {"head", "take"} THEN 1 ELSE 0

(* No message is in the list without a count that will wake the worker for *)
(* it: one in the semaphore, one a thread is about to post, or the one the *)
(* worker has taken; a flush drops messages and never a count.             *)
DataCounted == wpc # "dead" =>
    Len(head) <= headdataavailable + Signalling("caller") + Signalling("worker") + Taking

(* The semaphores are destroyed and the looper deleted only when no thread *)
(* is in addmsg or in the loop.                                            *)
DeletedLast == cpc = "none" => /\ wpc = "none"
                               /\ \A t \in Thread : add[t] = NoAdd

-----------------------------------------------------------------------------
Mail == INSTANCE Mailbox WITH
    queue    <- head,
    handling <- IF wpc = "dead" THEN Quit ELSE msg,
    open     <- cpc # "none"

(* The list, the semaphores and the worker implement a mailbox: messages   *)
(* are handled one at a time and in order, none is lost but by a flush,    *)
(* none is stuck, and the looper that has taken its quit message closes.   *)
KeepsMailbox == Mail!FairMailSpec
=============================================================================
