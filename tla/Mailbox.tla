------------------------------- MODULE Mailbox -------------------------------
(***************************************************************************)
(* What a looper promises, without its thread and semaphores: a queue that *)
(* is posted to, or emptied and posted to, whose messages are taken in     *)
(* their order, one after the other has been handled; none waits forever,  *)
(* and the looper closes when it has taken the message to quit.            *)
(***************************************************************************)
EXTENDS Sequences

CONSTANTS Msgs, Quit, \* the messages, and the one that ends the looper
          NoMsg       \* none is handled

VARIABLES queue,    \* the messages not taken yet
          handling, \* the message taken and not done with, or NoMsg
          open      \* the looper exists

mailVars == <<queue, handling, open>>

MailInit == queue = <<>> /\ handling = NoMsg /\ open = FALSE

Open == /\ ~ open /\ open' = TRUE
        /\ queue' = <<>> /\ UNCHANGED handling

Send(m) == /\ open /\ queue' = Append(queue, m)
           /\ UNCHANGED <<handling, open>>

SendFlush(m) == /\ open /\ queue' = <<m>>
                /\ UNCHANGED <<handling, open>>

Take == /\ handling = NoMsg /\ queue # <<>>
        /\ handling' = Head(queue) /\ queue' = Tail(queue)
        /\ UNCHANGED open

Finish == /\ handling \in Msgs /\ handling' = NoMsg
          /\ UNCHANGED <<queue, open>>

Close == /\ handling = Quit /\ handling' = NoMsg
         /\ queue' = <<>> /\ open' = FALSE

MailNext == \/ Open \/ Take \/ Finish \/ Close
            \/ \E m \in Msgs \cup {Quit} : Send(m) \/ SendFlush(m)

MailSpec == MailInit /\ [][MailNext]_mailVars

FairMailSpec == /\ MailSpec
                /\ WF_mailVars(Take) /\ WF_mailVars(Finish) /\ WF_mailVars(Close)
=============================================================================
