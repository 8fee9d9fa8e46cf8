-------------------------- MODULE ActivityCallbacks --------------------------
(***************************************************************************)
(* What the callbacks of a threaded native activity promise, without the   *)
(* threads, the mutex or the pipe: a callback is one call at a time; while *)
(* it lasts the application takes what it brings, once and whole; and it   *)
(* returns after that and not before.                                      *)
(***************************************************************************)
CONSTANTS Calls,   \* the callbacks that wait: records [op, arg]
          NoCall,  \* no callback is under way
          NULL     \* no window, no queue

VARIABLES current, \* the callback under way, or NoCall
          served,  \* the application has taken what it brings
          view     \* the window, input queue and lifecycle state it works on

callVars == <<current, served, view>>

(* What a callback changes in the application's view: a window, an input   *)
(* queue or a lifecycle state; the other callbacks change none of these.   *)
Effect(c, v) == IF c.op \in {"window", "input", "state"}
                THEN [v EXCEPT ![c.op] = c.arg] ELSE v

CallsInit == /\ current = NoCall /\ served = FALSE
             /\ view = [window |-> NULL, input |-> NULL, state |-> NULL]

Call == /\ current = NoCall /\ \E c \in Calls : current' = c
        /\ served' = FALSE /\ UNCHANGED view

Serve == /\ current # NoCall /\ ~ served
         /\ served' = TRUE /\ view' = Effect(current, view)
         /\ UNCHANGED current

Return == /\ current # NoCall /\ served
          /\ current' = NoCall /\ served' = FALSE /\ UNCHANGED view

CallsNext == Call \/ Serve \/ Return

CallsSpec == CallsInit /\ [][CallsNext]_callVars
FairCallsSpec == CallsSpec /\ WF_callVars(Serve) /\ WF_callVars(Return)
=============================================================================
