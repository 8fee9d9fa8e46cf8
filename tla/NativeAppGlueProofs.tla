------------------------ MODULE NativeAppGlueProofs ------------------------
(***************************************************************************)
(* Proofs about the threaded native activity, for any windows, queues and  *)
(* pipe: the types, that the application works only on what the framework  *)
(* keeps valid, who owns the saved state, what is freed last, and that the *)
(* glue implements the callbacks' promise (safety).  GlueInv is the        *)
(* inductive invariant.  The samples native-activity and Teapot are glues  *)
(* with variables of their own; what is proved of the glue holds in them.  *)
(***************************************************************************)
EXTENDS NativeActivity, TeapotActivity, TLAPS

(* The command by which a setter tells the application of its callback.    *)
CmdOf(c) ==
    CASE c.op = "window"  -> IF c.arg = NULL THEN "TERM_WINDOW" ELSE "INIT_WINDOW"
      [] c.op = "input"   -> "INPUT_CHANGED"
      [] c.op = "state"   -> c.arg
      [] c.op = "save"    -> "SAVE_STATE"
      [] c.op = "destroy" -> "DESTROY"

SetterOp == {"window", "input", "state", "save", "destroy"}
WaitStep == {"test", "wait", "relock"}

(* A setter's callback is under way; it has the mutex, or waits for the    *)
(* application.                                                            *)
Setting == call.op \in SetterOp

(* The steps of the application's thread at which it has read a command of *)
(* a setter, and has not yet done what the setter waits for.               *)
Unserved ==
    CASE cmd = "TERM_WINDOW" -> {"pre", "handle", "post"}
      [] cmd = "SAVE_STATE"  -> {"drop", "pre", "handle", "post"}
      [] cmd = "DESTROY"     -> {"pre", "handle", "post", "check"}
      [] cmd \in Locking     -> {"pre"}
      [] OTHER -> {}
Leaving == apc \in {"exit", "destroy"}
InProgress == apc \in Unserved \/ Leaving

OnlyNotices == \A i \in 1..Len(pipe) : pipe[i] \in Notice
EndsWith(c) == /\ Len(pipe) > 0 /\ pipe[Len(pipe)] = c
               /\ \A i \in 1..(Len(pipe) - 1) : pipe[i] \in Notice

(* The command of a setter is in one place: last in the pipe, in the hands *)
(* of the application's thread, or done; and of no other setter is one     *)
(* left.                                                                   *)
InPipe  == EndsWith(CmdOf(call)) /\ ~ InProgress /\ ~ Done(call)
InHands == /\ pipe = <<>> /\ InProgress /\ ~ Done(call)
           /\ IF Leaving THEN call.op = "destroy" ELSE cmd = CmdOf(call)
Served  == pipe = <<>> /\ ~ InProgress /\ Done(call)

Flight == IF Setting /\ mpc \in WaitStep THEN InPipe \/ InHands \/ Served
          ELSE OnlyNotices /\ ~ InProgress

(* Where each thread is when it holds the mutex, and what call and todo    *)
(* hold.                                                                   *)
MainShape ==
    /\ lock = "main" <=> mpc = "test" \/ (mpc = "write" /\ call.op # "notice")
    /\ mpc \in {"create", "noapp"} => call = Create /\ apc = "none"
    /\ mpc \in {"idle", "free", "gone"} => call = NoCall
    /\ mpc \in {"lock"} \cup WaitStep => Setting \/ call = Create
    /\ mpc = "write" => call.op \in SetterOp \cup {"notice"}
    /\ mpc # "write" => todo = <<>>
    /\ mpc = "write" => todo = <<IF call.op = "notice" THEN call.arg ELSE CmdOf(call)>>

AppShape ==
    /\ lock = "app" <=> apc = "unlock"
    /\ apc \in {"none", "entry"} <=> ~ app.running
    /\ apc = "none" <=> mpc \in {"create", "noapp"}
    /\ apc \in {"none", "entry"} => call = Create /\ pipe = <<>>
    /\ cmd = NULL <=> apc \in {"none", "entry", "poll", "exit", "destroy", "unlock", "dead"}
    /\ apc = "drop" => cmd = "SAVE_STATE"

(* The end: the thread leaves when it is asked to destroy, and the setter  *)
(* waits for it until it is dead.                                          *)
EndShape ==
    /\ app.destroyed <=> apc \in {"unlock", "dead"}
    /\ app.destroyRequested <=> \/ cmd = "DESTROY" /\ apc \in {"handle", "post", "check"}
                                \/ apc \in {"exit", "destroy", "unlock", "dead"}
    /\ app.destroyed => \/ call.op = "destroy" /\ mpc \in WaitStep
                        \/ mpc \in {"free", "gone"}
    /\ mpc \in {"free", "gone"} => apc = "dead"

(* What the framework keeps valid, what the setters left and what the      *)
(* application works on.                                                   *)
WindowShape ==
    IF call.op # "window" THEN app.window = fw.window /\ app.pendingWindow = fw.window
    ELSE /\ IF call.arg = NULL THEN fw.window # NULL ELSE fw.window = call.arg
         /\ app.window \in {NULL, fw.window}
         /\ IF mpc = "lock"
            THEN /\ app.pendingWindow = app.window
                 /\ app.window = NULL <=> call.arg # NULL
            ELSE app.pendingWindow = call.arg

InputShape ==
    IF call.op # "input" THEN app.inputQueue = fw.input /\ app.pendingInputQueue = fw.input
    ELSE /\ IF call.arg = NULL THEN fw.input # NULL ELSE fw.input = call.arg
         /\ app.inputQueue \in {NULL, fw.input}
         /\ IF mpc = "lock"
            THEN /\ app.pendingInputQueue = app.inputQueue
                 /\ app.inputQueue = NULL <=> call.arg # NULL
            ELSE app.pendingInputQueue = call.arg

LifeShape ==
    IF call.op # "state"
    THEN fw.life = IF app.activityState = NULL THEN "Created"
                   ELSE LifeAfter([arg |-> app.activityState])
    ELSE fw.life = LifeAfter(call) /\ (mpc = "lock" => app.activityState # call.arg)

(* Before the application has its command, a setter that has the mutex is  *)
(* not done.                                                               *)
NotYet == mpc = "write" /\ Setting => ~ Done(call)

(* The saved state: dropped before the application saves anew, and the one *)
(* of the start is gone before the callback takes it.                      *)
SavedShape ==
    /\ cmd = "SAVE_STATE" /\ apc \in {"pre", "handle"} => app.savedState = NULL
    /\ cmd = "SAVE_STATE" /\ apc = "post" => app.savedState # "initial"
    /\ call.op = "save" /\ mpc \in WaitStep /\ app.stateSaved => app.savedState # "initial"
    /\ saved # "initial"

(* The type of struct android_app, as GlueTypeOK states it.                *)
AppType == [running : BOOLEAN, window : Windows \cup {NULL},
            pendingWindow : Windows \cup {NULL}, inputQueue : Queues \cup {NULL},
            pendingInputQueue : Queues \cup {NULL},
            activityState : LifeCmd \cup {NULL}, stateSaved : BOOLEAN,
            savedState : {NULL, "initial", "fresh"},
            destroyRequested : BOOLEAN, destroyed : BOOLEAN]

(* The inductive invariant.                                                *)
GlueInv == /\ GlueTypeOK /\ MainShape /\ AppShape /\ EndShape /\ Flight /\ NotYet
           /\ WindowShape /\ InputShape /\ LifeShape /\ SavedShape

-----------------------------------------------------------------------------
(* A setter's call brings a value of its kind, and its command is no notice. *)
LEMMA CallTypes ==
    ASSUME GlueTypeOK, Setting
    PROVE  /\ call \in Callback
           /\ call.op = "window" => call.arg \in Windows \cup {NULL}
           /\ call.op = "input"  => call.arg \in Queues \cup {NULL}
           /\ call.op = "state"  => call.arg \in LifeCmd
           /\ call.op \in {"save", "destroy"} => call.arg = NULL
           /\ CmdOf(call) \in Cmd \ Notice
BY DEF GlueTypeOK, Setting, SetterOp, CmdOf, Callback, Create, NoCall, Cmd,
   Notice, LifeCmd

(* Every setter writes one command: a window is never replaced by another  *)
(* but ended first.                                                        *)
LEMMA SetterCommands ==
    ASSUME GlueInv, Setting, mpc = "lock"
    PROVE  Commands(call) = <<CmdOf(call)>> /\ CmdOf(call) \in Cmd
<1>1. CASE call.op = "window"
  <2>1. app.pendingWindow # NULL <=> call.arg = NULL
    BY <1>1 DEF GlueInv, WindowShape
  <2>2. /\ <<"TERM_WINDOW">> \o <<>> = <<"TERM_WINDOW">>
        /\ <<>> \o <<"INIT_WINDOW">> = <<"INIT_WINDOW">>
    OBVIOUS
  <2>3. Commands(call) = <<CmdOf(call)>>
    BY <1>1, <2>1, <2>2 DEF Commands, CmdOf
  <2> QED BY <1>1, <2>3 DEF CmdOf, Cmd
<1>2. CASE call.op # "window"
  BY <1>2, CallTypes DEF GlueInv, Commands, CmdOf, Setting, SetterOp
<1> QED BY <1>1, <1>2

(* A setter takes the mutex, leaves its value and goes on to write.        *)
LEMMA MainLockInv == ASSUME GlueInv, MainLock PROVE GlueInv'
<1> USE GlueAssumption DEF GlueInv
<1>1. /\ mpc = "lock" /\ lock' = "main" /\ app' = Pending(call)
      /\ UNCHANGED <<pipe, call, apc, cmd, saved, fw>>
      /\ todo' = Commands(call)
      /\ mpc' = IF Commands(call) = <<>> THEN "test" ELSE "write"
      /\ Setting \/ call = Create
  BY DEF MainLock, MainShape
<1>2. CASE call = Create
  <2>1. app' = app /\ todo' = <<>> /\ mpc' = "test"
    BY <1>1, <1>2 DEF Pending, Commands, Create
  <2> QED
    BY <1>2, <2>1 DEF MainLock, GlueTypeOK, MainShape, AppShape, EndShape, Flight,
       NotYet, WindowShape, InputShape, LifeShape, SavedShape, Setting, SetterOp,
       InProgress, Leaving, Unserved, OnlyNotices, MainStep, Create
<1>3. CASE Setting
  <2>0. mpc = "lock" /\ lock = NULL
    BY DEF MainLock
  <2>1. Commands(call) = <<CmdOf(call)>> /\ CmdOf(call) \in Cmd
    BY <1>3, <2>0, SetterCommands
  <2>2. mpc' = "write" /\ todo' = <<CmdOf(call)>> /\ todo' \in Seq(Cmd)
    BY <1>1, <2>1
  <2>3. app' \in AppType
    BY <1>1, <1>3, CallTypes DEF Pending, GlueTypeOK, AppType
  <2>4. /\ app'.running = app.running /\ app'.window = app.window /\ app'.inputQueue = app.inputQueue
        /\ app'.activityState = app.activityState
        /\ app'.savedState = app.savedState
        /\ app'.destroyRequested = app.destroyRequested
        /\ app'.destroyed = app.destroyed
        /\ app'.pendingWindow = IF call.op = "window" THEN call.arg ELSE app.pendingWindow
        /\ app'.pendingInputQueue = IF call.op = "input" THEN call.arg ELSE app.pendingInputQueue
        /\ call.op = "save" => ~ app'.stateSaved
    BY <1>1 DEF Pending
  <2>5. GlueTypeOK'
    BY <1>1, <2>2, <2>3 DEF GlueTypeOK, AppType, MainStep
  <2>6. MainShape'
    BY <1>1, <1>3, <2>2 DEF MainShape, Setting, SetterOp
  <2>7. AppShape' /\ EndShape' /\ SavedShape'
    BY <1>1, <2>4 DEF AppShape, EndShape, SavedShape, WaitStep
  <2>8. Flight'
    BY <1>1, <2>2 DEF Flight, WaitStep, InProgress, Leaving, Unserved, OnlyNotices
  <2>9. WindowShape' /\ InputShape' /\ LifeShape'
    BY <1>1, <2>4 DEF WindowShape, InputShape, LifeShape
  <2>10. NotYet'
    <3>1. CASE call.op \in {"window", "input"}
      BY <1>1, <2>4, <3>1 DEF NotYet, WindowShape, InputShape, Done
    <3>2. CASE call.op = "state"
      BY <1>1, <2>4, <3>2 DEF NotYet, LifeShape, Done
    <3>3. CASE call.op = "save"
      BY <1>1, <2>4, <3>3 DEF NotYet, Done
    <3>4. CASE call.op = "destroy"
      BY <1>1, <2>4, <3>4 DEF NotYet, EndShape, Done, WaitStep
    <3> QED BY <1>3, <3>1, <3>2, <3>3, <3>4 DEF Setting, SetterOp
  <2> QED BY <2>5, <2>6, <2>7, <2>8, <2>9, <2>10
<1> QED BY <1>1, <1>2, <1>3

(* A command goes last into the pipe, behind nothing but notices.          *)
LEMMA WriteInv == ASSUME GlueInv, android_app_write_cmd PROVE GlueInv'
<1> USE GlueAssumption DEF GlueInv
<1>1. /\ mpc = "write" /\ Len(pipe) < PipeCap /\ pipe' = Append(pipe, Head(todo))
      /\ UNCHANGED <<app, lock, apc, cmd, saved, fw>>
      /\ call.op \in SetterOp \cup {"notice"}
  BY DEF android_app_write_cmd, MainShape
<1>2. /\ call.op = "notice" => call.arg \in Notice
      /\ pipe \in Seq(Cmd) /\ Len(pipe) \in Nat /\ Len(pipe) < PipeCap
      /\ PipeCap \in Nat
  BY <1>1 DEF GlueTypeOK, Callback, Create, NoCall
<1> DEFINE c == IF call.op = "notice" THEN call.arg ELSE CmdOf(call)
<1>3. c \in Cmd /\ (Setting => c = CmdOf(call) /\ c \notin Notice)
  BY <1>1, <1>2, CallTypes DEF Setting, SetterOp, Cmd
<1>4. todo = <<c>>
  BY <1>1 DEF MainShape
<1> HIDE DEF c
<1>5. /\ Head(todo) = c /\ Tail(todo) = <<>> /\ Len(todo) = 1
  BY <1>4
<1>6. /\ todo' = <<>>
      /\ mpc' = IF call.op = "notice" THEN "idle" ELSE "test"
      /\ call' = IF call.op = "notice" THEN NoCall ELSE call
      /\ pipe' = Append(pipe, c)
  BY <1>5 DEF android_app_write_cmd
<1>7. /\ pipe' \in Seq(Cmd) /\ Len(pipe') = Len(pipe) + 1 /\ pipe'[Len(pipe) + 1] = c
      /\ \A i \in 1..Len(pipe) : pipe'[i] = pipe[i]
  BY <1>2, <1>3, <1>6
<1>8. GlueTypeOK'
  BY <1>1, <1>6, <1>7 DEF GlueTypeOK, MainStep
<1>9. ~ InProgress /\ OnlyNotices /\ ~ InProgress' /\ (Setting => ~ Done(call))
  BY <1>1 DEF Flight, InProgress, Leaving, Unserved, WaitStep, NotYet
<1>10. Flight'
  <2>1. CASE call.op = "notice"
    <3>1. OnlyNotices'
      BY <1>2, <1>7, <1>9, <2>1 DEF OnlyNotices, c
    <3> QED BY <1>6, <1>9, <2>1, <3>1 DEF Flight, WaitStep
  <2>2. CASE Setting
    <3>1. /\ Len(pipe') > 0 /\ pipe'[Len(pipe')] = c
          /\ \A i \in 1..(Len(pipe') - 1) : pipe'[i] \in Notice
      BY <1>7, <1>9 DEF OnlyNotices
    <3>2. call' = call /\ mpc' = "test" /\ c = CmdOf(call)
      BY <1>3, <1>6, <2>2 DEF Setting, SetterOp
    <3>3. CmdOf(call)' = c
      BY <3>2
    <3>4. EndsWith(CmdOf(call))'
      BY <3>1, <3>3 DEF EndsWith
    <3>5. ~ Done(call)'
      BY <1>1, <1>9, <2>2, <3>2 DEF Done
    <3> QED BY <1>9, <2>2, <3>2, <3>4, <3>5 DEF Flight, InPipe, Setting, WaitStep
  <2> QED BY <1>1, <2>1, <2>2 DEF Setting
<1>11. MainShape' /\ NotYet'
  BY <1>1, <1>6 DEF MainShape, NotYet, Setting, WaitStep
<1>12. AppShape' /\ EndShape'
  BY <1>1, <1>6 DEF AppShape, EndShape, Create, SetterOp, WaitStep
<1>13. WindowShape' /\ InputShape'
  BY <1>1, <1>6 DEF WindowShape, InputShape, NoCall
<1>14. LifeShape' /\ SavedShape'
  BY <1>1, <1>6 DEF LifeShape, SavedShape, NoCall, NotYet, Setting, Done
<1> QED BY <1>8, <1>10, <1>11, <1>12, <1>13, <1>14

(* A callback waits, or returns with what it waited for.                   *)
LEMMA MainTestInv == ASSUME GlueInv, MainTest PROVE GlueInv'
<1> USE GlueAssumption DEF GlueInv
<1>1. /\ mpc = "test" /\ lock = "main" /\ lock' = NULL /\ UNCHANGED <<pipe, todo, apc, cmd>>
      /\ Setting \/ call = Create
  BY DEF MainTest, MainShape, WaitStep
<1>2. CASE ~ Done(call)
  <2>1. mpc' = "wait" /\ UNCHANGED <<app, saved, fw, call>>
    BY <1>2 DEF MainTest
  <2>2. GlueTypeOK' /\ MainShape' /\ AppShape' /\ EndShape'
    BY <1>1, <2>1 DEF GlueTypeOK, MainStep, MainShape, AppShape, EndShape,
       WaitStep, Setting
  <2>3. WindowShape' /\ InputShape' /\ LifeShape' /\ SavedShape' /\ NotYet'
    BY <1>1, <2>1 DEF WindowShape, InputShape, LifeShape, SavedShape, WaitStep,
       NotYet
  <2>4. Flight'
    BY <1>1, <2>1 DEF Flight, Setting, WaitStep, InPipe, InHands, Served,
       OnlyNotices, EndsWith, Done, InProgress, Leaving, Unserved
  <2> QED BY <2>2, <2>3, <2>4
<1>3. CASE Done(call)
  <2>1. /\ mpc' = IF call.op = "destroy" THEN "free" ELSE "idle"
        /\ fw' = FwEnd(call) /\ call' = NoCall
    BY <1>3 DEF MainTest
  <2>2. /\ app' = IF call.op = "save" THEN [app EXCEPT !.savedState = NULL] ELSE app
        /\ saved' = IF call.op = "save" THEN app.savedState ELSE saved
    BY <1>3 DEF MainTest
  <2>3. OnlyNotices /\ ~ InProgress
    BY <1>3 DEF Flight, InPipe, InHands, Served, OnlyNotices
  <2>4. Flight'
    BY <1>1, <2>1, <2>3 DEF Flight, NoCall, Setting, SetterOp, InProgress,
       Leaving, Unserved, OnlyNotices
  <2>5. /\ app'.running = app.running /\ app'.window = app.window /\ app'.inputQueue = app.inputQueue
        /\ app'.activityState = app.activityState
        /\ app'.destroyRequested = app.destroyRequested
        /\ app'.destroyed = app.destroyed
        /\ app'.pendingWindow = app.pendingWindow
        /\ app'.pendingInputQueue = app.pendingInputQueue
        /\ app'.savedState = IF call.op = "save" THEN NULL ELSE app.savedState
    BY <2>2
  <2>6. /\ fw'.life = fw.life
        /\ fw'.window = IF call.op = "window" /\ call.arg = NULL THEN NULL ELSE fw.window
        /\ fw'.input = IF call.op = "input" /\ call.arg = NULL THEN NULL ELSE fw.input
        /\ fw' \in [life : {"Created", "Started", "Resumed", "Paused", "Stopped"},
               window : Windows \cup {NULL}, input : Queues \cup {NULL},
               focus : BOOLEAN]
    BY <2>1 DEF GlueTypeOK, FwEnd
  <2>7. GlueTypeOK'
    BY <1>1, <2>1, <2>2, <2>6 DEF GlueTypeOK, MainStep
  <2>8. /\ apc # "unlock"
        /\ call.op = "create" => app.running
        /\ call.op = "destroy" => app.destroyed
    <3>1. apc # "unlock"
      BY <1>1 DEF AppShape
    <3>2. call.op = "create" => app.running
      BY <1>3 DEF Done
    <3>3. call.op = "destroy" => app.destroyed
      BY <1>3 DEF Done
    <3> QED BY <3>1, <3>2, <3>3
  <2>9. MainShape' /\ AppShape' /\ EndShape'
    BY <1>1, <2>1, <2>5, <2>8 DEF MainShape, AppShape, EndShape, WaitStep, Create
  <2>10. WindowShape' /\ InputShape' /\ LifeShape'
    <3>1. WindowShape'
      BY <1>1, <1>3, <2>1, <2>5, <2>6 DEF WindowShape, NoCall, Done
    <3>2. InputShape'
      BY <1>1, <1>3, <2>1, <2>5, <2>6 DEF InputShape, NoCall, Done
    <3>3. call.op = "state" => app.activityState = call.arg /\ call.arg # NULL
      BY <1>3, CallTypes DEF Done, Setting, SetterOp, Cmd
    <3>4. LifeShape'
      BY <2>1, <2>5, <2>6, <3>3 DEF LifeShape, LifeAfter, NoCall
    <3> QED BY <3>1, <3>2, <3>4
  <2>11. SavedShape' /\ NotYet'
    BY <1>1, <1>3, <2>1, <2>2, <2>5 DEF SavedShape, NotYet, Done, WaitStep
  <2> QED BY <2>4, <2>7, <2>9, <2>10, <2>11
<1> QED BY <1>2, <1>3

(* The framework makes a callback: it never asks for what is there.        *)
LEMMA BeginInv == ASSUME GlueInv, NEW c \in Callback, Begin(c) PROVE GlueInv'
<1> USE GlueAssumption DEF GlueInv
<1>1. /\ mpc = "idle" /\ call = NoCall /\ todo = <<>> /\ MayCall(c) /\ call' = c /\ fw' = FwBegin(c)
      /\ IF c.op = "notice" THEN mpc' = "write" /\ todo' = <<c.arg>>
                            ELSE mpc' = "lock" /\ todo' = todo
      /\ UNCHANGED <<app, lock, pipe, apc, cmd, saved>>
      /\ lock # "main"
  BY DEF Begin, MainShape
<1>2. /\ c.op \in SetterOp \cup {"notice"}
      /\ c.op = "notice" => c.arg \in Notice
      /\ c.op = "window" => c.arg \in Windows \cup {NULL}
      /\ c.op = "input"  => c.arg \in Queues \cup {NULL}
      /\ c.op = "state"  => c.arg \in LifeCmd
      /\ c.op \in {"save", "destroy"} => c.arg = NULL
  BY DEF Callback, SetterOp
<1>3. /\ fw'.life = IF c.op = "state" THEN LifeAfter(c) ELSE fw.life
      /\ fw'.window = IF c.op = "window" /\ c.arg # NULL THEN c.arg ELSE fw.window
      /\ fw'.input = IF c.op = "input" /\ c.arg # NULL THEN c.arg ELSE fw.input
      /\ fw' \in [life : {"Created", "Started", "Resumed", "Paused", "Stopped"},
               window : Windows \cup {NULL}, input : Queues \cup {NULL},
               focus : BOOLEAN]
  <2>1. CASE c.op = "state"
    <3>1. LifeAfter(c) \in {"Created", "Started", "Resumed", "Paused", "Stopped"} /\ fw' = [fw EXCEPT !.life = LifeAfter(c)]
      BY <1>1, <1>2, <2>1 DEF LifeAfter, LifeCmd, FwBegin
    <3> QED BY <2>1, <3>1 DEF GlueTypeOK
  <2>2. CASE c.op \in {"window", "input"} /\ c.arg # NULL
    <3>1. fw' = [fw EXCEPT ![c.op] = c.arg]
      BY <1>1, <2>2 DEF FwBegin
    <3>2. CASE c.op = "window"
      BY <1>2, <2>2, <3>1 DEF GlueTypeOK
    <3>3. CASE c.op = "input"
      BY <1>2, <2>2, <3>1 DEF GlueTypeOK
    <3> QED BY <2>2, <3>2, <3>3
  <2>3. CASE c.op # "state" /\ ~ (c.op \in {"window", "input"} /\ c.arg # NULL)
    <3>1. fw' = fw \/ fw' = [fw EXCEPT !.focus = ~ fw.focus]
      BY <1>1, <2>3 DEF FwBegin
    <3> QED BY <2>3, <3>1 DEF GlueTypeOK
  <2> QED BY <2>1, <2>2, <2>3
<1>4. GlueTypeOK'
  <2>1. todo' \in Seq(Cmd)
    <3>1. CASE c.op = "notice"
      <4>1. c.arg \in Cmd
        BY <1>2, <3>1 DEF Cmd
      <4>2. <<c.arg>> \in Seq(Cmd)
        BY <4>1
      <4> QED BY <1>1, <3>1, <4>2
    <3>2. CASE c.op # "notice"
      BY <1>1, <3>2
    <3> QED BY <3>1, <3>2
  <2> QED BY <1>1, <1>3, <2>1 DEF GlueTypeOK, MainStep
<1>5. MainShape' /\ AppShape' /\ EndShape'
  BY <1>1, <1>2 DEF MainShape, AppShape, EndShape, WaitStep, Setting, Create,
     NoCall
<1>6. Flight' /\ NotYet'
  BY <1>1 DEF Flight, Setting, SetterOp, WaitStep, InProgress, Leaving, Unserved,
     OnlyNotices, NotYet
<1>7. WindowShape' /\ InputShape'
  BY <1>1, <1>3 DEF WindowShape, InputShape, NoCall, MayCall
<1>8. LifeShape'
  <2>1. CASE c.op = "state"
    <3>1. fw.life # LifeAfter(c)
      BY <1>1, <1>2, <2>1 DEF MayCall, LifeAfter, LifeCmd
    <3>2. fw.life = IF app.activityState = NULL THEN "Created"
                    ELSE LifeAfter([arg |-> app.activityState])
      BY <1>1 DEF LifeShape, NoCall
    <3>3. c.arg # NULL
      BY <1>2, <2>1 DEF Cmd
    <3>4. app.activityState # c.arg
      BY <3>1, <3>2, <3>3 DEF LifeAfter
    <3> QED BY <1>1, <1>3, <2>1, <3>4 DEF LifeShape
  <2> QED BY <1>1, <1>3, <2>1 DEF LifeShape, NoCall
<1>9. SavedShape'
  BY <1>1 DEF SavedShape, WaitStep
<1> QED BY <1>4, <1>5, <1>6, <1>7, <1>8, <1>9

(* The pipe less the command that is read.                                 *)
LEMMA PipeTail ==
    ASSUME pipe \in Seq(Cmd), pipe # <<>>
    PROVE  /\ Tail(pipe) \in Seq(Cmd) /\ Len(Tail(pipe)) = Len(pipe) - 1
           /\ Head(pipe) = pipe[1] /\ pipe[1] \in Cmd /\ Len(pipe) \in Nat
           /\ Len(pipe) > 0
           /\ \A i \in 1..(Len(pipe) - 1) : Tail(pipe)[i] = pipe[i + 1]
           /\ Len(pipe) = 1 => Tail(pipe) = <<>>
OBVIOUS

(* The first command leaves the pipe: a notice, or the setter's.            *)
LEMMA ReadInv == ASSUME GlueInv, android_app_read_cmd PROVE GlueInv'
<1> USE GlueAssumption DEF GlueInv
<1>1. /\ apc = "poll" /\ pipe # <<>> /\ cmd' = Head(pipe) /\ pipe' = Tail(pipe)
      /\ apc' = IF Head(pipe) = "SAVE_STATE" THEN "drop" ELSE "pre"
      /\ UNCHANGED <<app, lock, mpc, call, todo, saved, fw>>
  BY DEF android_app_read_cmd
<1>2. /\ pipe' \in Seq(Cmd) /\ Len(pipe') = Len(pipe) - 1 /\ cmd' = pipe[1] /\ cmd' \in Cmd
      /\ Len(pipe) \in Nat /\ Len(pipe) > 0
      /\ \A i \in 1..(Len(pipe) - 1) : pipe'[i] = pipe[i + 1]
      /\ Len(pipe) = 1 => pipe' = <<>>
  BY <1>1 DEF GlueTypeOK
<1>3. cmd' # NULL /\ cmd = NULL
  BY <1>1, <1>2 DEF AppShape
<1>4. GlueTypeOK'
  BY <1>1 DEF GlueTypeOK, AppStep
<1>5. MainShape' /\ AppShape' /\ EndShape' /\ NotYet'
  BY <1>1, <1>3 DEF MainShape, AppShape, EndShape, Setting, NotYet, Done
<1>6. WindowShape' /\ InputShape' /\ LifeShape' /\ SavedShape'
  BY <1>1 DEF WindowShape, InputShape, LifeShape, SavedShape
<1>7. Flight'
  <2>1. cmd' \in Notice => ~ InProgress'
    BY <1>1 DEF InProgress, Leaving, Unserved, Notice, Locking, LifeCmd
  <2>2. cmd' \in Cmd \ Notice => InProgress' /\ ~ Leaving'
    BY <1>1 DEF InProgress, Leaving, Unserved, Cmd, Locking, LifeCmd
  <2>3. CASE Setting /\ mpc \in WaitStep
    <3>1. InPipe
      BY <1>1, <2>3 DEF Flight, InHands, Served
    <3>2. CASE Len(pipe) = 1
      <4>1. cmd' = CmdOf(call) /\ pipe' = <<>> /\ CmdOf(call)' = CmdOf(call)
        BY <1>1, <1>2, <3>1, <3>2 DEF InPipe, EndsWith
      <4>2. InHands'
        BY <1>1, <2>2, <2>3, <3>1, <4>1, CallTypes DEF InHands, InPipe, Done
      <4> QED BY <1>1, <2>3, <4>2 DEF Flight, Setting
    <3>3. CASE Len(pipe) > 1
      <4>1. cmd' \in Notice
        BY <1>2, <3>1, <3>3 DEF InPipe, EndsWith
      <4>2. EndsWith(CmdOf(call))'
        <5>1. CmdOf(call)' = CmdOf(call)
          BY <1>1
        <5>2. pipe'[Len(pipe')] = pipe[Len(pipe)] /\ Len(pipe') > 0
          BY <1>2, <3>3
        <5>3. \A i \in 1..(Len(pipe') - 1) : pipe'[i] \in Notice
          BY <1>2, <3>1, <3>3 DEF InPipe, EndsWith
        <5> QED BY <3>1, <5>1, <5>2, <5>3 DEF InPipe, EndsWith
      <4> QED
        BY <1>1, <2>1, <2>3, <3>1, <4>1, <4>2 DEF Flight, InPipe, Setting, Done
    <3> QED BY <1>2, <3>2, <3>3
  <2>4. CASE ~ (Setting /\ mpc \in WaitStep)
    <3>1. cmd' \in Notice /\ OnlyNotices'
      BY <1>2, <2>4 DEF Flight, OnlyNotices
    <3> QED BY <1>1, <2>1, <2>4, <3>1 DEF Flight, Setting
  <2> QED BY <2>3, <2>4
<1> QED BY <1>4, <1>5, <1>6, <1>7

(* What no step of the application's thread with the struct touches, when  *)
(* neither the window, the queue nor the lifecycle state changes.          *)
LEMMA SameView ==
    ASSUME GlueInv, app' \in AppType, apc' \in AppStep, cmd' \in Cmd \cup {NULL},
           UNCHANGED <<pipe, call, todo, saved, fw>>, lock' \in {NULL, "main", "app"},
           mpc' = mpc \/ (mpc = "wait" /\ mpc' = "relock"),
           lock' = "main" <=> lock = "main", apc # "none", apc' # "none",
           app'.window = app.window, app'.inputQueue = app.inputQueue,
           app'.pendingWindow = app.pendingWindow,
           app'.pendingInputQueue = app.pendingInputQueue,
           app'.activityState = app.activityState
    PROVE  GlueTypeOK' /\ MainShape' /\ WindowShape' /\ InputShape' /\ LifeShape'
<1> USE GlueAssumption DEF GlueInv
<1>1. GlueTypeOK'
  BY DEF GlueTypeOK, AppType, MainStep
<1>2. MainShape'
  BY DEF MainShape, WaitStep, Setting
<1>3. WindowShape' /\ InputShape'
  BY DEF WindowShape, InputShape
<1>4. LifeShape'
  BY DEF LifeShape
<1> QED BY <1>1, <1>2, <1>3, <1>4

(* The state that is there is dropped before a new one is saved.           *)
LEMMA DropInv == ASSUME GlueInv, free_saved_state("drop", "pre") PROVE GlueInv'
<1> USE GlueAssumption DEF GlueInv
<1>1. /\ apc = "drop" /\ cmd = "SAVE_STATE" /\ app' = [app EXCEPT !.savedState = NULL] /\ apc' = "pre"
      /\ UNCHANGED <<lock, pipe, mpc, call, todo, cmd, saved, fw>>
  BY DEF free_saved_state, AppShape
<1>2. /\ app' \in AppType /\ app'.window = app.window /\ app'.inputQueue = app.inputQueue
      /\ app'.pendingWindow = app.pendingWindow
      /\ app'.pendingInputQueue = app.pendingInputQueue
      /\ app'.activityState = app.activityState /\ app'.running = app.running
      /\ app'.stateSaved = app.stateSaved /\ app'.savedState = NULL
      /\ app'.destroyRequested = app.destroyRequested
      /\ app'.destroyed = app.destroyed
  BY <1>1 DEF GlueTypeOK, AppType
<1>3. GlueTypeOK' /\ MainShape' /\ WindowShape' /\ InputShape' /\ LifeShape'
  BY <1>1, <1>2, SameView DEF AppStep, GlueTypeOK
<1>4. SavedShape' /\ AppShape' /\ EndShape'
  BY <1>1 DEF SavedShape, AppShape, EndShape
<1>5. Done(call)' <=> Done(call)
  BY <1>1, <1>2 DEF Done
<1>6. InProgress /\ InProgress' /\ ~ Leaving /\ ~ Leaving'
  BY <1>1 DEF InProgress, Leaving, Unserved, Locking, LifeCmd
<1>7. Setting' = Setting /\ CmdOf(call)' = CmdOf(call)
  BY <1>1 DEF Setting
<1>8. Flight' /\ NotYet'
  BY <1>1, <1>5, <1>6, <1>7 DEF Flight, InPipe, InHands, Served, NotYet
<1> QED BY <1>3, <1>4, <1>8

(* A window, a queue or a lifecycle state is taken over, which serves the  *)
(* callback; the other commands wait for the handler.                      *)
LEMMA PreInv == ASSUME GlueInv, android_app_pre_exec_cmd PROVE GlueInv'
<1> USE GlueAssumption DEF GlueInv
<1>1. /\ apc = "pre" /\ app' = PreExec /\ apc' = "handle" /\ (cmd \in Locking => lock = NULL)
      /\ UNCHANGED <<lock, pipe, call, todo, cmd, saved, fw>>
      /\ mpc' = mpc \/ (mpc = "wait" /\ mpc' = "relock")
  BY DEF android_app_pre_exec_cmd, Broadcast
<1>2. /\ Setting' = Setting /\ (mpc \in WaitStep <=> mpc' \in WaitStep) /\ CmdOf(call)' = CmdOf(call)
      /\ mpc' \in MainStep /\ (mpc' = "write" <=> mpc = "write")
  BY <1>1 DEF Setting, WaitStep, GlueTypeOK, MainStep
<1>3. InProgress => /\ Setting /\ mpc \in WaitStep /\ pipe = <<>> /\ ~ Done(call) /\ cmd = CmdOf(call)
  BY <1>1 DEF Flight, InPipe, InHands, Served, Leaving
<1>4. cmd \in Cmd /\ cmd # NULL
  BY <1>1 DEF GlueTypeOK, AppShape
<1>5. CASE cmd \in Notice \cup {"TERM_WINDOW", "SAVE_STATE"}
  <2>1. app' = app /\ cmd # "DESTROY"
    BY <1>1, <1>5 DEF PreExec, Notice, LifeCmd
  <2>2. InProgress' <=> InProgress
    BY <1>1, <1>5 DEF InProgress, Leaving, Unserved, Notice, Locking, LifeCmd
  <2>3. Done(call)' <=> Done(call)
    BY <1>1, <2>1 DEF Done
  <2>4. Flight' /\ NotYet'
    BY <1>1, <1>2, <2>2, <2>3 DEF Flight, InPipe, InHands, Served, Leaving,
       OnlyNotices, EndsWith, NotYet
  <2>5. GlueTypeOK' /\ MainShape' /\ WindowShape' /\ InputShape' /\ LifeShape'
    BY <1>1, <2>1, SameView DEF GlueTypeOK, AppType, AppStep
  <2>6. AppShape'
    BY <1>1, <2>1 DEF AppShape
  <2>7. EndShape' /\ SavedShape'
    BY <1>1, <1>2, <2>1 DEF EndShape, SavedShape
  <2> QED BY <2>4, <2>5, <2>6, <2>7
<1>6. CASE cmd = "DESTROY"
  <2>1. app' = [app EXCEPT !.destroyRequested = TRUE]
    BY <1>1, <1>6 DEF PreExec
  <2>2. /\ app' \in AppType /\ app'.window = app.window /\ app'.inputQueue = app.inputQueue
        /\ app'.pendingWindow = app.pendingWindow
        /\ app'.pendingInputQueue = app.pendingInputQueue
        /\ app'.activityState = app.activityState /\ app'.running = app.running
        /\ app'.stateSaved = app.stateSaved /\ app'.savedState = app.savedState
        /\ app'.destroyRequested = TRUE /\ app'.destroyed = app.destroyed
    BY <2>1 DEF GlueTypeOK, AppType
  <2>3. InProgress' /\ InProgress /\ ~ Leaving /\ ~ Leaving'
    BY <1>1, <1>6 DEF InProgress, Leaving, Unserved, Locking, LifeCmd
  <2>4. Done(call)' <=> Done(call)
    BY <1>1, <2>2 DEF Done
  <2>5. Flight' /\ NotYet'
    BY <1>1, <1>2, <1>3, <2>3, <2>4 DEF Flight, InHands, NotYet
  <2>6. GlueTypeOK' /\ MainShape' /\ WindowShape' /\ InputShape' /\ LifeShape'
    BY <1>1, <2>2, SameView DEF GlueTypeOK, AppStep
  <2>7. AppShape'
    BY <1>1, <2>2 DEF AppShape
  <2>8. EndShape' /\ SavedShape'
    BY <1>1, <1>2, <1>6, <2>2 DEF EndShape, SavedShape
  <2> QED BY <2>5, <2>6, <2>7, <2>8
<1>7. CASE cmd \in Locking
  <2>1. InProgress /\ ~ InProgress'
    BY <1>1, <1>7 DEF InProgress, Leaving, Unserved
  <2>2. cmd \notin {"DESTROY", "SAVE_STATE"} /\ Setting /\ mpc \in WaitStep /\ pipe = <<>> /\ cmd = CmdOf(call)
    BY <1>3, <1>7, <2>1 DEF Locking, LifeCmd
  <2>3. /\ app' \in AppType /\ Done(call)'
        /\ WindowShape' /\ InputShape' /\ LifeShape'
        /\ app'.running = app.running /\ app'.stateSaved = app.stateSaved
        /\ app'.savedState = app.savedState
        /\ app'.destroyRequested = app.destroyRequested
        /\ app'.destroyed = app.destroyed
    <3>1. CASE cmd = "INIT_WINDOW"
      <4>1. app' = [app EXCEPT !.window = app.pendingWindow] /\ call.op = "window" /\ call.arg # NULL
        BY <1>1, <2>2, <3>1, CallTypes DEF PreExec, CmdOf, Setting, SetterOp,
           LifeCmd
      <4>2. app.pendingWindow = call.arg /\ fw.window = call.arg
        BY <2>2, <4>1 DEF WindowShape, WaitStep
      <4>3. app' \in AppType
        BY <4>1 DEF GlueTypeOK, AppType
      <4>4. Done(call)' /\ WindowShape'
        BY <1>1, <4>1 DEF Done, WindowShape
      <4>5. InputShape' /\ LifeShape'
        BY <1>1, <4>1 DEF InputShape, LifeShape
      <4> QED BY <4>1, <4>3, <4>4, <4>5
    <3>2. CASE cmd = "INPUT_CHANGED"
      <4>1. app' = [app EXCEPT !.inputQueue = app.pendingInputQueue] /\ call.op = "input"
        BY <1>1, <2>2, <3>2, CallTypes DEF PreExec, CmdOf, Setting, SetterOp,
           LifeCmd
      <4>2. app.pendingInputQueue = call.arg /\ call.arg \in {NULL, fw.input}
        BY <2>2, <4>1 DEF InputShape, WaitStep
      <4>3. app' \in AppType
        BY <4>1 DEF GlueTypeOK, AppType
      <4>4. Done(call)' /\ InputShape'
        BY <1>1, <4>1 DEF Done, InputShape
      <4>5. WindowShape' /\ LifeShape'
        BY <1>1, <4>1 DEF WindowShape, LifeShape
      <4> QED BY <4>1, <4>3, <4>4, <4>5
    <3>3. CASE cmd \in LifeCmd
      <4>1. app' = [app EXCEPT !.activityState = cmd] /\ call.op = "state" /\ cmd = call.arg
        BY <1>1, <2>2, <3>3 DEF PreExec, CmdOf, Setting, SetterOp, LifeCmd
      <4>2. app' \in AppType
        BY <3>3, <4>1 DEF GlueTypeOK, AppType
      <4>3. Done(call)' /\ LifeShape'
        BY <1>1, <2>2, <4>1 DEF GlueTypeOK, Done, LifeShape, WaitStep
      <4>4. WindowShape' /\ InputShape'
        BY <1>1, <4>1 DEF WindowShape, InputShape
      <4> QED BY <4>1, <4>2, <4>3, <4>4
    <3> QED BY <1>7, <3>1, <3>2, <3>3 DEF Locking
  <2>4. GlueTypeOK'
    BY <1>1, <1>2, <2>3 DEF GlueTypeOK, AppType, AppStep
  <2>5. MainShape'
    BY <1>1 DEF MainShape, WaitStep, Setting
  <2>6. AppShape' /\ SavedShape'
    BY <1>1, <2>2, <2>3 DEF AppShape, SavedShape
  <2>7. EndShape'
    BY <1>1, <2>2, <2>3 DEF EndShape
  <2>8. Flight' /\ NotYet'
    BY <1>1, <1>2, <2>1, <2>2, <2>3 DEF Flight, Served, NotYet, WaitStep
  <2> QED BY <2>3, <2>4, <2>5, <2>6, <2>7, <2>8
<1> QED BY <1>4, <1>5, <1>6, <1>7 DEF Cmd, Locking

(* The handler saves its state when asked, or does not.                    *)
LEMMA HandleInv == ASSUME GlueInv, AppHandle PROVE GlueInv'
<1> USE GlueAssumption DEF GlueInv
<1>1. /\ apc = "handle" /\ apc' = "post"
      /\ app' = app \/ (cmd = "SAVE_STATE" /\ app' = [app EXCEPT !.savedState = "fresh"])
      /\ UNCHANGED <<lock, pipe, mpc, call, todo, cmd, saved, fw>>
  BY DEF AppHandle
<1>2. /\ app' \in AppType /\ app'.window = app.window /\ app'.inputQueue = app.inputQueue
      /\ app'.pendingWindow = app.pendingWindow
      /\ app'.pendingInputQueue = app.pendingInputQueue
      /\ app'.activityState = app.activityState /\ app'.running = app.running
      /\ app'.stateSaved = app.stateSaved
      /\ app'.savedState = app.savedState \/ (cmd = "SAVE_STATE" /\ app'.savedState = "fresh")
      /\ app'.destroyRequested = app.destroyRequested
      /\ app'.destroyed = app.destroyed
  BY <1>1 DEF GlueTypeOK, AppType
<1>3. GlueTypeOK' /\ MainShape' /\ WindowShape' /\ InputShape' /\ LifeShape'
  BY <1>1, <1>2, SameView DEF AppStep, GlueTypeOK
<1>4. AppShape' /\ EndShape'
  BY <1>1, <1>2 DEF AppShape, EndShape
<1>5. /\ Done(call)' <=> Done(call)
      /\ Setting' = Setting /\ CmdOf(call)' = CmdOf(call)
  BY <1>1, <1>2 DEF Done, Setting
<1>6. (InProgress' <=> InProgress) /\ ~ Leaving /\ ~ Leaving'
  BY <1>1 DEF InProgress, Leaving, Unserved
<1>7. Flight' /\ NotYet'
  BY <1>1, <1>5, <1>6 DEF Flight, InPipe, InHands, Served, NotYet, EndsWith,
     OnlyNotices
<1>8. SavedShape'
  BY <1>1, <1>2 DEF SavedShape
<1> QED BY <1>3, <1>4, <1>7, <1>8

(* The window is given up, or the state saved, which serves the callback.  *)
LEMMA PostInv == ASSUME GlueInv, android_app_post_exec_cmd PROVE GlueInv'
<1> USE GlueAssumption DEF GlueInv
<1>1. /\ apc = "post" /\ apc' = "check" /\ cmd \in Cmd
      /\ UNCHANGED <<lock, pipe, call, todo, cmd, saved, fw>>
      /\ mpc' = mpc \/ (mpc = "wait" /\ mpc' = "relock")
  BY DEF android_app_post_exec_cmd, free_saved_state, Broadcast, GlueTypeOK,
     AppShape
<1>2. /\ Setting' = Setting /\ (mpc \in WaitStep <=> mpc' \in WaitStep) /\ CmdOf(call)' = CmdOf(call)
      /\ mpc' \in MainStep /\ (mpc' = "write" <=> mpc = "write") /\ ~ Leaving /\ ~ Leaving'
  BY <1>1 DEF Setting, WaitStep, GlueTypeOK, MainStep, Leaving
<1>3. InProgress => /\ Setting /\ mpc \in WaitStep /\ pipe = <<>> /\ ~ Done(call) /\ cmd = CmdOf(call)
  BY <1>1 DEF Flight, InPipe, InHands, Served, Leaving
<1>4. CASE cmd \notin {"TERM_WINDOW", "SAVE_STATE"}
  <2>1. app' = IF cmd = "RESUME" THEN [app EXCEPT !.savedState = NULL] ELSE app
    BY <1>4 DEF android_app_post_exec_cmd, free_saved_state
  <2>2. /\ app' \in AppType /\ app'.window = app.window /\ app'.inputQueue = app.inputQueue
        /\ app'.pendingWindow = app.pendingWindow
        /\ app'.pendingInputQueue = app.pendingInputQueue
        /\ app'.activityState = app.activityState /\ app'.running = app.running
        /\ app'.stateSaved = app.stateSaved
        /\ app'.savedState \in {app.savedState, NULL}
        /\ app'.destroyRequested = app.destroyRequested
        /\ app'.destroyed = app.destroyed
    BY <2>1 DEF GlueTypeOK, AppType
  <2>3. InProgress' <=> InProgress
    BY <1>1, <1>4 DEF InProgress, Leaving, Unserved
  <2>4. Done(call)' <=> Done(call)
    BY <1>1, <2>2 DEF Done
  <2>5. Flight' /\ NotYet'
    BY <1>1, <1>2, <2>3, <2>4 DEF Flight, InPipe, InHands, Served, NotYet,
       EndsWith, OnlyNotices
  <2>6. GlueTypeOK' /\ MainShape' /\ WindowShape' /\ InputShape' /\ LifeShape'
    BY <1>1, <2>2, SameView DEF GlueTypeOK, AppStep
  <2>7. AppShape' /\ EndShape'
    BY <1>1, <1>2, <2>2 DEF AppShape, EndShape
  <2>8. SavedShape'
    BY <1>1, <1>2, <2>2 DEF SavedShape
  <2> QED BY <2>5, <2>6, <2>7, <2>8
<1>5. CASE cmd \in {"TERM_WINDOW", "SAVE_STATE"}
  <2>1. InProgress /\ ~ InProgress'
    BY <1>1, <1>5 DEF InProgress, Leaving, Unserved, Locking, LifeCmd
  <2>2. /\ lock = NULL
        /\ app' = PostExec
    BY <1>5 DEF android_app_post_exec_cmd, free_saved_state
  <2>3. /\ Setting /\ mpc \in WaitStep /\ pipe = <<>> /\ cmd = CmdOf(call)
    BY <1>3, <2>1
  <2>4. /\ app' \in AppType /\ Done(call)' /\ WindowShape'
        /\ app'.inputQueue = app.inputQueue
        /\ app'.pendingInputQueue = app.pendingInputQueue
        /\ app'.activityState = app.activityState /\ app'.running = app.running
        /\ app'.savedState = app.savedState /\ (cmd = "TERM_WINDOW" => call.op = "window")
        /\ app'.destroyRequested = app.destroyRequested
        /\ app'.destroyed = app.destroyed
    <3>1. CASE cmd = "TERM_WINDOW"
      <4>1. app' = [app EXCEPT !.window = NULL] /\ call.op = "window" /\ call.arg = NULL
        BY <2>2, <2>3, <3>1, CallTypes DEF PostExec, CmdOf, Setting, SetterOp,
           LifeCmd
      <4>2. app.pendingWindow = NULL
        BY <2>3, <4>1 DEF WindowShape, WaitStep
      <4>3. app' \in AppType
        BY <4>1 DEF GlueTypeOK, AppType
      <4>4. Done(call)' /\ WindowShape'
        BY <1>1, <1>2, <2>3, <4>1, <4>2 DEF GlueTypeOK, Done, WindowShape,
           WaitStep
      <4> QED BY <4>1, <4>3, <4>4 DEF GlueTypeOK
    <3>2. CASE cmd = "SAVE_STATE"
      <4>1. app' = [app EXCEPT !.stateSaved = TRUE] /\ call.op = "save"
        BY <2>2, <2>3, <3>2, CallTypes DEF PostExec, CmdOf, Setting, SetterOp,
           LifeCmd
      <4>2. app' \in AppType
        BY <4>1 DEF GlueTypeOK, AppType
      <4>3. Done(call)' /\ WindowShape'
        BY <1>1, <4>1 DEF GlueTypeOK, Done, WindowShape
      <4> QED BY <3>2, <4>1, <4>2, <4>3 DEF GlueTypeOK
    <3> QED BY <1>5, <3>1, <3>2
  <2>5. GlueTypeOK'
    BY <1>1, <1>2, <2>4 DEF GlueTypeOK, AppType, AppStep
  <2>6. MainShape'
    BY <1>1, <1>2, <2>2, <2>3 DEF MainShape, WaitStep, Setting, SetterOp
  <2>7. InputShape' /\ LifeShape'
    BY <1>1, <2>4 DEF InputShape, LifeShape, LifeAfter
  <2>8. AppShape'
    BY <1>1, <1>2, <2>3, <2>4 DEF AppShape
  <2>9. EndShape'
    BY <1>1, <1>2, <1>5, <2>3, <2>4 DEF EndShape
  <2>10. SavedShape'
    BY <1>1, <1>2, <1>5, <2>3, <2>4 DEF SavedShape
  <2>11. Flight' /\ NotYet'
    BY <1>1, <1>2, <2>1, <2>3, <2>4 DEF Flight, Served, NotYet, WaitStep
  <2> QED BY <2>4, <2>5, <2>6, <2>7, <2>8, <2>9, <2>10, <2>11
<1> QED BY <1>4, <1>5

(* The thread leaves its loop exactly when it has handled DESTROY.         *)
LEMMA CheckInv == ASSUME GlueInv, AppCheck PROVE GlueInv'
<1> USE GlueAssumption DEF GlueInv
<1>1. /\ apc = "check" /\ apc' = IF app.destroyRequested THEN "exit" ELSE "poll"
      /\ cmd' = NULL
      /\ UNCHANGED <<app, lock, pipe, mpc, call, todo, saved, fw>>
  BY DEF AppCheck
<1>2. /\ app.destroyRequested <=> cmd = "DESTROY"
      /\ NULL \notin Cmd
  BY <1>1 DEF EndShape
<1>3. GlueTypeOK' /\ MainShape' /\ WindowShape' /\ InputShape' /\ LifeShape'
  BY <1>1, SameView DEF GlueTypeOK, AppType, AppStep
<1>4. AppShape' /\ EndShape'
  BY <1>1, <1>2 DEF AppShape, EndShape, Cmd
<1>5. SavedShape'
  BY <1>1 DEF SavedShape
<1>6. /\ Done(call)' <=> Done(call)
      /\ Setting' = Setting /\ CmdOf(call)' = CmdOf(call)
  BY <1>1 DEF Done, Setting, CmdOf
<1>7. CASE cmd = "DESTROY"
  <2>1. InProgress /\ InProgress' /\ ~ Leaving /\ Leaving'
    BY <1>1, <1>2, <1>7 DEF InProgress, Leaving, Unserved, Locking, LifeCmd
  <2>2. call.op = "destroy" /\ Setting /\ mpc \in WaitStep /\ pipe = <<>> /\ ~ Done(call)
    <3>1. Setting /\ mpc \in WaitStep /\ pipe = <<>> /\ ~ Done(call) /\ CmdOf(call) = "DESTROY"
      BY <1>7, <2>1 DEF Flight, InPipe, InHands, Served
    <3> QED BY <3>1, CallTypes DEF CmdOf, Setting, SetterOp, LifeCmd
  <2> QED
    BY <1>1, <1>3, <1>4, <1>5, <1>6, <2>1, <2>2 DEF Flight, InHands, NotYet,
       WaitStep
<1>8. CASE cmd # "DESTROY"
  <2>1. ~ InProgress /\ ~ InProgress'
    BY <1>1, <1>2, <1>8 DEF InProgress, Leaving, Unserved, Locking, LifeCmd, Cmd
  <2>2. Flight' /\ NotYet'
    BY <1>1, <1>6, <2>1 DEF Flight, InPipe, InHands, Served, NotYet, EndsWith,
       OnlyNotices
  <2> QED BY <1>3, <1>4, <1>5, <2>2
<1> QED BY <1>7, <1>8

(* The thread frees the state, sets destroyed and lets the mutex go.       *)
LEMMA DestroyInv == ASSUME GlueInv, android_app_destroy PROVE GlueInv'
<1> USE GlueAssumption DEF GlueInv
<1>1. /\ apc \in {"exit", "destroy", "unlock"}
      /\ UNCHANGED <<pipe, call, todo, cmd, saved, fw>>
      /\ mpc' = mpc \/ (mpc = "wait" /\ mpc' = "relock")
  BY DEF android_app_destroy, free_saved_state, Broadcast
<1>2. /\ Setting' = Setting /\ (mpc \in WaitStep <=> mpc' \in WaitStep) /\ CmdOf(call)' = CmdOf(call)
      /\ mpc' \in MainStep /\ (mpc' = "write" <=> mpc = "write")
      /\ cmd = NULL
  BY <1>1 DEF Setting, WaitStep, CmdOf, GlueTypeOK, MainStep, AppShape
<1>3. apc # "unlock" => /\ InProgress /\ Leaving
                        /\ Setting /\ mpc \in WaitStep /\ pipe = <<>>
                        /\ ~ Done(call) /\ call.op = "destroy"
  BY <1>1 DEF Flight, InPipe, InHands, Served, Leaving, InProgress
<1>4. CASE free_saved_state("exit", "destroy")
  <2>1. /\ apc = "exit" /\ apc' = "destroy" /\ app' = [app EXCEPT !.savedState = NULL]
        /\ mpc' = mpc /\ lock' = lock
    BY <1>4 DEF free_saved_state
  <2>2. /\ app' \in AppType /\ app'.window = app.window /\ app'.inputQueue = app.inputQueue
        /\ app'.pendingWindow = app.pendingWindow
        /\ app'.pendingInputQueue = app.pendingInputQueue
        /\ app'.activityState = app.activityState /\ app'.running = app.running
        /\ app'.stateSaved = app.stateSaved /\ app'.savedState = NULL
        /\ app'.destroyRequested = app.destroyRequested
        /\ app'.destroyed = app.destroyed
    BY <2>1 DEF GlueTypeOK, AppType
  <2>3. GlueTypeOK' /\ MainShape' /\ WindowShape' /\ InputShape' /\ LifeShape'
    BY <1>1, <2>1, <2>2, SameView DEF GlueTypeOK, AppStep
  <2>4. AppShape' /\ EndShape' /\ SavedShape'
    BY <1>1, <2>1, <2>2 DEF AppShape, EndShape, SavedShape
  <2>5. Done(call)' <=> Done(call)
    BY <1>1, <2>2 DEF Done
  <2>6. Flight' /\ NotYet'
    BY <1>1, <1>2, <1>3, <2>1, <2>5 DEF Flight, InHands, NotYet, InProgress,
       Leaving
  <2> QED BY <2>3, <2>4, <2>6
<1>5. CASE apc = "destroy"
  <2>1. /\ lock = NULL /\ lock' = "app" /\ apc' = "unlock" /\ app' = [app EXCEPT !.destroyed = TRUE]
    BY <1>5 DEF android_app_destroy, free_saved_state
  <2>2. /\ app' \in AppType /\ app'.window = app.window /\ app'.inputQueue = app.inputQueue
        /\ app'.pendingWindow = app.pendingWindow
        /\ app'.pendingInputQueue = app.pendingInputQueue
        /\ app'.activityState = app.activityState /\ app'.running = app.running
        /\ app'.stateSaved = app.stateSaved /\ app'.savedState = app.savedState
        /\ app'.destroyRequested = app.destroyRequested /\ app'.destroyed = TRUE
    BY <2>1 DEF GlueTypeOK, AppType
  <2>3. GlueTypeOK' /\ MainShape' /\ WindowShape' /\ InputShape' /\ LifeShape'
    BY <1>1, <1>5, <2>1, <2>2, SameView DEF GlueTypeOK, AppStep
  <2>4. AppShape'
    BY <1>1, <1>2, <1>5, <2>1, <2>2 DEF AppShape
  <2>5. EndShape' /\ SavedShape'
    BY <1>1, <1>2, <1>3, <1>5, <2>1, <2>2 DEF EndShape, SavedShape
  <2>6. Done(call)'
    BY <1>1, <1>3, <1>5, <2>2 DEF Done
  <2>7. ~ InProgress'
    BY <1>1, <1>2, <2>1 DEF InProgress, Leaving, Unserved, Locking, LifeCmd
  <2>8. Flight' /\ NotYet'
    BY <1>1, <1>2, <1>3, <1>5, <2>6, <2>7 DEF Flight, Served, NotYet, WaitStep
  <2> QED BY <2>3, <2>4, <2>5, <2>8
<1>6. CASE apc = "unlock"
  <2>1. /\ lock' = NULL /\ apc' = "dead" /\ app' = app /\ mpc' = mpc /\ lock = "app"
    BY <1>6 DEF android_app_destroy, free_saved_state, AppShape
  <2>2. GlueTypeOK' /\ MainShape' /\ WindowShape' /\ InputShape' /\ LifeShape'
    BY <1>1, <1>6, <2>1, SameView DEF GlueTypeOK, AppType, AppStep
  <2>3. AppShape'
    BY <1>1, <1>2, <1>6, <2>1 DEF AppShape
  <2>4. EndShape' /\ SavedShape'
    BY <1>1, <1>2, <1>6, <2>1 DEF EndShape, SavedShape
  <2>5. Done(call)' <=> Done(call)
    BY <1>1, <2>1 DEF Done
  <2>6. ~ InProgress' /\ ~ InProgress
    BY <1>1, <1>2, <1>6, <2>1 DEF InProgress, Leaving, Unserved, Locking, LifeCmd
  <2>7. Flight' /\ NotYet'
    BY <1>1, <1>2, <2>5, <2>6 DEF Flight, InPipe, InHands, Served, NotYet,
       EndsWith, OnlyNotices
  <2> QED BY <2>2, <2>3, <2>4, <2>7
<1> QED BY <1>1, <1>4, <1>5, <1>6 DEF android_app_destroy

(* The steps of the main thread that neither call nor return.              *)
LEMMA MainStepInv ==
    ASSUME GlueInv, android_app_create \/ MainSpurious \/ MainRelock \/ android_app_free
    PROVE  GlueInv'
<1> USE GlueAssumption DEF GlueInv
<1>1. UNCHANGED <<app, pipe, call, todo, cmd, saved, fw>>
  BY DEF android_app_create, MainSpurious, MainRelock, android_app_free
<1>2. /\ Done(call)' <=> Done(call)
      /\ Setting' = Setting /\ CmdOf(call)' = CmdOf(call)
  BY <1>1 DEF Done, Setting, CmdOf
<1>3. CASE apc' = apc
  <2>1. \/ mpc = "create" /\ mpc' = "noapp" /\ lock' = lock
        \/ mpc = "wait" /\ mpc' = "relock" /\ lock' = lock
        \/ mpc = "relock" /\ mpc' = "test" /\ lock = NULL /\ lock' = "main"
        \/ mpc = "free" /\ mpc' = "gone" /\ lock' = lock
    BY <1>3 DEF android_app_create, MainSpurious, MainRelock, android_app_free,
       MainShape
  <2>2. GlueTypeOK'
    BY <1>1, <1>3, <2>1 DEF GlueTypeOK, MainStep
  <2>3. MainShape'
    BY <1>1, <1>3, <2>1 DEF MainShape, WaitStep, Setting
  <2>4. AppShape'
    BY <1>1, <1>3, <2>1 DEF AppShape
  <2>5. EndShape' /\ SavedShape'
    BY <1>1, <1>3, <2>1 DEF EndShape, SavedShape, WaitStep
  <2>6. WindowShape' /\ InputShape' /\ LifeShape'
    BY <1>1, <2>1 DEF WindowShape, InputShape, LifeShape, LifeAfter
  <2>7. InProgress' <=> InProgress
    BY <1>1, <1>3 DEF InProgress, Leaving, Unserved
  <2>8. Flight' /\ NotYet'
    BY <1>1, <1>2, <1>3, <2>1, <2>7 DEF Flight, WaitStep, InPipe, InHands, Served,
       Leaving, NotYet, EndsWith, OnlyNotices
  <2> QED BY <2>2, <2>3, <2>4, <2>5, <2>6, <2>8
<1>4. CASE apc' # apc
  <2>1. mpc = "create" /\ mpc' = "lock" /\ apc' = "entry" /\ lock' = lock /\ call = Create /\ apc = "none"
    BY <1>4 DEF android_app_create, MainSpurious, MainRelock, android_app_free,
       MainShape
  <2>2. GlueTypeOK'
    BY <1>1, <2>1 DEF GlueTypeOK, MainStep, AppStep
  <2>3. MainShape' /\ AppShape'
    BY <1>1, <2>1 DEF MainShape, AppShape
  <2>4. EndShape' /\ SavedShape'
    BY <1>1, <2>1 DEF EndShape, SavedShape, WaitStep
  <2>5. WindowShape' /\ InputShape' /\ LifeShape'
    BY <1>1, <2>1 DEF WindowShape, InputShape, LifeShape, LifeAfter, Create
  <2>6. ~ InProgress /\ ~ InProgress' /\ ~ Setting
    BY <1>1, <2>1 DEF InProgress, Leaving, Unserved, Setting, SetterOp, Create
  <2>7. Flight' /\ NotYet'
    BY <1>1, <1>2, <2>1, <2>6 DEF Flight, NotYet, OnlyNotices
  <2> QED BY <2>2, <2>3, <2>4, <2>5, <2>7
<1> QED BY <1>3, <1>4

(* The application's thread runs, which android_app_create waits for.      *)
LEMMA EntryInv == ASSUME GlueInv, android_app_entry PROVE GlueInv'
<1> USE GlueAssumption DEF GlueInv
<1>1. /\ apc = "entry" /\ apc' = "poll" /\ app' = [app EXCEPT !.running = TRUE]
      /\ UNCHANGED <<lock, pipe, call, todo, cmd, saved, fw>>
      /\ mpc' = mpc \/ (mpc = "wait" /\ mpc' = "relock")
      /\ call = Create
  BY DEF android_app_entry, Broadcast, AppShape
<1>2. /\ app' \in AppType /\ app'.window = app.window /\ app'.inputQueue = app.inputQueue
      /\ app'.pendingWindow = app.pendingWindow
      /\ app'.pendingInputQueue = app.pendingInputQueue
      /\ app'.activityState = app.activityState /\ app'.running = TRUE
      /\ app'.stateSaved = app.stateSaved /\ app'.savedState = app.savedState
      /\ app'.destroyRequested = app.destroyRequested
      /\ app'.destroyed = app.destroyed
  BY <1>1 DEF GlueTypeOK, AppType
<1>3. GlueTypeOK' /\ MainShape' /\ WindowShape' /\ InputShape' /\ LifeShape'
  BY <1>1, <1>2, SameView DEF AppStep, GlueTypeOK
<1>4. AppShape' /\ SavedShape'
  BY <1>1, <1>2 DEF AppShape, SavedShape, Create
<1>5. EndShape'
  BY <1>1, <1>2 DEF EndShape, WaitStep
<1>6. ~ Setting /\ ~ Setting' /\ ~ InProgress'
  BY <1>1 DEF Setting, SetterOp, Create, InProgress, Leaving, Unserved, Locking,
     LifeCmd
<1>7. Flight' /\ NotYet'
  BY <1>1, <1>6 DEF Flight, NotYet, OnlyNotices
<1> QED BY <1>3, <1>4, <1>5, <1>7

(* The invariant holds in the beginning.                                   *)
LEMMA InitInv == GlueInit => GlueInv
<1> SUFFICES ASSUME GlueInit PROVE GlueInv
  OBVIOUS
<1> USE GlueAssumption DEF GlueInit
<1>1. GlueTypeOK
  BY DEF GlueTypeOK, MainStep, AppStep, LifeCmd
<1>2. MainShape
  BY DEF MainShape, Setting, SetterOp, WaitStep
<1>3. AppShape /\ EndShape /\ SavedShape
  BY DEF AppShape, EndShape, SavedShape, Cmd
<1>4. WindowShape /\ InputShape /\ LifeShape
  BY DEF WindowShape, InputShape, LifeShape, Create
<1>5. Flight /\ NotYet
  BY DEF Flight, NotYet, WaitStep, OnlyNotices, InProgress, Leaving, Unserved
<1> QED BY <1>1, <1>2, <1>3, <1>4, <1>5 DEF GlueInv

(* Every step of either thread keeps the invariant.                        *)
LEMMA GlueStep == GlueInv /\ [GlueNext]_glueVars => GlueInv'
<1> SUFFICES ASSUME GlueInv, [GlueNext]_glueVars PROVE GlueInv'
  OBVIOUS
<1>1. CASE MainNext
  BY <1>1, MainStepInv, MainLockInv, WriteInv, MainTestInv, BeginInv DEF MainNext,
     MainWork
<1>2. CASE AppNext
  BY <1>2, EntryInv, ReadInv, DropInv, PreInv, HandleInv, PostInv, CheckInv,
     DestroyInv DEF AppNext, AppGlue
<1>3. CASE UNCHANGED glueVars
  <2>1. UNCHANGED <<app, lock, pipe, mpc, call, todo, apc, cmd, saved, fw>>
    BY <1>3 DEF glueVars
  <2>2. GlueTypeOK' /\ AppShape' /\ EndShape' /\ SavedShape'
    BY <2>1 DEF GlueInv, GlueTypeOK, AppShape, EndShape, SavedShape
  <2>3. MainShape' /\ WindowShape' /\ InputShape' /\ LifeShape'
    BY <2>1 DEF GlueInv, MainShape, WindowShape, InputShape, LifeShape, LifeAfter,
       Setting, CmdOf
  <2>4. /\ Done(call)' <=> Done(call)
        /\ Setting' = Setting /\ CmdOf(call)' = CmdOf(call)
        /\ InProgress' <=> InProgress
    BY <2>1 DEF Done, Setting, CmdOf, InProgress, Leaving, Unserved
  <2>5. Flight' /\ NotYet'
    BY <2>1, <2>4 DEF GlueInv, Flight, NotYet, InPipe, InHands, Served, Leaving,
       EndsWith, OnlyNotices
  <2> QED BY <2>2, <2>3, <2>5 DEF GlueInv
<1> QED BY <1>1, <1>2, <1>3 DEF GlueNext, GlueEnd

(* The inductive invariant of the glue: where a setter's command is, what  *)
(* each thread holds, and that window, queue and lifecycle state are the   *)
(* framework's, but for the callback under way.                            *)
THEOREM GlueInductive == GlueSpec => []GlueInv
<1>1. GlueInit => GlueInv
  BY InitInv
<1>2. GlueInv /\ [GlueNext]_glueVars => GlueInv'
  BY GlueStep
<1> QED BY <1>1, <1>2, PTL DEF GlueSpec

-----------------------------------------------------------------------------
(* Every field and variable of the glue keeps its type.                    *)
THEOREM GlueTypes == GlueSpec => []GlueTypeOK
BY GlueInductive, PTL DEF GlueInv

(* The application's window and input queue are ones the framework keeps   *)
(* valid, whatever windows and queues there are.                           *)
THEOREM WindowsValid == GlueSpec => []WindowValid
<1>1. GlueInv => WindowValid
  BY DEF GlueInv, WindowShape, InputShape, WindowValid
<1> QED BY <1>1, GlueInductive, PTL

(* Between callbacks the application and the framework agree: no setter    *)
(* returns before the application has taken its value.                     *)
THEOREM IdleAgrees == GlueSpec => []IdleInSync
<1>1. GlueInv => IdleInSync
  BY DEF GlueInv, MainShape, WindowShape, InputShape, LifeShape, IdleInSync,
     NoCall
<1> QED BY <1>1, GlueInductive, PTL

(* android_app_free frees the struct after the application's thread has    *)
(* released its mutex for the last time.                                   *)
THEOREM FreedAfterUse == GlueSpec => []FreedLast
<1>1. GlueInv => FreedLast
  BY DEF GlueInv, EndShape, FreedLast
<1> QED BY <1>1, GlueInductive, PTL

(* A saved state has one owner at a time, and the one of the start never   *)
(* comes back from onSaveInstanceState.                                    *)
THEOREM SavedStateOwned == GlueSpec => []SavedOnce
<1>1. GlueInv => SavedOnce
  BY DEF GlueInv, SavedShape, SavedOnce
<1> QED BY <1>1, GlueInductive, PTL

-----------------------------------------------------------------------------
(* The sample activity is the glue with a handler of its own.              *)
LEMMA ActivityIsGlue == ActivitySpec => GlueSpec
<1>1. ActivityInit => GlueInit
  BY DEF ActivityInit
<1>2. [ActivityNext]_activityVars => [GlueNext]_glueVars
  BY DEF ActivityNext, activityVars, AppThread, engine_handle_cmd, android_main,
     GlueNext, AppNext, AppHandle
<1> QED BY <1>1, <1>2, PTL DEF ActivitySpec, GlueSpec

(* The main thread changes nothing of what the application works on.       *)
LEMMA MainKeepsView ==
    ASSUME GlueInv, MainNext
    PROVE  /\ app'.window = app.window /\ app'.inputQueue = app.inputQueue
           /\ app'.activityState = app.activityState
           /\ cmd' = cmd /\ (apc' = apc \/ apc' = "entry")
<1>1. \/ app' = app
      \/ app' = Pending(call)
      \/ app' = [app EXCEPT !.savedState = NULL]
  BY DEF MainNext, MainWork, MainLock, android_app_write_cmd, MainTest,
     MainRelock, android_app_create, android_app_free, MainSpurious, Begin
<1>2. cmd' = cmd /\ (apc' = apc \/ apc' = "entry")
  BY DEF MainNext, MainWork, MainLock, android_app_write_cmd, MainTest,
     MainRelock, android_app_create, android_app_free, MainSpurious, Begin
<1> QED BY <1>1, <1>2 DEF GlueInv, GlueTypeOK, Pending

(* The display stands on the application's window, and is gone before the  *)
(* window is.                                                              *)
SurfaceInv == /\ surface # NULL => surface = app.window
              /\ apc = "post" /\ cmd = "TERM_WINDOW" => surface = NULL

(* Every step of the activity keeps the display on its window.             *)
LEMMA SurfaceStep == ASSUME GlueInv, SurfaceInv, ActivityNext PROVE SurfaceInv'
<1> USE DEF SurfaceInv
<1>1. CASE MainNext /\ surface' = surface
  BY <1>1, MainKeepsView
<1>2. CASE engine_handle_cmd
  <2>1. app'.window = app.window
    BY <1>2 DEF engine_handle_cmd, GlueInv, GlueTypeOK
  <2> QED
    BY <1>2, <2>1 DEF engine_handle_cmd, engine_init_display, engine_term_display
<1>3. CASE android_main
  BY <1>3 DEF android_main, AppCheck, engine_term_display
<1>4. CASE AppGlue /\ surface' = surface
  <2>1. CASE android_app_pre_exec_cmd
    <3>1. apc = "pre" /\ apc' = "handle" /\ app' = PreExec
      BY <2>1 DEF android_app_pre_exec_cmd
    <3>2. CASE cmd = "INIT_WINDOW"
      <4>1. InProgress /\ ~ Leaving
        BY <3>1, <3>2 DEF InProgress, Leaving, Unserved, Locking, LifeCmd
      <4>2. Setting /\ mpc \in WaitStep /\ ~ Done(call) /\ CmdOf(call) = "INIT_WINDOW"
        BY <3>2, <4>1 DEF GlueInv, Flight, InPipe, InHands, Served
      <4>3. call.op = "window" /\ call.arg # NULL
        BY <4>2, CallTypes DEF GlueInv, Setting, SetterOp, CmdOf, LifeCmd
      <4>4. app.window = NULL
        BY <4>2, <4>3 DEF GlueInv, WindowShape, WaitStep, Done
      <4> QED BY <1>4, <3>1, <4>4
    <3>3. CASE cmd # "INIT_WINDOW"
      BY <1>4, <3>1, <3>3 DEF PreExec, GlueInv, GlueTypeOK
    <3> QED BY <3>2, <3>3
  <2>2. CASE android_app_post_exec_cmd
    <3>1. apc' = "check" /\ apc = "post"
      BY <2>2 DEF android_app_post_exec_cmd, free_saved_state
    <3>2. cmd # "TERM_WINDOW" => app'.window = app.window
      BY <2>2 DEF android_app_post_exec_cmd, free_saved_state, PostExec, GlueInv,
         GlueTypeOK
    <3> QED BY <1>4, <3>1, <3>2
  <2>3. CASE android_app_entry \/ android_app_read_cmd \/ free_saved_state("drop", "pre")
             \/ android_app_destroy
    <3>1. app'.window = app.window /\ apc' # "post"
      BY <2>3 DEF android_app_entry, android_app_read_cmd, free_saved_state,
         android_app_destroy, GlueInv, GlueTypeOK
    <3> QED BY <1>4, <3>1
  <2> QED BY <1>4, <2>1, <2>2, <2>3 DEF AppGlue
<1>5. CASE GlueEnd /\ surface' = surface
  BY <1>5 DEF GlueEnd, glueVars
<1> QED BY <1>1, <1>2, <1>3, <1>4, <1>5 DEF ActivityNext, AppThread

(* The sample draws only on a window that the framework keeps valid.       *)
THEOREM SurfaceOnWindow == ActivitySpec => []SurfaceValid
<1>1. ActivityInit => SurfaceInv
  BY DEF ActivityInit, GlueInit, SurfaceInv
<1>2. GlueInv /\ SurfaceInv /\ [ActivityNext]_activityVars => SurfaceInv'
  BY SurfaceStep DEF activityVars, glueVars, SurfaceInv
<1>3. GlueInv /\ SurfaceInv => SurfaceValid
  BY DEF GlueInv, SurfaceInv, WindowShape, SurfaceValid
<1> QED BY <1>1, <1>2, <1>3, ActivityIsGlue, GlueInductive, PTL DEF ActivitySpec

-----------------------------------------------------------------------------
(* The Teapot sample is the glue with another handler.                     *)
THEOREM TeapotIsGlue == TeapotSpec => GlueSpec
<1>1. TeapotInit => GlueInit
  BY DEF TeapotInit
<1>2. [TeapotNext]_teapotVars => [GlueNext]_glueVars
  BY DEF TeapotNext, teapotVars, TeapotHandle, TeapotCheck, TeapotDraw, glueVars,
     GlueNext, AppNext, AppHandle
<1> QED BY <1>1, <1>2, PTL DEF TeapotSpec, GlueSpec

AnyWindow == Windows \cup {NULL}

GLType == [window : AnyWindow, display : BOOLEAN, surface : AnyWindow,
           context : BOOLEAN, current : BOOLEAN, loaded : BOOLEAN,
           gles : BOOLEAN, initialized : BOOLEAN]

EngineType == [resources : BOOLEAN, focus : BOOLEAN]

(* A GLContext makes surfaces on its window only, and only a context that  *)
(* there is can be current.                                                *)
GLOK(g) == g \in GLType /\ g.surface \in {NULL, g.window} /\ (g.current => g.context)

(* A context has the resources if it is current, or in any case.           *)
Loaded(g) == g.current => g.loaded
Full(g) == g.context => g.loaded

(* What a method of an initialised GLContext leaves alone.                 *)
Stays(g, h) == GLOK(h) /\ h.window = g.window /\ h.initialized = g.initialized

LEMMA InitSurfaceOK ==
  ASSUME NEW g, GLOK(g), NEW h \in InitEGLSurface(g)
  PROVE  /\ Stays(g, h)
         /\ h.context = g.context /\ h.current = g.current /\ h.loaded = g.loaded
<1>1. PICK w \in {g.surface, NULL, g.window} :
        h = [g EXCEPT !.display = TRUE, !.surface = w]
  BY Zenon DEF InitEGLSurface
<1> QED
  BY <1>1 DEF Stays, GLOK, GLType, AnyWindow

LEMMA InitContextOK ==
  ASSUME NEW g, GLOK(g), NEW h \in InitEGLContext(g)
  PROVE  Stays(g, h)
<1>1. PICK c \in (IF g.display THEN BOOLEAN ELSE {FALSE}) :
        h \in LET k == [g EXCEPT !.context = c, !.loaded = FALSE]
              IN {[k EXCEPT !.current = c /\ err = "SUCCESS"] : err \in eglMakeCurrent(k)}
  BY Zenon DEF InitEGLContext
<1> DEFINE k == [g EXCEPT !.context = c, !.loaded = FALSE]
<1>2. PICK err \in eglMakeCurrent(k) : h = [k EXCEPT !.current = c /\ err = "SUCCESS"]
  BY <1>1, Zenon
<1>3. c \in BOOLEAN
  BY <1>1
<1>4. k \in GLType /\ k.context = c /\ k.window = g.window
        /\ k.surface = g.surface /\ k.initialized = g.initialized
  BY <1>3 DEF GLOK, GLType
<1> HIDE DEF k
<1>5. h \in GLType /\ h.context = c /\ h.window = g.window /\ h.surface = g.surface
        /\ h.initialized = g.initialized /\ h.current = (c /\ err = "SUCCESS")
  BY <1>2, <1>3, <1>4 DEF GLType
<1> QED
  BY <1>5 DEF Stays, GLOK

LEMMA TerminateOK ==
  ASSUME NEW g, GLOK(g)
  PROVE  Stays(g, GLTerminate(g)) /\ ~ GLTerminate(g).display
BY DEF GLTerminate, Stays, GLOK, GLType, AnyWindow

LEMMA StaysTrans ==
  ASSUME NEW f, NEW g, NEW h, Stays(f, g), Stays(g, h)
  PROVE  Stays(f, h)
BY DEF Stays

(* GLContext::Init on a context that was not initialised.                  *)
LEMMA GLInitOK ==
  ASSUME NEW g, GLOK(g), ~ g.initialized, NEW w \in AnyWindow,
         NEW h \in GLInit(g, w), ~ g.display, g.surface = NULL
  PROVE  GLOK(h) /\ h.window = w /\ h.initialized
<1> DEFINE k == [g EXCEPT !.window = w]
           S == UNION {InitEGLContext(x) : x \in InitEGLSurface(k)}
<1>1. GLOK(k) /\ k.window = w
  BY DEF GLOK, GLType, AnyWindow
<1>2. PICK y \in InitGLES(S) : h = [y EXCEPT !.initialized = TRUE]
  BY Zenon DEF GLInit
<1>3. PICK z \in S : y = [z EXCEPT !.gles = TRUE]
  BY <1>2, Zenon DEF InitGLES
<1> HIDE DEF k
<1>4. PICK x \in InitEGLSurface(k) : z \in InitEGLContext(x)
  BY <1>3, Zenon
<1> HIDE DEF S
<1>5. Stays(k, z)
  <2>1. Stays(k, x) /\ GLOK(x)
    BY <1>1, <1>4, InitSurfaceOK DEF Stays
  <2>2. Stays(x, z)
    BY <1>4, <2>1, InitContextOK
  <2> QED BY <2>1, <2>2, StaysTrans
<1>6. GLOK(y) /\ y.window = w
  BY <1>1, <1>3, <1>5 DEF Stays, GLOK, GLType
<1> QED
  BY <1>2, <1>6 DEF GLOK, GLType

(* GLContext::Swap keeps to its window, and does not hide the loss of a    *)
(* context.                                                                *)
LEMMA SwapOK ==
  ASSUME NEW g, GLOK(g), NEW r \in Swap(g)
  PROVE  /\ Stays(g, r.gl)
         /\ r.err = "SUCCESS" /\ Loaded(g) => Loaded(r.gl)
<1>1. PICK err \in eglSwapBuffers(g) :
        r \in CASE err = "BAD_SURFACE"  -> {Ret(h, "SUCCESS") : h \in InitEGLSurface(g)}
                [] err = "CONTEXT_LOST" -> {Ret(h, err) : h \in InitEGLContext(GLTerminate(g))}
                [] OTHER -> {Ret(g, err)}
  BY Zenon DEF Swap
<1>2. CASE err = "BAD_SURFACE"
  <2>1. PICK h \in InitEGLSurface(g) : r = Ret(h, "SUCCESS")
    BY <1>1, <1>2
  <2>2. r.gl = h
    BY <2>1 DEF Ret
  <2> QED BY <2>1, <2>2, InitSurfaceOK DEF Loaded
<1>3. CASE err = "CONTEXT_LOST"
  <2>1. PICK h \in InitEGLContext(GLTerminate(g)) : r = Ret(h, "CONTEXT_LOST")
    BY <1>1, <1>3
  <2>2. r.gl = h /\ r.err = "CONTEXT_LOST"
    BY <2>1 DEF Ret
  <2>3. Stays(g, GLTerminate(g)) /\ GLOK(GLTerminate(g))
    BY TerminateOK DEF Stays
  <2>4. Stays(g, h)
    BY <2>1, <2>3, InitContextOK, StaysTrans
  <2> QED BY <2>2, <2>4
<1>4. CASE err \notin {"BAD_SURFACE", "CONTEXT_LOST"}
  <2>1. r = Ret(g, err)
    BY <1>1, <1>4
  <2> QED BY <2>1 DEF Ret, Stays
<1> QED
  BY <1>2, <1>3, <1>4

(* With its surface made, Resume returns a success only if the context is  *)
(* the one there was, with the resources it had.                           *)
LEMMA MakeCurrentOK ==
  ASSUME NEW s, GLOK(s), NEW r \in MakeCurrent(s)
  PROVE  /\ Stays(s, r.gl)
         /\ r.err = "SUCCESS" /\ Full(s) => Loaded(r.gl)
<1>1. PICK err \in eglMakeCurrent(s) :
        r \in CASE err = "SUCCESS" -> {Ret([s EXCEPT !.current = s.context], err)}
                [] err = "CONTEXT_LOST" -> {Ret(h, err) : h \in InitEGLContext(s)}
                [] OTHER -> {Ret(h, err) : h \in UNION {InitEGLContext(x) :
                                              x \in InitEGLSurface(GLTerminate(s))}}
  BY Zenon DEF MakeCurrent
<1>2. CASE err = "SUCCESS"
  <2> DEFINE h == [s EXCEPT !.current = s.context]
  <2>1. r = Ret(h, err)
    BY <1>1, <1>2
  <2>2. Stays(s, h) /\ (Full(s) => Loaded(h))
    BY DEF Stays, GLOK, GLType, Full, Loaded
  <2> HIDE DEF h
  <2> QED BY <2>1, <2>2 DEF Ret
<1>3. CASE err = "CONTEXT_LOST"
  <2>1. PICK h \in InitEGLContext(s) : r = Ret(h, "CONTEXT_LOST")
    BY <1>1, <1>3
  <2> QED BY <2>1, InitContextOK DEF Ret
<1>4. CASE err \notin {"SUCCESS", "CONTEXT_LOST"}
  <2>1. PICK h \in UNION {InitEGLContext(x) : x \in InitEGLSurface(GLTerminate(s))} :
          r = Ret(h, err)
    BY <1>1, <1>4
  <2>2. PICK x \in InitEGLSurface(GLTerminate(s)) : h \in InitEGLContext(x)
    BY <2>1, Zenon
  <2>3. Stays(s, GLTerminate(s)) /\ GLOK(GLTerminate(s))
    BY TerminateOK DEF Stays
  <2>4. Stays(s, x) /\ GLOK(x)
    BY <2>2, <2>3, InitSurfaceOK, StaysTrans DEF Stays
  <2>5. Stays(s, h)
    BY <2>2, <2>4, InitContextOK, StaysTrans
  <2> QED BY <1>4, <2>1, <2>5 DEF Ret
<1> QED
  BY <1>2, <1>3, <1>4

(* GLContext::Resume of an initialised context moves to its window.        *)
LEMMA ResumeOK ==
  ASSUME NEW g, GLOK(g), g.initialized, NEW w \in AnyWindow, NEW r \in Resume(g, w)
  PROVE  /\ GLOK(r.gl) /\ r.gl.window = w /\ r.gl.initialized
         /\ r.err = "SUCCESS" /\ Full(g) => Loaded(r.gl)
<1>1. PICK x \in (IF g.display THEN {NULL, w} ELSE {NULL}) :
        r \in MakeCurrent([g EXCEPT !.window = w, !.surface = x])
  BY Zenon DEF Resume
<1> DEFINE s == [g EXCEPT !.window = w, !.surface = x]
<1>2. x \in {NULL, w}
  BY <1>1
<1>3. GLOK(s) /\ s.window = w /\ s.initialized /\ (Full(g) => Full(s))
  BY <1>2 DEF GLOK, GLType, AnyWindow, Full
<1>4. r \in MakeCurrent(s)
  BY <1>1
<1> HIDE DEF s
<1> QED
  BY <1>3, <1>4, MakeCurrentOK DEF Stays

(* The engine loads its resources again when it is told of an error.       *)
LEMMA ReloadedOK ==
  ASSUME NEW r, GLOK(r.gl)
  PROVE  /\ Stays(r.gl, Reloaded(r))
         /\ Reloaded(r).display = r.gl.display /\ Reloaded(r).surface = r.gl.surface
         /\ (r.err = "SUCCESS" => Loaded(r.gl)) => Loaded(Reloaded(r))
BY DEF Reloaded, GLOK, GLType, Stays, Loaded

LEMMA DrawFrameOK ==
  ASSUME NEW g, GLOK(g), NEW x \in DrawFrame(g)
  PROVE  Stays(g, x) /\ (Loaded(g) => Loaded(x))
<1>1. PICK r \in Swap(g) : x = Reloaded(r)
  BY DEF DrawFrame
<1>2. Stays(g, r.gl) /\ (r.err = "SUCCESS" /\ Loaded(g) => Loaded(r.gl))
  BY SwapOK
<1> QED
  BY <1>1, <1>2, ReloadedOK, StaysTrans DEF Stays

-----------------------------------------------------------------------------
(* The context and the engine between any two steps: the context is        *)
(* initialised only with resources, has nothing before that, and is on the *)
(* window of the application once INIT_WINDOW has been handled.            *)
EngineOK(g, e) ==
    /\ GLOK(g) /\ e \in EngineType /\ (g.initialized => e.resources)
    /\ ~ g.initialized => ~ g.display /\ g.surface = NULL

TeapotInv == /\ EngineOK(gl, engine)
             /\ app.window # NULL /\ ~ Preparing => gl.window = app.window

(* What is drawn leaves that as it is.                                     *)
LEMMA DrawKeeps ==
  ASSUME NEW g, NEW e, EngineOK(g, e), NEW x \in DrawFrame(g)
  PROVE  EngineOK(x, e)
<1>1. Stays(g, x)
  BY DrawFrameOK DEF EngineOK
<1>2. CASE g.initialized
  BY <1>1, <1>2 DEF EngineOK, Stays
<1>3. CASE ~ g.initialized
  <2>1. eglSwapBuffers(g) = {"FAILURE"}
    BY <1>3 DEF EngineOK, eglSwapBuffers
  <2>2. PICK r \in Swap(g) : x = Reloaded(r)
    BY DEF DrawFrame
  <2>3. r = Ret(g, "FAILURE")
    BY <2>1, <2>2 DEF Swap
  <2>4. r.gl = g /\ GLOK(r.gl)
    BY <2>3 DEF Ret, EngineOK
  <2>5. x.display = g.display /\ x.surface = g.surface
    BY <2>2, <2>4, ReloadedOK
  <2> QED BY <1>1, <1>3, <2>5 DEF EngineOK, Stays
<1> QED
  BY <1>2, <1>3

(* Engine::InitDisplay puts the context on the application's window.       *)
LEMMA InitDisplayOK ==
  ASSUME GlueTypeOK, NEW g, NEW e, EngineOK(g, e), NEW x \in InitDisplay(g, e)
  PROVE  /\ GLOK(x) /\ x.window = app.window /\ x.initialized
         /\ g.initialized /\ Full(g) => Loaded(x)
<1>1. app.window \in AnyWindow
  BY DEF GlueTypeOK, AnyWindow
<1>2. CASE ~ e.resources
  <2>1. PICK h \in GLInit(g, app.window) : x = [h EXCEPT !.loaded = h.current]
    BY <1>2, Zenon DEF InitDisplay
  <2>2. ~ g.initialized
    BY <1>2 DEF EngineOK
  <2>3. GLOK(h) /\ h.window = app.window /\ h.initialized
    BY <1>1, <2>1, <2>2, GLInitOK DEF EngineOK
  <2> QED BY <2>1, <2>2, <2>3 DEF GLOK, GLType
<1>3. CASE e.resources
  <2>1. PICK r \in Resume(g, app.window) : x = Reloaded(r)
    BY <1>3 DEF InitDisplay
  <2>2. CASE g.initialized
    <3>1. /\ GLOK(r.gl) /\ r.gl.window = app.window /\ r.gl.initialized
          /\ r.err = "SUCCESS" /\ Full(g) => Loaded(r.gl)
      BY <1>1, <2>1, <2>2, ResumeOK DEF EngineOK
    <3> QED BY <2>1, <2>2, <3>1, ReloadedOK DEF Stays
  <2>3. CASE ~ g.initialized
    <3>1. PICK h \in GLInit(g, app.window) : r = Ret(h, "SUCCESS")
      BY <2>1, <2>3 DEF Resume
    <3>2. GLOK(h) /\ h.window = app.window /\ h.initialized
      BY <1>1, <2>3, <3>1, GLInitOK DEF EngineOK
    <3>3. x = h
      BY <2>1, <3>1 DEF Ret, Reloaded
    <3> QED BY <2>3, <3>2, <3>3
  <2> QED BY <2>2, <2>3
<1> QED
  BY <1>2, <1>3 DEF EngineOK, EngineType

(* A command: INIT_WINDOW moves the context to the window, the others      *)
(* leave it where it is.                                                   *)
LEMMA HandleCmdOK ==
  ASSUME GlueTypeOK, NEW g, NEW e, EngineOK(g, e), NEW x \in HandleCmd(g, e)
  PROVE  /\ EngineOK(x[1], x[2])
         /\ x[1].window = IF cmd = "INIT_WINDOW" /\ app.window # NULL
                          THEN app.window ELSE g.window
         /\ g.initialized /\ Full(g) => Loaded(x[1])
<1>1. CASE cmd = "INIT_WINDOW" /\ app.window # NULL
  <2> DEFINE f == [e EXCEPT !.resources = TRUE]
  <2>1. PICK h \in UNION {DrawFrame(y) : y \in InitDisplay(g, e)} : x = <<h, f>>
    BY <1>1, Zenon DEF HandleCmd
  <2>2. PICK y \in InitDisplay(g, e) : h \in DrawFrame(y)
    BY <2>1, Zenon
  <2>3. /\ GLOK(y) /\ y.window = app.window /\ y.initialized
        /\ g.initialized /\ Full(g) => Loaded(y)
    BY <2>2, InitDisplayOK
  <2>4. Stays(y, h) /\ (Loaded(y) => Loaded(h))
    BY <2>2, <2>3, DrawFrameOK
  <2>5. f \in EngineType /\ f.resources
    BY DEF EngineOK, EngineType
  <2> HIDE DEF f
  <2>6. x[1] = h /\ x[2] = f
    BY <2>1
  <2> QED BY <1>1, <2>3, <2>4, <2>5, <2>6 DEF Stays, EngineOK
<1>2. CASE cmd = "LOST_FOCUS"
  <2> DEFINE f == [e EXCEPT !.focus = FALSE]
  <2>1. PICK h \in DrawFrame(g) : x = <<h, f>>
    BY <1>2, Zenon DEF HandleCmd
  <2>2. EngineOK(g, f)
    BY DEF EngineOK, EngineType
  <2> HIDE DEF f
  <2>3. EngineOK(h, f)
    BY <2>1, <2>2, DrawKeeps
  <2>4. Stays(g, h) /\ (Loaded(g) => Loaded(h))
    BY <2>1, <2>2, DrawFrameOK DEF EngineOK
  <2>5. Full(g) => Loaded(g)
    BY DEF EngineOK, GLOK, Full, Loaded
  <2>6. x[1] = h /\ x[2] = f
    BY <2>1
  <2> QED BY <1>2, <2>3, <2>4, <2>5, <2>6 DEF Stays
<1>3. CASE cmd = "TERM_WINDOW"
  <2>1. x = <<Suspend(g), [e EXCEPT !.focus = FALSE]>>
    BY <1>3 DEF HandleCmd
  <2> QED BY <1>3, <2>1 DEF Suspend, EngineOK, EngineType, GLOK, GLType, AnyWindow,
          Loaded, Full
<1>4. CASE cmd = "LOW_MEMORY"
  <2>1. x = <<Invalidate(g), e>>
    BY <1>4 DEF HandleCmd
  <2> QED BY <1>4, <2>1 DEF Invalidate, GLTerminate, EngineOK, EngineType, GLOK,
          GLType, AnyWindow, Loaded
<1>5. CASE cmd = "GAINED_FOCUS"
  <2>1. x = <<g, [e EXCEPT !.focus = TRUE]>>
    BY <1>5 DEF HandleCmd
  <2> QED BY <1>5, <2>1 DEF EngineOK, EngineType, GLOK, Loaded, Full
<1>6. CASE /\ cmd \notin {"LOST_FOCUS", "TERM_WINDOW", "LOW_MEMORY", "GAINED_FOCUS"}
           /\ ~ (cmd = "INIT_WINDOW" /\ app.window # NULL)
  <2>1. x = <<g, e>>
    BY <1>6 DEF HandleCmd
  <2> QED BY <1>6, <2>1 DEF EngineOK, GLOK, Loaded, Full
<1> QED
  BY <1>1, <1>2, <1>3, <1>4, <1>5, <1>6

(* Steps of the glue: a window comes with INIT_WINDOW, which is handled    *)
(* next.                                                                   *)
LEMMA TeapotGlue ==
  ASSUME GlueInv, TeapotInv, MainNext \/ AppGlue \/ GlueEnd, UNCHANGED <<gl, engine>>
  PROVE  TeapotInv'
<1> SUFFICES app'.window # NULL /\ ~ Preparing' => gl.window = app'.window
  BY DEF TeapotInv
<1>1. CASE MainNext
  <2>1. app'.window = app.window /\ cmd' = cmd
    BY <1>1, MainKeepsView
  <2>2. apc' = apc \/ apc = "none"
    BY <1>1 DEF MainNext, MainWork, MainLock, android_app_write_cmd, MainTest,
       MainRelock, android_app_create, android_app_free, MainSpurious, Begin,
       GlueInv, MainShape
  <2> QED BY <2>1, <2>2 DEF TeapotInv, Preparing
<1>2. CASE GlueEnd
  BY <1>2 DEF GlueEnd, glueVars, TeapotInv, Preparing
<1>3. CASE android_app_pre_exec_cmd
  <2>1. apc = "pre" /\ apc' = "handle" /\ cmd' = cmd /\ app' = PreExec
    BY <1>3 DEF android_app_pre_exec_cmd
  <2>2. cmd # "INIT_WINDOW" => app'.window = app.window
    BY <2>1 DEF PreExec, GlueInv, GlueTypeOK
  <2> QED BY <2>1, <2>2 DEF TeapotInv, Preparing
<1>4. CASE AppGlue /\ ~ android_app_pre_exec_cmd
  <2>1. apc # "handle" /\ app'.window \in {NULL, app.window}
    BY <1>4 DEF AppGlue, android_app_entry, android_app_read_cmd, free_saved_state,
       android_app_post_exec_cmd, PostExec, android_app_destroy, GlueInv, GlueTypeOK
  <2> QED BY <2>1 DEF TeapotInv, Preparing
<1> QED
  BY <1>1, <1>2, <1>3, <1>4

LEMMA TeapotStep == ASSUME GlueInv, TeapotInv, TeapotNext PROVE TeapotInv'
<1>1. CASE (MainNext \/ AppGlue \/ GlueEnd) /\ UNCHANGED <<gl, engine>>
  BY <1>1, TeapotGlue
<1>2. CASE TeapotHandle
  <2>1. PICK x \in HandleCmd(gl, engine) : gl' = x[1] /\ engine' = x[2]
    BY <1>2 DEF TeapotHandle
  <2>2. UNCHANGED <<app, cmd>> /\ apc = "handle" /\ apc' = "post"
    BY <1>2 DEF TeapotHandle
  <2>3. /\ EngineOK(gl', engine')
        /\ gl'.window = IF cmd = "INIT_WINDOW" /\ app.window # NULL
                        THEN app.window ELSE gl.window
    BY <2>1, HandleCmdOK DEF GlueInv, TeapotInv
  <2> QED BY <2>2, <2>3 DEF TeapotInv, Preparing
<1>3. CASE TeapotCheck
  <2>1. UNCHANGED <<app, engine>> /\ apc = "check" /\ gl' \in {gl, Suspend(gl)}
    BY <1>3 DEF TeapotCheck, AppCheck
  <2>2. EngineOK(gl', engine') /\ gl'.window = gl.window
    BY <2>1 DEF TeapotInv, EngineOK, Suspend, GLOK, GLType, AnyWindow
  <2> QED BY <2>1, <2>2 DEF TeapotInv, Preparing
<1>4. CASE TeapotDraw
  <2>1. gl' \in DrawFrame(gl) /\ engine' = engine
    BY <1>4 DEF TeapotDraw
  <2>2. EngineOK(gl', engine') /\ gl'.window = gl.window
    BY <2>1, DrawKeeps, DrawFrameOK DEF TeapotInv, EngineOK, Stays
  <2>3. UNCHANGED <<app, apc, cmd>>
    BY <1>4 DEF TeapotDraw, glueVars
  <2> QED BY <2>2, <2>3 DEF TeapotInv, Preparing
<1> QED
  BY <1>1, <1>2, <1>3, <1>4 DEF TeapotNext

(* The invariant of the Teapot's context holds of every execution.         *)
THEOREM TeapotInvariant == TeapotSpec => []TeapotInv
<1>1. TeapotInit => TeapotInv
  BY DEF TeapotInit, GlueInit, TeapotInv, EngineOK, GLOK, GLType, EngineType, AnyWindow
<1>2. GlueInv /\ TeapotInv /\ [TeapotNext]_teapotVars => TeapotInv'
  BY TeapotStep DEF teapotVars, glueVars, TeapotInv, Preparing
<1> QED BY <1>1, <1>2, TeapotIsGlue, GlueInductive, PTL DEF TeapotSpec

(* While the application has a window, the Teapot draws on no other.       *)
THEOREM SurfacesFollow == TeapotSpec => []SurfaceFollows
<1>1. TeapotInv => SurfaceFollows
  BY DEF TeapotInv, EngineOK, GLOK, SurfaceFollows
<1> QED BY <1>1, TeapotInvariant, PTL

(* An initialised context never makes another current without the          *)
(* resources it had: every loss is reported, and every report is answered  *)
(* by a reload into what is current.                                       *)
THEOREM ResourcesReloaded == TeapotSpec => ResourcesKept
<1>1. ASSUME GlueInv, TeapotInv, [TeapotNext]_teapotVars, gl.initialized, Full(gl)
      PROVE  Loaded(gl')
  <2>1. Loaded(gl)
    BY <1>1 DEF TeapotInv, EngineOK, GLOK, Full, Loaded
  <2>2. CASE TeapotHandle
    BY <1>1, <2>2, HandleCmdOK DEF TeapotHandle, GlueInv, TeapotInv
  <2>3. CASE TeapotCheck
    BY <2>1, <1>1, <2>3 DEF TeapotCheck, Suspend, TeapotInv, EngineOK, GLOK, GLType, Loaded
  <2>4. CASE TeapotDraw
    BY <1>1, <2>1, <2>4, DrawFrameOK DEF TeapotDraw, TeapotInv, EngineOK
  <2>5. CASE UNCHANGED gl
    BY <2>1, <2>5 DEF Loaded
  <2> QED BY <1>1, <2>2, <2>3, <2>4, <2>5 DEF TeapotNext, teapotVars
<1>2. GlueInv /\ TeapotInv /\ [TeapotNext]_teapotVars
        => [gl.initialized /\ (gl.context => gl.loaded)
              => (gl'.current => gl'.loaded)]_teapotVars
  BY <1>1 DEF Loaded, Full
<1> QED
  BY <1>2, TeapotInvariant, TeapotIsGlue, GlueInductive, PTL
     DEF TeapotSpec, ResourcesKept

-----------------------------------------------------------------------------
(* The callbacks' promise, step by step.                                   *)

(* Which callbacks the promise sees as under way.                          *)
LEMMA WaitingSetter ==
    ASSUME GlueInv
    PROVE  Waiting <=> Setting /\ mpc \in WaitStep \cup {"write"}
BY DEF GlueInv, MainShape, GlueTypeOK, Waiting, WaitStep, Setting, SetterOp,
   NoCall, Create

(* A step of the main thread calls, returns or is not seen.                *)
LEMMA MainRefines ==
    ASSUME GlueInv, GlueInv', MainNext
    PROVE  Promise!CallsNext \/ UNCHANGED Promise!callVars
<1> DEFINE v == [window |-> app.window, input |-> app.inputQueue, state |-> app.activityState]
<1>1. v' = v
  BY MainKeepsView
<1>2. /\ Waiting <=> Setting /\ mpc \in WaitStep \cup {"write"}
      /\ Waiting' <=> Setting' /\ mpc' \in WaitStep \cup {"write"}
  <2>1. Waiting <=> Setting /\ mpc \in WaitStep \cup {"write"}
    BY WaitingSetter
  <2>2. (Waiting <=> Setting /\ mpc \in WaitStep \cup {"write"})'
    BY WaitingSetter, PTL
  <2> QED BY <2>1, <2>2 DEF WaitStep
<1>3. CASE MainLock /\ Setting
  <2>1. mpc = "lock" /\ mpc' = "write" /\ call' = call
    BY <1>3, SetterCommands DEF MainLock
  <2>2. ~ Waiting /\ Waiting'
    BY <1>2, <1>3, <2>1 DEF Setting, WaitStep
  <2>3. ~ Done(call)' /\ call \in Callback /\ call.op # "notice" /\ call # NoCall
    BY <1>3, <2>1, CallTypes DEF GlueInv, NotYet, Setting, SetterOp, NoCall
  <2>4. Promise!Call
    BY <1>1, <2>1, <2>2, <2>3 DEF Promise!Call
  <2> QED BY <2>4 DEF Promise!CallsNext
<1>4. CASE MainTest /\ Setting /\ Done(call)
  <2>1. mpc = "test" /\ mpc' \in {"free", "idle"}
    BY <1>4 DEF MainTest
  <2>2. Waiting /\ ~ Waiting' /\ call # NoCall
    BY <1>2, <1>4, <2>1 DEF WaitStep, NoCall, Setting, SetterOp
  <2>3. Promise!Return
    BY <1>1, <1>4, <2>2 DEF Promise!Return
  <2> QED BY <2>3 DEF Promise!CallsNext
<1>5. CASE ~ Waiting /\ ~ Waiting'
  BY <1>1, <1>5 DEF Promise!callVars
<1>6. CASE Waiting /\ Waiting' /\ app' = app /\ call' = call
  <2>1. Done(call)' <=> Done(call)
    BY <1>6 DEF Done
  <2> QED BY <1>1, <1>6, <2>1 DEF Promise!callVars
<1>7. CASE MainLock /\ ~ Setting
  BY <1>2, <1>5, <1>7 DEF MainLock, Setting
<1>8. CASE MainTest /\ ~ (Setting /\ Done(call))
  <2>1. CASE Done(call)
    BY <1>2, <1>5, <1>8, <2>1 DEF MainTest, Setting, SetterOp, NoCall
  <2>2. CASE ~ Done(call)
    BY <1>2, <1>5, <1>6, <1>8, <2>2 DEF MainTest, Setting, WaitStep
  <2> QED BY <2>1, <2>2
<1>9. CASE android_app_write_cmd
  <2>1. CASE call.op = "notice"
    BY <1>2, <1>5, <1>9, <2>1 DEF android_app_write_cmd, Setting, SetterOp, NoCall
  <2>2. CASE call.op # "notice"
    BY <1>2, <1>5, <1>6, <1>9, <2>2 DEF android_app_write_cmd, Setting, WaitStep
  <2> QED BY <2>1, <2>2
<1>10. CASE MainSpurious \/ MainRelock
  BY <1>2, <1>5, <1>6, <1>10 DEF MainSpurious, MainRelock, Setting, WaitStep
<1>11. CASE android_app_create \/ android_app_free
  BY <1>2, <1>5, <1>11 DEF android_app_create, android_app_free, WaitStep
<1>12. CASE \E c \in Callback : Begin(c)
  BY <1>2, <1>5, <1>12 DEF Begin, WaitStep, Setting, SetterOp
<1> QED BY <1>3, <1>4, <1>7, <1>8, <1>9, <1>10, <1>11, <1>12 DEF MainNext, MainWork

(* The application's thread changes the struct or the pipe, begins a       *)
(* setter's command only by reading it, and changes the lifecycle state    *)
(* only for the callback that waits for it.                                *)
LEMMA AppSteps ==
    ASSUME GlueInv, AppNext
    PROVE  /\ UNCHANGED <<call, fw>>
           /\ mpc' = mpc \/ (mpc = "wait" /\ mpc' = "relock")
           /\ app' = app \/ (pipe' = pipe /\ (InProgress' => InProgress))
           /\ app'.activityState # app.activityState =>
                InProgress /\ ~ InProgress' /\ pipe' = pipe /\ CmdOf(call) \in LifeCmd
<1>1. UNCHANGED <<call, fw>> /\ (mpc' = mpc \/ (mpc = "wait" /\ mpc' = "relock"))
  BY DEF AppNext, AppGlue, android_app_entry, android_app_read_cmd,
     free_saved_state, android_app_pre_exec_cmd, android_app_post_exec_cmd,
     android_app_destroy, AppHandle, AppCheck, Broadcast
<1>2. app' = app \/ (pipe' = pipe /\ (InProgress' => InProgress))
  <2>1. CASE android_app_read_cmd \/ AppCheck
    BY <2>1 DEF android_app_read_cmd, AppCheck
  <2>2. CASE android_app_entry \/ android_app_post_exec_cmd \/ android_app_destroy
    <3>1. /\ pipe' = pipe /\ cmd' = cmd
          /\ <<apc, apc'>> \in {<<"entry", "poll">>, <<"post", "check">>, <<"exit", "destroy">>,
                                <<"destroy", "unlock">>, <<"unlock", "dead">>}
      BY <2>2 DEF android_app_entry, android_app_post_exec_cmd,
         android_app_destroy, free_saved_state
    <3> QED BY <3>1 DEF InProgress, Leaving, Unserved, Locking, LifeCmd
  <2>3. CASE free_saved_state("drop", "pre") \/ android_app_pre_exec_cmd \/ AppHandle
    <3>1. /\ pipe' = pipe /\ cmd' = cmd
          /\ <<apc, apc'>> \in {<<"drop", "pre">>, <<"pre", "handle">>, <<"handle", "post">>}
          /\ apc = "drop" => cmd = "SAVE_STATE"
      BY <2>3 DEF free_saved_state, android_app_pre_exec_cmd, AppHandle, GlueInv,
         AppShape
    <3> QED BY <3>1 DEF InProgress, Leaving, Unserved, Locking, LifeCmd
  <2> QED BY <2>1, <2>2, <2>3 DEF AppNext, AppGlue
<1>3. app'.activityState # app.activityState =>
        InProgress /\ ~ InProgress' /\ pipe' = pipe /\ CmdOf(call) \in LifeCmd
  <2>1. CASE android_app_pre_exec_cmd /\ cmd \in LifeCmd
    <3>1. InProgress /\ ~ Leaving /\ ~ InProgress' /\ pipe' = pipe
      BY <2>1 DEF android_app_pre_exec_cmd, InProgress, Leaving, Unserved,
         Locking, LifeCmd
    <3> QED BY <2>1, <3>1 DEF GlueInv, Flight, InPipe, InHands, Served
  <2>2. CASE android_app_pre_exec_cmd /\ cmd \notin LifeCmd
    BY <2>2 DEF android_app_pre_exec_cmd, PreExec, GlueInv, GlueTypeOK
  <2>3. CASE ~ android_app_pre_exec_cmd
    BY <2>3 DEF AppNext, AppGlue, android_app_entry, android_app_read_cmd,
       free_saved_state, android_app_post_exec_cmd, android_app_destroy,
       AppHandle, PostExec, AppCheck, GlueInv, GlueTypeOK
  <2> QED BY <2>1, <2>2, <2>3
<1> QED BY <1>1, <1>2, <1>3

(* A step of the application's thread serves the callback, whole, or is    *)
(* not seen.                                                               *)
LEMMA AppRefines ==
    ASSUME GlueInv, GlueInv', AppNext
    PROVE  Promise!CallsNext \/ UNCHANGED Promise!callVars
<1> DEFINE v == [window |-> app.window, input |-> app.inputQueue, state |-> app.activityState]
<1>1. /\ UNCHANGED <<call, fw>>
      /\ mpc' = mpc \/ (mpc = "wait" /\ mpc' = "relock")
      /\ Setting' = Setting /\ (mpc \in WaitStep <=> mpc' \in WaitStep)
      /\ (mpc = "lock" <=> mpc' = "lock") /\ (mpc = "write" <=> mpc' = "write")
  BY AppSteps DEF Setting, WaitStep
<1>2. /\ Waiting <=> Setting /\ mpc \in WaitStep \cup {"write"}
      /\ Waiting' <=> Waiting
  BY <1>1, WaitingSetter DEF Waiting
<1>3. Setting => Waiting \/ mpc = "lock"
  BY <1>2 DEF GlueInv, MainShape, GlueTypeOK, MainStep, Create, NoCall, Setting,
     SetterOp, WaitStep
<1>4. Waiting /\ Done(call) => Done(call)'
  <2> SUFFICES ASSUME Waiting, Done(call) PROVE Done(call)'
    OBVIOUS
  <2>1. Setting /\ mpc \in WaitStep /\ Served
    BY <1>2 DEF GlueInv, Flight, NotYet, InPipe, InHands
  <2>2. CASE app' = app
    BY <1>1, <2>2 DEF Done
  <2>3. CASE pipe' = pipe /\ ~ InProgress'
    BY <1>1, <2>1, <2>3 DEF GlueInv, Flight, Served, InPipe, InHands, EndsWith
  <2> QED BY <2>1, <2>2, <2>3, AppSteps DEF Served
<1>5. /\ call.op # "window" => app'.window = app.window
      /\ call.op # "input" => app'.inputQueue = app.inputQueue
  BY <1>1 DEF GlueInv, WindowShape, InputShape
<1>6. app'.activityState # app.activityState =>
        call.op = "state" /\ Waiting /\ ~ Done(call) /\ Done(call)'
  <2> SUFFICES ASSUME app'.activityState # app.activityState
               PROVE  call.op = "state" /\ Waiting /\ ~ Done(call) /\ Done(call)'
    OBVIOUS
  <2>1. InProgress /\ ~ InProgress' /\ pipe' = pipe /\ CmdOf(call) \in LifeCmd
    BY AppSteps
  <2>2. Setting /\ mpc \in WaitStep /\ pipe = <<>> /\ ~ Done(call)
    BY <2>1 DEF GlueInv, Flight, InPipe, InHands, Served
  <2>3. Done(call)'
    BY <1>1, <2>1, <2>2 DEF GlueInv, Flight, InPipe, InHands, Served, EndsWith
  <2>4. call.op = "state"
    BY <2>1, <2>2 DEF Setting, SetterOp, CmdOf, LifeCmd
  <2> QED BY <1>2, <2>2, <2>3, <2>4
<1>7. CASE Waiting /\ ~ Done(call) /\ Done(call)'
  <2>1. mpc # "lock"
    BY <1>7 DEF Waiting
  <2>2. /\ call.op = "window" => app'.window = call.arg
        /\ call.op = "input" => app'.inputQueue = call.arg
        /\ call.op = "state" => app'.activityState = call.arg
    <3>1. call.op = "window" => app'.window = call.arg
      BY <1>1, <1>7, <2>1 DEF GlueInv, WindowShape, Done
    <3>2. call.op = "input" => app'.inputQueue = call.arg
      BY <1>1, <1>7, <2>1 DEF GlueInv, InputShape, Done
    <3>3. call.op = "state" => app'.activityState = call.arg
      BY <1>1, <1>7 DEF Done
    <3> QED BY <3>1, <3>2, <3>3
  <2>3. v' = Promise!Effect(call, v)
    BY <1>5, <1>6, <2>2 DEF Promise!Effect
  <2>4. Promise!Serve
    BY <1>1, <1>2, <1>7, <2>3 DEF Promise!Serve, Setting, SetterOp, NoCall
  <2> QED BY <2>4 DEF Promise!CallsNext
<1>8. CASE ~ Waiting \/ (Done(call)' <=> Done(call))
  <2>1. call.op = "window" => app'.window = app.window
    BY <1>1, <1>3, <1>8 DEF GlueInv, WindowShape, Done, Setting, SetterOp, Waiting
  <2>2. call.op = "input" => app'.inputQueue = app.inputQueue
    BY <1>1, <1>3, <1>8 DEF GlueInv, InputShape, Done, Setting, SetterOp, Waiting
  <2>3. v' = v
    BY <1>5, <1>6, <1>8, <2>1, <2>2
  <2> QED BY <1>1, <1>2, <1>8, <2>3 DEF Promise!callVars
<1> QED BY <1>4, <1>7, <1>8

(* The two threads with their mutex, condition and pipe implement the      *)
(* callbacks' promise: the application's view changes once within the       *)
(* callback that brings the change and at no other time, and a callback    *)
(* returns when it has been served and not before.                         *)
THEOREM ImplementsCallbacks == GlueSpec => Promise!CallsSpec
<1>1. GlueInit => Promise!CallsInit
  BY DEF GlueInit, Promise!CallsInit, Waiting
<1>2. GlueInv /\ GlueInv' /\ [GlueNext]_glueVars => [Promise!CallsNext]_(Promise!callVars)
  <2> SUFFICES ASSUME GlueInv, GlueInv', [GlueNext]_glueVars
               PROVE  Promise!CallsNext \/ UNCHANGED Promise!callVars
    OBVIOUS
  <2>1. CASE UNCHANGED glueVars
    BY <2>1 DEF glueVars, Promise!callVars, Waiting, Done
  <2> QED BY <2>1, MainRefines, AppRefines DEF GlueNext, GlueEnd
<1> QED BY <1>1, <1>2, GlueInductive, PTL DEF GlueSpec, Promise!CallsSpec
=============================================================================
