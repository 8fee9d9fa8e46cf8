---------------------------- MODULE NativeAppGlue ----------------------------
(***************************************************************************)
(* The threaded native activity of the NDK                                 *)
(* (src/development/ndk/sources/android/native_app_glue): the callbacks of *)
(* the activity run in the process's main thread and hand what they bring  *)
(* to the application's own thread, by commands in a pipe and fields under *)
(* a mutex, and most wait on a condition until the application took it.    *)
(*                                                                         *)
(* The order in which the framework makes the callbacks (fw, MayCall) and  *)
(* the application's onAppCmd (AppHandle) are external: any command handler *)
(* that returns.                                                           *)
(***************************************************************************)
EXTENDS Naturals, Sequences

CONSTANTS
    Windows, Queues, \* the ANativeWindow and AInputQueue pointers
    NULL,
    PipeCap          \* bytes, so commands, that the pipe holds: 65536

VARIABLES
    app,   \* struct android_app
    lock,  \* who holds android_app->mutex: "main", "app" or NULL
    pipe,  \* the commands written to msgwrite and not read from msgread
    mpc, call, todo, \* main thread: step, callback, commands left to write
    apc, cmd,        \* application thread: step, command
    saved, \* what the last onSaveInstanceState returned
    fw     \* the framework: lifecycle state, focus, window and queue it
           \* keeps valid

glueVars == <<app, lock, pipe, mpc, call, todo, apc, cmd, saved, fw>>

LifeCmd == {"START", "RESUME", "PAUSE", "STOP"}
Notice  == {"CONFIG_CHANGED", "LOW_MEMORY", "GAINED_FOCUS", "LOST_FOCUS"}
Cmd == LifeCmd \cup Notice
       \cup {"INPUT_CHANGED", "INIT_WINDOW", "TERM_WINDOW", "SAVE_STATE", "DESTROY"}

ASSUME GlueAssumption ==
    /\ NULL \notin Windows \cup Queues \cup Cmd \cup {"main", "app", "fresh", "initial"}
    /\ PipeCap \in Nat \ {0, 1}

(* A callback: the setters and what they set, or a notice, which is written *)
(* to the pipe and not waited for.                                         *)
Callback == [op : {"window"}, arg : Windows \cup {NULL}]
            \cup [op : {"input"}, arg : Queues \cup {NULL}]
            \cup [op : {"state"}, arg : LifeCmd] \cup [op : {"notice"}, arg : Notice]
            \cup [op : {"save", "destroy"}, arg : {NULL}]
Create == [op |-> "create", arg |-> NULL] \* ANativeActivity_onCreate
NoCall == [op |-> "none", arg |-> NULL]   \* between callbacks

MainStep == {"create", "idle", "lock", "write", "test", "wait", "relock",
             "free", "gone", "noapp"}
AppStep  == {"none", "entry", "poll", "drop", "pre", "handle", "post", "check",
             "exit", "destroy", "unlock", "dead"}

-----------------------------------------------------------------------------
(* The framework.  It starts and resumes, pauses and stops in turn, brings *)
(* a window or a queue when it has none, takes it back before it destroys  *)
(* the activity, gives the focus to an activity that has a window and takes *)
(* it away again, and lets fewer than PipeCap - 1 commands go unread.      *)

LifeAfter(c) == CASE c.arg = "START"  -> "Started" [] c.arg = "RESUME" -> "Resumed"
                  [] c.arg = "PAUSE"  -> "Paused"  [] c.arg = "STOP"   -> "Stopped"

MayCall(c) ==
    CASE c.op = "state" -> fw.life \in (CASE c.arg = "START"  -> {"Created", "Stopped"}
                                          [] c.arg = "RESUME" -> {"Started", "Paused"}
                                          [] c.arg = "PAUSE"  -> {"Resumed"}
                                          [] c.arg = "STOP"   -> {"Started", "Paused"})
      [] c.op = "window"  -> (fw.window = NULL) # (c.arg = NULL)
      [] c.op = "input"   -> (fw.input = NULL) # (c.arg = NULL)
      [] c.op = "save"    -> fw.life \in {"Paused", "Stopped"}
      [] c.op = "destroy" -> /\ fw.life \in {"Created", "Stopped"}
                             /\ fw.window = NULL /\ fw.input = NULL
      [] c.op = "notice"  -> /\ Len(pipe) < PipeCap - 1
                             /\ c.arg = "GAINED_FOCUS" => ~ fw.focus /\ fw.window # NULL
                             /\ c.arg = "LOST_FOCUS" => fw.focus

FwBegin(c) ==
    CASE c.op = "state" -> [fw EXCEPT !.life = LifeAfter(c)]
      [] c.op \in {"window", "input"} /\ c.arg # NULL -> [fw EXCEPT ![c.op] = c.arg]
      [] c.op = "notice" /\ c.arg \in {"GAINED_FOCUS", "LOST_FOCUS"} ->
            [fw EXCEPT !.focus = ~ fw.focus]
      [] OTHER -> fw

FwEnd(c) == IF c.op \in {"window", "input"} /\ c.arg = NULL
            THEN [fw EXCEPT ![c.op] = NULL] ELSE fw

-----------------------------------------------------------------------------
(* The main thread.                                                        *)

(* android_app_create up to its wait: the pipe cannot be made and the      *)
(* instance stays NULL, or the application's thread starts.                *)
android_app_create ==
    /\ mpc = "create"
    /\ \/ mpc' = "noapp" /\ UNCHANGED apc
       \/ mpc' = "lock"  /\ apc' = "entry"
    /\ UNCHANGED <<app, lock, pipe, call, todo, cmd, saved, fw>>

(* onStart, onResume, onPause, onStop, onSaveInstanceState, onDestroy,     *)
(* onNativeWindowCreated and Destroyed, onInputQueueCreated and Destroyed  *)
(* call a setter; onConfigurationChanged, onLowMemory and                  *)
(* onWindowFocusChanged write their command and are done.                  *)
Begin(c) ==
    /\ mpc = "idle" /\ MayCall(c)
    /\ call' = c /\ fw' = FwBegin(c)
    /\ IF c.op = "notice" THEN mpc' = "write" /\ todo' = <<c.arg>>
                          ELSE mpc' = "lock" /\ UNCHANGED todo
    /\ UNCHANGED <<app, lock, pipe, apc, cmd, saved>>

(* The commands a setter writes; android_app_set_window ends the window it *)
(* replaces first.                                                         *)
Commands(c) ==
    CASE c.op = "window"  -> (IF app.pendingWindow # NULL THEN <<"TERM_WINDOW">> ELSE <<>>)
                             \o (IF c.arg # NULL THEN <<"INIT_WINDOW">> ELSE <<>>)
      [] c.op = "input"   -> <<"INPUT_CHANGED">>
      [] c.op = "state"   -> <<c.arg>>
      [] c.op = "save"    -> <<"SAVE_STATE">>
      [] c.op = "destroy" -> <<"DESTROY">>
      [] c.op = "create"  -> <<>>

(* Mutant: onSaveInstanceState does not reset stateSaved.                  *)
PendingNoReset(c) ==
    CASE c.op = "window" -> [app EXCEPT !.pendingWindow = c.arg]
      [] c.op = "input"  -> [app EXCEPT !.pendingInputQueue = c.arg]
      [] OTHER -> app

(* The fields a setter leaves for the application's thread.                *)
Pending(c) ==
    CASE c.op = "window" -> [app EXCEPT !.pendingWindow = c.arg]
      [] c.op = "input"  -> [app EXCEPT !.pendingInputQueue = c.arg]
      [] c.op = "save"   -> [app EXCEPT !.stateSaved = FALSE]
      [] OTHER -> app

MainLock ==
    /\ mpc = "lock" /\ lock = NULL
    /\ lock' = "main" /\ app' = Pending(call) /\ todo' = Commands(call)
    /\ mpc' = IF Commands(call) = <<>> THEN "test" ELSE "write"
    /\ UNCHANGED <<pipe, call, apc, cmd, saved, fw>>

(* write blocks while the pipe is full, with the mutex held in a setter.   *)
android_app_write_cmd ==
    /\ mpc = "write" /\ Len(pipe) < PipeCap
    /\ pipe' = Append(pipe, Head(todo)) /\ todo' = Tail(todo)
    /\ mpc' = CASE Len(todo) > 1 -> "write"
                [] Len(todo) = 1 /\ call.op = "notice" -> "idle"
                [] OTHER -> "test"
    /\ call' = IF call.op = "notice" THEN NoCall ELSE call
    /\ UNCHANGED <<app, lock, apc, cmd, saved, fw>>

(* Mutant: a lifecycle callback waits for any state.                       *)
DoneAnyState(c) ==
    CASE c.op = "window"  -> app.window = app.pendingWindow
      [] c.op = "input"   -> app.inputQueue = app.pendingInputQueue
      [] c.op = "state"   -> app.activityState # NULL
      [] c.op = "save"    -> app.stateSaved
      [] c.op = "destroy" -> app.destroyed
      [] c.op = "create"  -> app.running

(* Mutant: android_app_set_window tests the field it has set itself.       *)
DoneWrongField(c) ==
    CASE c.op = "window"  -> app.pendingWindow = c.arg
      [] c.op = "input"   -> app.inputQueue = app.pendingInputQueue
      [] c.op = "state"   -> app.activityState = c.arg
      [] c.op = "save"    -> app.stateSaved
      [] c.op = "destroy" -> app.destroyed
      [] c.op = "create"  -> app.running

(* The condition each setter waits for.                                    *)
Done(c) ==
    CASE c.op = "window"  -> app.window = app.pendingWindow
      [] c.op = "input"   -> app.inputQueue = app.pendingInputQueue
      [] c.op = "state"   -> app.activityState = c.arg
      [] c.op = "save"    -> app.stateSaved
      [] c.op = "destroy" -> app.destroyed
      [] c.op = "create"  -> app.running

(* pthread_cond_wait releases the mutex; a callback that is done takes the *)
(* saved state over if it asked for it, releases the mutex and returns.    *)
MainTest ==
    /\ mpc = "test"
    /\ lock' = NULL
    /\ IF Done(call)
       THEN /\ mpc' = IF call.op = "destroy" THEN "free" ELSE "idle"
            /\ fw' = FwEnd(call) /\ call' = NoCall
            /\ IF call.op = "save"
               THEN saved' = app.savedState /\ app' = [app EXCEPT !.savedState = NULL]
               ELSE UNCHANGED <<saved, app>>
       ELSE mpc' = "wait" /\ UNCHANGED <<app, saved, fw, call>>
    /\ UNCHANGED <<pipe, todo, apc, cmd>>

MainSpurious == /\ mpc = "wait" /\ mpc' = "relock"
                /\ UNCHANGED <<app, lock, pipe, call, todo, apc, cmd, saved, fw>>

MainRelock == /\ mpc = "relock" /\ lock = NULL
              /\ mpc' = "test" /\ lock' = "main"
              /\ UNCHANGED <<app, pipe, call, todo, apc, cmd, saved, fw>>

(* The end of android_app_free: pipe, condition, mutex and struct go.      *)
android_app_free == /\ mpc = "free" /\ mpc' = "gone"
                    /\ UNCHANGED <<app, lock, pipe, call, todo, apc, cmd, saved, fw>>

-----------------------------------------------------------------------------
(* The application's thread.  A critical section that does not block is    *)
(* one step, taken when the mutex is free.                                 *)

Broadcast == mpc' = IF mpc = "wait" THEN "relock" ELSE mpc

android_app_entry ==
    /\ apc = "entry" /\ lock = NULL
    /\ app' = [app EXCEPT !.running = TRUE] /\ Broadcast /\ apc' = "poll"
    /\ UNCHANGED <<lock, pipe, call, todo, cmd, saved, fw>>

(* Mutant: the state that is there is not dropped.                         *)
read_cmd_keeps_state ==
    /\ apc = "poll" /\ pipe # <<>>
    /\ cmd' = Head(pipe) /\ pipe' = Tail(pipe) /\ apc' = "pre"
    /\ UNCHANGED <<app, lock, mpc, call, todo, saved, fw>>

(* A command to save state first drops, under the mutex, the state that is *)
(* there.                                                                  *)
android_app_read_cmd ==
    /\ apc = "poll" /\ pipe # <<>>
    /\ cmd' = Head(pipe) /\ pipe' = Tail(pipe)
    /\ apc' = IF Head(pipe) = "SAVE_STATE" THEN "drop" ELSE "pre"
    /\ UNCHANGED <<app, lock, mpc, call, todo, saved, fw>>

free_saved_state(from, to) ==
    /\ apc = from /\ lock = NULL
    /\ app' = [app EXCEPT !.savedState = NULL] /\ apc' = to
    /\ UNCHANGED <<lock, pipe, mpc, call, todo, cmd, saved, fw>>

(* What android_app_pre_exec_cmd does to the struct.                       *)
PreExec ==
    CASE cmd = "INPUT_CHANGED" -> [app EXCEPT !.inputQueue = app.pendingInputQueue]
      [] cmd = "INIT_WINDOW"   -> [app EXCEPT !.window = app.pendingWindow]
      [] cmd \in LifeCmd       -> [app EXCEPT !.activityState = cmd]
      [] cmd = "DESTROY"       -> [app EXCEPT !.destroyRequested = TRUE]
      [] OTHER -> app

(* The window commands, the queue and the lifecycle broadcast, and all but *)
(* TERM_WINDOW do so under the mutex.                                      *)
Locking == {"INPUT_CHANGED", "INIT_WINDOW"} \cup LifeCmd

android_app_pre_exec_cmd ==
    /\ apc = "pre" /\ (cmd \in Locking => lock = NULL)
    /\ app' = PreExec /\ apc' = "handle"
    /\ IF cmd \in Locking \cup {"TERM_WINDOW"} THEN Broadcast ELSE UNCHANGED mpc
    /\ UNCHANGED <<lock, pipe, call, todo, cmd, saved, fw>>

(* onAppCmd (external): an application saves its state when asked, or not. *)
AppHandle ==
    /\ apc = "handle" /\ apc' = "post"
    /\ \/ UNCHANGED app
       \/ cmd = "SAVE_STATE" /\ app' = [app EXCEPT !.savedState = "fresh"]
    /\ UNCHANGED <<lock, pipe, mpc, call, todo, cmd, saved, fw>>

PostExec ==
    CASE cmd = "TERM_WINDOW" -> [app EXCEPT !.window = NULL]
      [] cmd = "SAVE_STATE"  -> [app EXCEPT !.stateSaved = TRUE]

(* Mutant: no broadcast after TERM_WINDOW and SAVE_STATE.                  *)
post_exec_silent ==
    /\ apc = "post" /\ (cmd \in {"TERM_WINDOW", "SAVE_STATE"} => lock = NULL)
    /\ app' = CASE cmd \in {"TERM_WINDOW", "SAVE_STATE"} -> PostExec
                [] cmd = "RESUME" -> [app EXCEPT !.savedState = NULL]
                [] OTHER -> app
    /\ apc' = "check"
    /\ UNCHANGED <<lock, pipe, mpc, call, todo, cmd, saved, fw>>

android_app_post_exec_cmd ==
    \/ /\ apc = "post" /\ cmd \in {"TERM_WINDOW", "SAVE_STATE"} /\ lock = NULL
       /\ app' = PostExec /\ Broadcast /\ apc' = "check"
       /\ UNCHANGED <<lock, pipe, call, todo, cmd, saved, fw>>
    \/ cmd = "RESUME" /\ free_saved_state("post", "check")
    \/ /\ apc = "post" /\ cmd \notin {"TERM_WINDOW", "SAVE_STATE", "RESUME"}
       /\ apc' = "check"
       /\ UNCHANGED <<app, lock, pipe, mpc, call, todo, cmd, saved, fw>>

(* android_main (external) returns when it is asked to and not before.     *)
AppCheck == /\ apc = "check"
            /\ apc' = IF app.destroyRequested THEN "exit" ELSE "poll"
            /\ cmd' = NULL
            /\ UNCHANGED <<app, lock, pipe, mpc, call, todo, saved, fw>>

(* Mutant: destroyed is set before the saved state is freed.               *)
destroy_frees_late ==
    \/ /\ apc = "exit" /\ lock = NULL
       /\ app' = [app EXCEPT !.destroyed = TRUE] /\ Broadcast /\ apc' = "destroy"
       /\ UNCHANGED <<lock, pipe, call, todo, cmd, saved, fw>>
    \/ free_saved_state("destroy", "dead")

android_app_destroy ==
    \/ free_saved_state("exit", "destroy")
    \/ /\ apc = "destroy" /\ lock = NULL
       /\ app' = [app EXCEPT !.destroyed = TRUE] /\ Broadcast
       /\ lock' = "app" /\ apc' = "unlock"
       /\ UNCHANGED <<pipe, call, todo, cmd, saved, fw>>
    \/ /\ apc = "unlock" /\ lock' = NULL /\ apc' = "dead"
       /\ UNCHANGED <<app, pipe, mpc, call, todo, cmd, saved, fw>>

-----------------------------------------------------------------------------

GlueInit ==
    /\ \E s \in {NULL, "initial"} :
         app = [running |-> FALSE, window |-> NULL, pendingWindow |-> NULL,
                inputQueue |-> NULL, pendingInputQueue |-> NULL,
                activityState |-> NULL, stateSaved |-> FALSE, savedState |-> s,
                destroyRequested |-> FALSE, destroyed |-> FALSE]
    /\ lock = NULL /\ pipe = <<>>
    /\ mpc = "create" /\ call = Create /\ todo = <<>>
    /\ apc = "none" /\ cmd = NULL /\ saved = NULL
    /\ fw = [life |-> "Created", window |-> NULL, input |-> NULL, focus |-> FALSE]

MainWork == MainLock \/ android_app_write_cmd \/ MainTest \/ MainRelock
            \/ android_app_create \/ android_app_free
MainNext == MainWork \/ MainSpurious \/ \E c \in Callback : Begin(c)

(* The thread between and around onAppCmd.                                 *)
AppGlue == \/ android_app_entry \/ android_app_read_cmd
           \/ free_saved_state("drop", "pre")
           \/ android_app_pre_exec_cmd \/ android_app_post_exec_cmd
           \/ android_app_destroy

(* The activity is destroyed, or was never made.                           *)
GlueEnd == mpc \in {"gone", "noapp"} /\ UNCHANGED glueVars

AppNext == AppGlue \/ AppHandle \/ AppCheck

GlueNext == MainNext \/ AppNext \/ GlueEnd

GlueSpec == GlueInit /\ [][GlueNext]_glueVars

(* Both threads are scheduled, and the application's thread gets the mutex *)
(* in the end when it is free again and again (the main thread may hold it *)
(* after every spurious wakeup).                                           *)
GlueFair == WF_glueVars(MainWork) /\ SF_glueVars(AppNext)
FairGlueSpec == GlueSpec /\ GlueFair

-----------------------------------------------------------------------------
(* Every variable keeps to the values its C declaration allows.            *)
GlueTypeOK ==
    /\ app \in [running : BOOLEAN, window : Windows \cup {NULL},
                pendingWindow : Windows \cup {NULL}, inputQueue : Queues \cup {NULL},
                pendingInputQueue : Queues \cup {NULL},
                activityState : LifeCmd \cup {NULL}, stateSaved : BOOLEAN,
                savedState : {NULL, "initial", "fresh"},
                destroyRequested : BOOLEAN, destroyed : BOOLEAN]
    /\ lock \in {NULL, "main", "app"}
    /\ pipe \in Seq(Cmd) /\ Len(pipe) <= PipeCap
    /\ mpc \in MainStep /\ call \in Callback \cup {Create, NoCall} /\ todo \in Seq(Cmd)
    /\ apc \in AppStep /\ cmd \in Cmd \cup {NULL}
    /\ saved \in {NULL, "initial", "fresh"}
    /\ fw \in [life : {"Created", "Started", "Resumed", "Paused", "Stopped"},
               window : Windows \cup {NULL}, input : Queues \cup {NULL},
               focus : BOOLEAN]

(* The window and the input queue the application works on are ones the    *)
(* framework keeps valid: it takes one away only after its callback has    *)
(* returned, and the setters return only when the application has let go.  *)
WindowValid == /\ app.window # NULL => app.window = fw.window
               /\ app.inputQueue # NULL => app.inputQueue = fw.input

(* Between callbacks the application has the window, the queue and the     *)
(* lifecycle state of the framework: no setter returns early on a value an *)
(* earlier callback left.                                                  *)
IdleInSync ==
    mpc = "idle" => /\ app.window = fw.window /\ app.inputQueue = fw.input
                    /\ fw.life = IF app.activityState = NULL THEN "Created"
                                 ELSE LifeAfter([arg |-> app.activityState])

(* android_app_free frees the struct with its mutex and condition only     *)
(* when the application's thread uses them no more.                        *)
FreedLast == mpc \in {"free", "gone"} => apc = "dead"

(* A saved state has one owner: a handler that saves never overwrites one  *)
(* (its memory would be lost), and onSaveInstanceState never returns the   *)
(* one the activity was started with.                                      *)
SavedOnce == /\ apc = "handle" /\ cmd = "SAVE_STATE" => app.savedState = NULL
             /\ saved # "initial"

(* Every callback returns to the framework.                                *)
CallbackReturns == [](mpc # "idle" => <>(mpc \in {"idle", "gone", "noapp"}))

-----------------------------------------------------------------------------
(* The callbacks that wait, as their specification sees them: under way    *)
(* once they hold the mutex, and served when what they wait for holds.     *)
Waiting == mpc \in {"write", "test", "wait", "relock"}
           /\ call.op \notin {"notice", "create"}
Promise == INSTANCE ActivityCallbacks WITH
    Calls   <- {c \in Callback : c.op # "notice"},
    current <- IF Waiting THEN call ELSE NoCall,
    served  <- Waiting /\ Done(call),
    view    <- [window |-> app.window, input |-> app.inputQueue,
                state |-> app.activityState]

(* The threads, mutex, condition and pipe implement the callbacks'         *)
(* promise: the application's window, queue and lifecycle state change     *)
(* once within the callback that brings the change, and at no other time,  *)
(* and every callback that waits is served and returns.                    *)
KeepsPromise == Promise!FairCallsSpec
=============================================================================
