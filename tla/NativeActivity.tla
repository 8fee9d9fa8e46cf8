--------------------------- MODULE NativeActivity ---------------------------
(***************************************************************************)
(* The sample application of                                               *)
(* src/development/ndk/platforms/android-9/samples/native-activity on the  *)
(* threaded glue: engine_handle_cmd is its onAppCmd and android_main its   *)
(* loop.  What it draws, and the sensor and the animation it never draws   *)
(* without, are left out; where it draws is not.                           *)
(***************************************************************************)
EXTENDS NativeAppGlue

VARIABLE surface \* engine.display, surface and context: the window drawn on

activityVars == <<glueVars, surface>>

(* eglMakeCurrent may fail: the engine then stays without a display.       *)
engine_init_display == surface' \in {app.window, surface}

engine_term_display == surface' = NULL

(* Mutant: the display outlives the window.                                *)
handle_cmd_keeps_display ==
    /\ apc = "handle" /\ apc' = "post"
    /\ app' = IF cmd = "SAVE_STATE" THEN [app EXCEPT !.savedState = "fresh"] ELSE app
    /\ IF cmd = "INIT_WINDOW" /\ app.window # NULL THEN engine_init_display
                                                  ELSE UNCHANGED surface
    /\ UNCHANGED <<lock, pipe, mpc, call, todo, cmd, saved, fw>>

(* engine_handle_cmd: the engine always saves its state when asked, and    *)
(* makes and ends its display with the window.                             *)
engine_handle_cmd ==
    /\ apc = "handle" /\ apc' = "post"
    /\ app' = IF cmd = "SAVE_STATE" THEN [app EXCEPT !.savedState = "fresh"] ELSE app
    /\ CASE cmd = "INIT_WINDOW" /\ app.window # NULL -> engine_init_display
         [] cmd = "TERM_WINDOW" -> engine_term_display
         [] OTHER -> UNCHANGED surface
    /\ UNCHANGED <<lock, pipe, mpc, call, todo, cmd, saved, fw>>

(* android_main after each event: asked to go, it ends the display first.  *)
android_main ==
    /\ AppCheck
    /\ IF app.destroyRequested THEN engine_term_display ELSE UNCHANGED surface

AppThread == \/ AppGlue /\ UNCHANGED surface
             \/ engine_handle_cmd \/ android_main

ActivityInit == GlueInit /\ surface = NULL
ActivityNext == \/ MainNext /\ UNCHANGED surface
                \/ AppThread
                \/ GlueEnd /\ UNCHANGED surface

ActivitySpec == ActivityInit /\ [][ActivityNext]_activityVars

-----------------------------------------------------------------------------
(* The engine draws only on a window the framework keeps valid: it ends    *)
(* the display before android_app_set_window returns.                      *)
SurfaceValid == surface # NULL => surface = app.window /\ surface = fw.window
=============================================================================
