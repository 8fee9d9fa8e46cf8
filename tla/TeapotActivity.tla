--------------------------- MODULE TeapotActivity ---------------------------
(***************************************************************************)
(* The Teapot sample                                                       *)
(* (src/development/ndk/platforms/android-17/samples/Teapot) on the        *)
(* threaded glue, with the GLContext of                                    *)
(* src/development/ndk/sources/android/ndk_helper that keeps its EGL       *)
(* display, surface and context.  EGL itself is external: it always has a  *)
(* display, a call on nothing fails with the error EGL defines for it,     *)
(* every other call may fail, and a context may be lost at any time.       *)
(***************************************************************************)
EXTENDS NativeAppGlue

VARIABLES
    gl,     \* the GLContext: window_, display_, surface_ (the window it is
            \* on), context_, gles_initialized_, egl_context_initialized_;
            \* whether context_ is the thread's current context, and whether
            \* the engine's resources were loaded into it
    engine  \* initialized_resources_, has_focus_

teapotVars == <<glueVars, gl, engine>>

(* A GLContext method leaves the context and returns an error, or none.    *)
Ret(g, err) == [gl |-> g, err |-> err]

(* There may be no EGLConfig, and a surface may not be created.            *)
InitEGLSurface(g) == {[g EXCEPT !.display = TRUE, !.surface = w] :
                         w \in {g.surface, NULL, g.window}}

(* eglMakeCurrent (external): with neither a surface nor a context nothing *)
(* is current any more, with only one of them it fails.                    *)
eglMakeCurrent(g) ==
    IF ~ g.display \/ (g.context # (g.surface # NULL)) THEN {"FAILURE"}
    ELSE IF g.context THEN {"SUCCESS", "CONTEXT_LOST", "FAILURE"}
    ELSE {"SUCCESS", "FAILURE"}

(* Whether the context could be made current is returned, and nobody looks *)
(* at it.                                                                  *)
InitEGLContext(g) ==
    UNION {LET h == [g EXCEPT !.context = c, !.loaded = FALSE]
           IN {[h EXCEPT !.current = c /\ err = "SUCCESS"] : err \in eglMakeCurrent(h)} :
              c \in IF g.display THEN BOOLEAN ELSE {FALSE}}

GLTerminate(g) == [g EXCEPT !.display = FALSE, !.surface = NULL, !.context = FALSE,
                            !.current = FALSE, !.loaded = FALSE]

(* Without a current context the first InitGLES reads the version string   *)
(* at NULL, and that is the end of the process.                            *)
InitGLES(S) == {[h EXCEPT !.gles = TRUE] : h \in {x \in S : x.gles \/ x.current}}

GLInit(g, w) ==
    IF g.initialized THEN {g}
    ELSE {[h EXCEPT !.initialized = TRUE] :
             h \in InitGLES(UNION {InitEGLContext(x) :
                                      x \in InitEGLSurface([g EXCEPT !.window = w])})}

(* eglSwapBuffers (external) fails on what is not there, finds the surface *)
(* bad or the context lost, or fails for another reason.                   *)
eglSwapBuffers(g) == IF ~ g.display THEN {"FAILURE"}
                     ELSE IF g.surface = NULL THEN {"BAD_SURFACE"}
                     ELSE {"SUCCESS", "BAD_SURFACE", "CONTEXT_LOST", "FAILURE"}

Swap(g) ==
    UNION {CASE err = "BAD_SURFACE"  -> {Ret(h, "SUCCESS") : h \in InitEGLSurface(g)}
             [] err = "CONTEXT_LOST" -> {Ret(h, err) : h \in InitEGLContext(GLTerminate(g))}
             [] OTHER -> {Ret(g, err)} : err \in eglSwapBuffers(g)}

(* Mutant: what was made anew is returned as a success.                    *)
MakeCurrentHidesError(s) == {Ret(r.gl, "SUCCESS") : r \in
    UNION {CASE err = "SUCCESS" -> {Ret([s EXCEPT !.current = s.context], err)}
             [] OTHER -> {Ret(h, err) : h \in UNION {InitEGLContext(x) :
                                           x \in InitEGLSurface(GLTerminate(s))}} :
              err \in eglMakeCurrent(s)}}

(* Resume with the surface it has created: a lost context is made anew, on *)
(* any other error everything is.                                          *)
MakeCurrent(s) ==
    UNION {CASE err = "SUCCESS" -> {Ret([s EXCEPT !.current = s.context], err)}
             [] err = "CONTEXT_LOST" -> {Ret(h, err) : h \in InitEGLContext(s)}
             [] OTHER -> {Ret(h, err) : h \in UNION {InitEGLContext(x) :
                                           x \in InitEGLSurface(GLTerminate(s))}} :
              err \in eglMakeCurrent(s)}

(* Mutant: window_ stays the window that the context was made for.         *)
ResumeOldWindow(g, w) ==
    IF ~ g.initialized THEN {Ret(h, "SUCCESS") : h \in GLInit(g, w)}
    ELSE UNION {MakeCurrent([g EXCEPT !.surface = x]) :
                   x \in IF g.display THEN {NULL, w} ELSE {NULL}}

Resume(g, w) ==
    IF ~ g.initialized THEN {Ret(h, "SUCCESS") : h \in GLInit(g, w)}
    ELSE UNION {MakeCurrent([g EXCEPT !.window = w, !.surface = x]) :
                   x \in IF g.display THEN {NULL, w} ELSE {NULL}}

Suspend(g) == [g EXCEPT !.surface = NULL]
Invalidate(g) == [GLTerminate(g) EXCEPT !.initialized = FALSE]

-----------------------------------------------------------------------------
(* UnloadResources and LoadResources, after an error: what is loaded goes  *)
(* into the current context, when there is one.                            *)
Reloaded(r) == IF r.err = "SUCCESS" THEN r.gl
               ELSE [r.gl EXCEPT !.loaded = r.gl.current]

(* The engine's methods: the ways they leave the context.                  *)
DrawFrame(g) == {Reloaded(r) : r \in Swap(g)}

InitDisplay(g, e) ==
    IF ~ e.resources
    THEN {[h EXCEPT !.loaded = h.current] : h \in GLInit(g, app.window)}
    ELSE {Reloaded(r) : r \in Resume(g, app.window)}

(* Engine::HandleCmd.                                                      *)
HandleCmd(g, e) ==
    CASE cmd = "INIT_WINDOW" /\ app.window # NULL ->
             {<<h, [e EXCEPT !.resources = TRUE]>> :
                 h \in UNION {DrawFrame(x) : x \in InitDisplay(g, e)}}
      [] cmd = "TERM_WINDOW"  -> {<<Suspend(g), [e EXCEPT !.focus = FALSE]>>}
      [] cmd = "GAINED_FOCUS" -> {<<g, [e EXCEPT !.focus = TRUE]>>}
      [] cmd = "LOST_FOCUS"   -> {<<h, [e EXCEPT !.focus = FALSE]>> : h \in DrawFrame(g)}
      [] cmd = "LOW_MEMORY"   -> {<<Invalidate(g), e>>}
      [] OTHER -> {<<g, e>>}

TeapotHandle ==
    /\ apc = "handle" /\ apc' = "post"
    /\ \E x \in HandleCmd(gl, engine) : gl' = x[1] /\ engine' = x[2]
    /\ UNCHANGED <<app, lock, pipe, mpc, call, todo, cmd, saved, fw>>

(* android_main: after each event it looks whether to go, and in between   *)
(* it draws as long as it has the focus.                                   *)
TeapotCheck == /\ AppCheck /\ UNCHANGED engine
               /\ gl' = IF app.destroyRequested THEN Suspend(gl) ELSE gl

TeapotDraw == /\ apc = "poll" /\ pipe = <<>> /\ engine.focus
              /\ gl' \in DrawFrame(gl)
              /\ UNCHANGED <<glueVars, engine>>

TeapotInit ==
    /\ GlueInit
    /\ gl = [window |-> NULL, display |-> FALSE, surface |-> NULL,
             context |-> FALSE, current |-> FALSE, loaded |-> FALSE,
             gles |-> FALSE, initialized |-> FALSE]
    /\ engine = [resources |-> FALSE, focus |-> FALSE]

TeapotNext == \/ (MainNext \/ AppGlue \/ GlueEnd) /\ UNCHANGED <<gl, engine>>
              \/ TeapotHandle \/ TeapotCheck \/ TeapotDraw

TeapotSpec == TeapotInit /\ [][TeapotNext]_teapotVars

-----------------------------------------------------------------------------
(* "The window is being hidden or closed, clean it up"                     *)
(* (TeapotNativeActivity.cpp:299): once the framework has taken a window   *)
(* back, the engine has no EGL surface on it.                              *)
WindowCleanedUp == gl.surface # NULL => gl.surface = fw.window

(* INIT_WINDOW has come and is not handled yet.                            *)
Preparing == apc = "handle" /\ cmd = "INIT_WINDOW"

(* Though the engine may draw on a window that was taken back, it never    *)
(* does so while it has another: from the handling of INIT_WINDOW on, all  *)
(* surfaces that a lost context, a bad surface or a failed resume makes it *)
(* create are on the window the application has now.                       *)
SurfaceFollows == app.window # NULL /\ ~ Preparing =>
                      gl.surface \in {NULL, app.window}

(* An initialised GLContext whose context has the engine's resources never *)
(* makes another current without them: whatever Swap and Resume have to    *)
(* make anew, they return the error on which the engine loads its          *)
(* resources again, into the context that is current then.  Two contexts   *)
(* stay without resources.  After LOW_MEMORY has invalidated the           *)
(* GLContext, Resume calls Init and returns EGL_SUCCESS.  And a context    *)
(* that InitEGLContext cannot make current, which nobody looks at, gets    *)
(* nothing from LoadResources; the Resume that makes it current later      *)
(* returns EGL_SUCCESS.                                                    *)
ResourcesKept ==
    [][gl.initialized /\ (gl.context => gl.loaded)
         => (gl'.current => gl'.loaded)]_teapotVars
=============================================================================
