-------------------------- MODULE MCNativeActivity --------------------------
(* The glue with the engine of either sample, two windows, an input queue  *)
(* and a short pipe, for TLC.  With Teapot the framework makes only the    *)
(* callbacks that its engine acts on.  Both threads are scheduled.         *)
EXTENDS NativeActivity, TeapotActivity

VARIABLE sample \* the application that runs on the glue

mcVars == <<activityVars, gl, engine, sample>>

Plain  == sample = "native-activity" /\ UNCHANGED <<gl, engine, sample>>
Teapot == sample = "Teapot" /\ UNCHANGED <<surface, sample>>

TeapotThread == \/ AppGlue /\ UNCHANGED <<gl, engine>>
                \/ TeapotHandle \/ TeapotCheck

MCInit == ActivityInit /\ TeapotInit /\ sample \in {"native-activity", "Teapot"}

MCNext == \/ Plain /\ ActivityNext
          \/ Teapot /\ TeapotNext /\ call'.op \notin {"input", "save", "state"}

MCSpec == /\ MCInit /\ [][MCNext]_mcVars
          /\ WF_mcVars(MainWork /\ UNCHANGED <<surface, gl, engine, sample>>)
          /\ SF_mcVars((Plain /\ AppThread) \/ (Teapot /\ TeapotThread))
=============================================================================
