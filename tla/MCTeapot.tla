------------------------------- MODULE MCTeapot -------------------------------
(* The Teapot sample with one window and no input queue, for TLC.          *)
EXTENDS TeapotActivity
=============================================================================
