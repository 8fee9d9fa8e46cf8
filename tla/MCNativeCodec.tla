---------------------------- MODULE MCNativeCodec ----------------------------
(* The player with a source that has a video track, for TLC.               *)
EXTENDS NativeCodec

MCMsgs == CodecMsgs
=============================================================================
