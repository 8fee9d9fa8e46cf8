----------------------------- MODULE MCDhcpUtils -----------------------------
(* One interface, few naps and short masks, for TLC.                       *)
EXTENDS DhcpUtils
=============================================================================
