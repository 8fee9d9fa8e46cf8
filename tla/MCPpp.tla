-------------------------------- MODULE MCPpp --------------------------------
(* One automaton by itself, as every protocol uses it, or LCP's in the     *)
(* life of a link, with small identifiers and counters, for TLC.           *)
EXTENDS PppLink

NoLink == NewLink("none", {})
Alone == link.pc = "none" /\ UNCHANGED link

MCInit == \/ PppInit /\ link = NoLink
          \/ LinkInit
MCNext == \/ Alone /\ PppNext
          \/ link.pc # "none" /\ LinkNext
MCSpec == /\ MCInit /\ [][MCNext]_<<fsm, link>>
          /\ WF_<<fsm, link>>(Alone /\ Timeout)
          /\ WF_<<fsm, link>>(LinkTimers)
=============================================================================
