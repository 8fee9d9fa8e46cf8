------------------------------- MODULE PppLink -------------------------------
(***************************************************************************)
(* The life of a pppd link: the loop of main.c that opens a link and,      *)
(* until it is dead, serves timers, packets, hangups and signals; the LCP  *)
(* automaton with the wrappers of lcp.c around it (src/external/ppp/pppd), *)
(* which may delay the lower layer's up by listen_time; and link_terminated *)
(* of auth.c.  One link: no multilink.                                     *)
(*                                                                         *)
(* Of the phases, the control reads only whether the link is dead.         *)
(***************************************************************************)
EXTENDS PppFsm

VARIABLE link

(* pc is where main is: between two links, in the loop of one, or gone; it *)
(* is "none" for an automaton of another protocol (see MCPpp).             *)
(* wo is what lcp_wantoptions asks for, delayed the flag DELAYED_UP and    *)
(* delays the callout entries of lcp_delayed_up.  asked is history: LCP    *)
(* was closed on a link whose device had been configured.                  *)
Link == [pc : {"none", "between", "loop", "exit"}, wo : SUBSET {"PASSIVE", "SILENT"},
         dead : BOOLEAN, configured : BOOLEAN, delayed : BOOLEAN, delays : Nat,
         asked : BOOLEAN]

NewLink(pc, wo) ==
    [pc |-> pc, wo |-> wo, dead |-> TRUE, configured |-> FALSE,
     delayed |-> FALSE, delays |-> 0, asked |-> FALSE]

LinkInit == /\ fsm = fsm_init({})
            /\ link \in {NewLink("between", wo) : wo \in SUBSET {"PASSIVE", "SILENT"}}

-----------------------------------------------------------------------------
(* The wrappers take the automaton and the link, <<f, l>>, and return the  *)
(* ways in which they may leave them.                                      *)

(* LCP's finished is link_terminated, which always takes the lower layer   *)
(* down (in PppFsm, finished may also leave it).                           *)
LowerLost == {"INITIAL", "STARTING"}
AsLcp(results) ==
    {r \in results : r.state \in {"CLOSED", "STOPPED"} => fsm_lowerdown(r) \notin results}

(* The automaton has called finished.                                      *)
Finished(f, r) == f.state \notin LowerLost /\ r.state \in LowerLost
After(f, r, l) == <<r, [l EXCEPT !.dead = @ \/ Finished(f, r)]>>

lcp_open(f, l) == fsm_open([f EXCEPT !.flags = (@ \ {"PASSIVE", "SILENT"}) \cup l.wo])

lcp_lowerdown(f, l) ==
    IF l.delayed THEN <<f, [l EXCEPT !.delayed = FALSE, !.delays = @ - 1]>>
                 ELSE <<fsm_lowerdown(f), l>>

(* Called on a link that did not hang up.                                  *)
link_terminated(f, l) ==
    IF l.dead THEN <<f, l>>
    ELSE LET x == lcp_lowerdown(f, l) IN <<x[1], [x[2] EXCEPT !.dead = TRUE]>>

(* Closing LCP in STOPPED has to end the link here: the automaton waits    *)
(* there for the peer, or is put there because its up is still delayed.    *)
Waiting(f, l) == f.state = "STOPPED" /\ (f.flags \cap {"PASSIVE", "SILENT"} # {} \/ l.delayed)

(* Mutant: the delayed call stays in the list.                             *)
close_no_untimeout(f, l) ==
    LET g == IF l.delayed THEN To(f, "STOPPED") ELSE f
    IN  {IF Waiting(g, l) THEN link_terminated(r, [l EXCEPT !.delayed = FALSE])
                          ELSE After(f, r, l) : r \in AsLcp(fsm_close(g))}

(* Mutant: a link that only waits for its peer is closed like any other.   *)
close_no_finished(f, l) ==
    LET g == IF l.delayed THEN To(f, "STOPPED") ELSE f
        m == [l EXCEPT !.delays = IF l.delayed THEN @ - 1 ELSE @]
    IN  {IF l.delayed THEN link_terminated(r, [m EXCEPT !.delayed = FALSE])
                      ELSE After(g, r, m) : r \in AsLcp(fsm_close(g))}

lcp_close(f, l) ==
    LET g == IF l.delayed THEN To(f, "STOPPED") ELSE f
        m == [l EXCEPT !.delays = IF l.delayed THEN @ - 1 ELSE @]
    IN  {IF Waiting(g, l) THEN link_terminated(r, [m EXCEPT !.delayed = FALSE])
                          ELSE After(g, r, m) : r \in AsLcp(fsm_close(g))}

(* lcp_lowerup: the driver refuses the configuration and LCP hears nothing *)
(* of the device, or its up is delayed, or it comes at once.               *)
lcp_lowerup(f, l) ==
    LET m == [l EXCEPT !.configured = TRUE]
    IN  {<<f, l>>, <<f, [m EXCEPT !.delayed = TRUE, !.delays = @ + 1]>>,
         <<fsm_lowerup(f), m>>}

(* lcp_input, and lcp_delayed_up without a packet: the delayed up comes    *)
(* first.                                                                  *)
Undelayed(f, l) ==
    IF l.delayed THEN <<fsm_lowerup(f), [l EXCEPT !.delayed = FALSE]>> ELSE <<f, l>>

(* A line that is looped back: lcp_nakci closes LCP, and this ends the     *)
(* link if LCP was STOPPED.                                                *)
LoopedBack(f, l, p) ==
    IF p.code = "CONFNAK" /\ Fresh(f, p.id) /\ Waiting(f, l)
    THEN {<<[x[1] EXCEPT !.seen_ack = 1, !.rnakloops = Bump(@)], x[2]>> : x \in lcp_close(f, l)}
    ELSE {}

(* Neither lcp_nakci nor lcp_rejci ever stops the automaton.               *)
lcp_input(f, l, p) ==
    LET x == Undelayed(f, l)
        g == x[1]
        m == [x[2] EXCEPT !.delays = IF l.delayed THEN @ - 1 ELSE @]
    IN  LoopedBack(g, m, p)
        \cup {After(g, r, m) : r \in {s \in AsLcp(fsm_input(g, p)) :
                                        s.state \in {"CLOSED", "STOPPED"} => s.state = g.state}}

-----------------------------------------------------------------------------
Leave(x) == fsm' = x[1] /\ link' = x[2]

(* main opens LCP and start_link connects: it fails and the link is dead,  *)
(* or the lower layer comes up.                                            *)
start_link ==
    /\ link.pc = "between"
    /\ LET f == lcp_open(Begin, link)
           l == [link EXCEPT !.pc = "loop", !.asked = FALSE, !.configured = FALSE]
       IN  \/ Leave(<<f, l>>)
           \/ \E x \in lcp_lowerup(f, [l EXCEPT !.dead = FALSE]) : Leave(x)

InLoop == link.pc = "loop"

(* SIGHUP, SIGTERM, SIGINT (kill_link), and the layers above, which close  *)
(* LCP when authentication fails or nothing is left to run; also when the  *)
(* link died earlier in the same round of the loop.                        *)
CloseLink ==
    /\ InLoop
    /\ \E x \in lcp_close(Begin, link) :
         Leave(<<x[1], [x[2] EXCEPT !.asked = @ \/ link.configured]>>)

LcpTimeout ==
    /\ InLoop /\ fsm.timers > 0
    /\ LET f == Expire(Begin)
       IN  \E r \in AsLcp(fsm_timeout(f)) : Leave(After(f, r, link))

lcp_delayed_up ==
    /\ InLoop /\ link.delays > 0
    /\ Leave(Undelayed(Begin, [link EXCEPT !.delays = @ - 1]))

(* get_input reads while the device is open.                               *)
Packets(p) == /\ InLoop /\ ~ link.dead
              /\ \E x \in lcp_input(Begin, link, p) : Leave(x)

(* A Protocol-Reject for LCP itself, heeded on an open link only.          *)
lcp_protrej ==
    /\ InLoop /\ ~ link.dead /\ fsm.state = "OPENED"
    /\ \E r \in AsLcp(fsm_protreject(Begin)) : Leave(After(Begin, r, link))

(* The modem hangs up: the lower layer goes down, then the link is dead.   *)
Hangup ==
    /\ InLoop /\ ~ link.dead
    /\ LET x == lcp_lowerdown(Begin, link) IN Leave(<<x[1], [x[2] EXCEPT !.dead = TRUE]>>)

(* Past the loop main closes LCP once more, and opens the next link or     *)
(* goes.                                                                   *)
LinkDead ==
    /\ InLoop /\ link.dead
    /\ \E x \in lcp_close(Begin, link), pc \in {"between", "exit"} :
         Leave(<<x[1], [x[2] EXCEPT !.pc = pc, !.asked = FALSE, !.configured = FALSE]>>)

Exited == link.pc = "exit" /\ UNCHANGED <<fsm, link>>

LinkTimers == LcpTimeout \/ lcp_delayed_up
LinkNext ==
    \/ start_link \/ CloseLink \/ LinkTimers \/ lcp_protrej \/ Hangup \/ LinkDead
    \/ \E p \in Packet : Packets(p)
    \/ Exited

LinkSpec == LinkInit /\ [][LinkNext]_<<fsm, link>>

-----------------------------------------------------------------------------
(* Every link starts from nothing: whichever way the last one died, when   *)
(* main comes round LCP is INITIAL and no call is left in the callout list *)
(* (lcp_lowerup would be ignored in any other state, and a left timer goes *)
(* off on the next link); and while a link lives, LCP knows of the lower   *)
(* layer unless the up is delayed, by exactly one entry, or was refused.   *)
LinkClean ==
    /\ link.pc \in {"between", "exit"} => fsm.state = "INITIAL" /\ fsm.timers = 0
    /\ link.delays = IF link.delayed THEN 1 ELSE 0
    /\ link.delayed => link.configured /\ ~ link.dead
    /\ link.pc = "loop" =>
         (fsm.state \in LowerLost <=> link.dead \/ link.delayed \/ ~ link.configured)

(* A link whose device was configured dies once LCP is closed, whatever    *)
(* the peer does or fails to do, and in whichever state LCP waits.         *)
LinkEnds == link.asked ~> link.dead
=============================================================================
