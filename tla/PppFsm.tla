------------------------------- MODULE PppFsm -------------------------------
(***************************************************************************)
(* The option negotiation automaton of pppd (src/external/ppp/pppd/fsm.c), *)
(* which LCP, IPCP, CCP and IPv6CP each run one of, against any peer: every *)
(* packet may arrive at any time, and every callback may return anything   *)
(* its contract allows.                                                    *)
(*                                                                         *)
(* An operator takes the automaton as a record and returns it as its       *)
(* handler leaves it, or the set of ways in which it may leave it.  Two    *)
(* callbacks come back into the automaton: `up` may close it (ipcp_up,     *)
(* link_established) and so may `nakci` (lcp_nakci on a looped line), and  *)
(* `finished` may take the lower layer down (link_terminated).             *)
(***************************************************************************)
EXTENDS Integers, Sequences

CONSTANTS
    IdMod,       \* identifiers are u_char: 256
    MaxConfreqs, \* f->maxconfreqtransmits
    MaxTermreqs, \* f->maxtermtransmits
    MaxNakloops  \* f->maxnakloops

ASSUME PppAssumption ==
    /\ IdMod \in Nat \ {0} /\ MaxConfreqs \in Nat \ {0}
    /\ MaxTermreqs \in Nat /\ MaxNakloops \in Nat \ {0}

Flag == {"PASSIVE", "RESTART", "SILENT"}

Negotiating == {"REQSENT", "ACKRCVD", "ACKSENT"}
Terminating == {"CLOSING", "STOPPING"}

State == {"INITIAL", "STARTING", "CLOSED", "STOPPED", "OPENED"}
         \cup Negotiating \cup Terminating

Id == 0 .. (IdMod - 1)

Code == {"CONFREQ", "CONFACK", "CONFNAK", "CONFREJ", "TERMREQ", "TERMACK",
         "CODEREJ", "EXT"}

Packet == [code : Code, id : Id]

(* The automaton.  nakloops and rnakloops are only ever compared with      *)
(* maxnakloops, and stop there.  timers counts the entries of the callout  *)
(* list for fsm_timeout, and out is what the last event sent.  The rest is *)
(* history: layer is the calls of up less the calls of down; acked says    *)
(* that our last answer to a Configure-Request of this negotiation was an  *)
(* Ack, gotack that the peer acknowledged our last request as we last sent *)
(* it, and both that the peer has not taken it back by a Terminate packet. *)
Fsm == [state : State, flags : SUBSET Flag, id : Id, reqid : Id,
        seen_ack : {0, 1}, retransmits : Nat, nakloops : 0 .. MaxNakloops,
        rnakloops : 0 .. MaxNakloops, timers : Nat, out : Seq(Packet),
        layer : Int, acked : {0, 1}, gotack : {0, 1}]

(* fsm_init; the other fields are static and start as zero.                *)
fsm_init(flags) ==
    [state |-> "INITIAL", flags |-> flags, id |-> 0, reqid |-> 0,
     seen_ack |-> 0, retransmits |-> 0, nakloops |-> 0, rnakloops |-> 0,
     timers |-> 0, out |-> <<>>, layer |-> 0, acked |-> 0,
     gotack |-> 0]

-----------------------------------------------------------------------------
(* main.c: the callout list may hold several entries for one automaton,    *)
(* and untimeout takes one of them off.                                    *)
TIMEOUT(f) == [f EXCEPT !.timers = @ + 1]
UNTIMEOUT(f) == [f EXCEPT !.timers = IF @ > 0 THEN @ - 1 ELSE 0]

To(f, state) == [f EXCEPT !.state = state]
up(f)   == [f EXCEPT !.layer = @ + 1]
down(f) == [f EXCEPT !.layer = @ - 1]

fsm_sdata(f, code, id) ==
    [f EXCEPT !.out = Append(@, [code |-> code, id |-> id])]

(* Seeded fault: the identifier does not wrap.                             *)
NextIdUnwrapped(f) == f.id + 1

NextId(f) == (f.id + 1) % IdMod

Bump(n) == IF n < MaxNakloops THEN n + 1 ELSE n

(* A new negotiation starts from the initial options (resetci).            *)
ResetCi(f) ==
    IF f.state \in Negotiating THEN f
    ELSE [f EXCEPT !.nakloops = 0, !.rnakloops = 0, !.acked = 0]

(* The request is a new one, or the old one sent again.                    *)
NewRequest(f) ==
    [f EXCEPT !.retransmits = MaxConfreqs, !.id = NextId(f), !.reqid = NextId(f)]

SendRequest(f) ==
    TIMEOUT([fsm_sdata(f, "CONFREQ", f.reqid) EXCEPT
               !.seen_ack = 0, !.gotack = 0, !.retransmits = @ - 1])

fsm_sconfreq(f) == SendRequest(NewRequest(ResetCi(f)))
fsm_sconfreq_again(f) == SendRequest(ResetCi(f))

-----------------------------------------------------------------------------
fsm_lowerup(f) ==
    CASE f.state = "INITIAL" -> To(f, "CLOSED")
      [] f.state = "STARTING" /\ "SILENT" \in f.flags -> To(f, "STOPPED")
      [] f.state = "STARTING" /\ "SILENT" \notin f.flags ->
            To(fsm_sconfreq(f), "REQSENT")
      [] OTHER -> f

(* Seeded fault: the timer is left running.                                *)
lowerdown_no_untimeout(f) ==
    CASE f.state \in {"CLOSED", "CLOSING"} -> To(f, "INITIAL")
      [] f.state \in {"STOPPED", "STOPPING"} \cup Negotiating ->
            To(f, "STARTING")
      [] f.state = "OPENED" -> To(down(f), "STARTING")
      [] OTHER -> f

fsm_lowerdown(f) ==
    CASE f.state = "CLOSED"  -> To(f, "INITIAL")
      [] f.state = "STOPPED" -> To(f, "STARTING")
      [] f.state = "CLOSING" -> UNTIMEOUT(To(f, "INITIAL"))
      [] f.state \in {"STOPPING"} \cup Negotiating ->
            UNTIMEOUT(To(f, "STARTING"))
      [] f.state = "OPENED"  -> To(down(f), "STARTING")
      [] OTHER -> f

(* The finished callback, which is the last thing its callers do.          *)
finished(f) == {f, fsm_lowerdown(f)}

fsm_open(f) ==
    LET g == IF f.state = "CLOSING" THEN To(f, "STOPPING") ELSE f
    IN  CASE f.state = "INITIAL" -> To(f, "STARTING")
          [] f.state = "CLOSED" /\ "SILENT" \in f.flags -> To(f, "STOPPED")
          [] f.state = "CLOSED" /\ "SILENT" \notin f.flags ->
                To(fsm_sconfreq(f), "REQSENT")
          [] f.state \in {"CLOSING", "STOPPED", "OPENED"} ->
                IF "RESTART" \in f.flags THEN fsm_lowerup(fsm_lowerdown(g))
                ELSE g
          [] OTHER -> f

terminate_layer(f, next) ==
    LET g == IF f.state # "OPENED" THEN UNTIMEOUT(f) ELSE down(f)
        h == fsm_sdata([g EXCEPT !.retransmits = MaxTermreqs,
                                 !.id = NextId(g), !.reqid = NextId(g)],
                       "TERMREQ", NextId(g))
    IN  IF MaxTermreqs = 0
        THEN finished(To(h, IF next = "CLOSING" THEN "CLOSED" ELSE "STOPPED"))
        ELSE {To(TIMEOUT([h EXCEPT !.retransmits = @ - 1]), next)}

fsm_close(f) ==
    CASE f.state = "STARTING" -> {To(f, "INITIAL")}
      [] f.state = "STOPPED"  -> {To(f, "CLOSED")}
      [] f.state = "STOPPING" -> {To(f, "CLOSING")}
      [] f.state \in Negotiating \cup {"OPENED"} -> terminate_layer(f, "CLOSING")
      [] OTHER -> {f}

(* The up callback, of an automaton that has just opened.                  *)
WentUp(f) == {up(f)} \cup fsm_close(up(f))

-----------------------------------------------------------------------------
(* The callout entry is off the list when fsm_timeout runs.                *)
Expire(f) == [f EXCEPT !.timers = @ - 1]

(* Seeded fault: the Terminate-Request is repeated without end.            *)
ResendForever(f) ==
    TIMEOUT(fsm_sdata([f EXCEPT !.id = NextId(f), !.reqid = NextId(f)],
                      "TERMREQ", NextId(f)))

ResendTermreq(f) ==
    TIMEOUT(fsm_sdata([f EXCEPT !.id = NextId(f), !.reqid = NextId(f),
                                !.retransmits = @ - 1],
                      "TERMREQ", NextId(f)))

fsm_timeout(f) ==
    CASE f.state \in Terminating /\ f.retransmits <= 0 ->
            finished(To(f, IF f.state = "CLOSING" THEN "CLOSED" ELSE "STOPPED"))
      [] f.state \in Terminating /\ f.retransmits > 0 ->
            {ResendTermreq(f)}
      [] f.state \in Negotiating /\ f.retransmits <= 0 ->
            IF "PASSIVE" \in f.flags THEN {To(f, "STOPPED")}
                                     ELSE finished(To(f, "STOPPED"))
      [] f.state \in Negotiating /\ f.retransmits > 0 ->
            LET g == fsm_sconfreq_again(f)
            IN  {IF g.state = "ACKRCVD" THEN To(g, "REQSENT") ELSE g}
      [] OTHER -> {f}

(* fsm_rconfreq: a request starts a negotiation in STOPPED and a new one   *)
(* in OPENED; `answer` is what reqci makes of it.                          *)
Reopen(f) ==
    CASE f.state = "OPENED"  -> To(fsm_sconfreq(down(f)), "REQSENT")
      [] f.state = "STOPPED" -> To(fsm_sconfreq(f), "REQSENT")
      [] OTHER -> f

Answered(f, id, answer) ==
    [fsm_sdata(f, answer, id) EXCEPT
       !.acked = IF answer = "CONFACK" THEN 1 ELSE 0,
       !.nakloops = CASE answer = "CONFACK" -> 0
                      [] answer = "CONFNAK" -> Bump(@)
                      [] answer = "CONFREJ" -> @]

AnswerRequest(f, id, answer) ==
    LET g == Answered(f, id, answer)
    IN  CASE answer = "CONFACK" /\ f.state = "ACKRCVD" ->
                WentUp(To(UNTIMEOUT(g), "OPENED"))
          [] answer = "CONFACK" /\ f.state # "ACKRCVD" -> {To(g, "ACKSENT")}
          [] answer # "CONFACK" /\ f.state = "ACKRCVD" -> {g}
          [] answer # "CONFACK" /\ f.state # "ACKRCVD" -> {To(g, "REQSENT")}

fsm_rconfreq(f, id, answer) ==
    CASE f.state = "CLOSED" -> {fsm_sdata(f, "TERMACK", id)}
      [] f.state \in Terminating -> {f}
      [] OTHER -> AnswerRequest(Reopen(f), id, answer)

(* Only the first answer to the last request counts.                       *)
Fresh(f, id) == id = f.reqid /\ f.seen_ack = 0

Renegotiate(f) == To(fsm_sconfreq(f), "REQSENT")

fsm_rconfack(f, id) ==
    LET g == [f EXCEPT !.seen_ack = 1, !.gotack = 1, !.rnakloops = 0]
    IN  IF ~Fresh(f, id) THEN {f}
        ELSE CASE f.state \in {"CLOSED", "STOPPED"} ->
                     {fsm_sdata(g, "TERMACK", id)}
               [] f.state = "REQSENT" ->
                     {[To(g, "ACKRCVD") EXCEPT !.retransmits = MaxConfreqs]}
               [] f.state = "ACKRCVD" -> {Renegotiate(UNTIMEOUT(g))}
               [] f.state = "ACKSENT" ->
                     WentUp([To(UNTIMEOUT(g), "OPENED") EXCEPT
                               !.retransmits = MaxConfreqs])
               [] f.state = "OPENED" -> {Renegotiate(down(g))}
               [] OTHER -> {g}

(* The automaton after nakci or rejci has accepted the packet; `stop` when *)
(* the callback returned a negative value.                                 *)
NakTaken(f, id, stop) ==
    LET g == [f EXCEPT !.seen_ack = 1]
    IN  CASE g.state \in {"CLOSED", "STOPPED"} -> fsm_sdata(g, "TERMACK", id)
          [] g.state \in {"REQSENT", "ACKSENT"} ->
                IF stop THEN To(UNTIMEOUT(g), "STOPPED")
                        ELSE fsm_sconfreq(UNTIMEOUT(g))
          [] g.state = "ACKRCVD" -> Renegotiate(UNTIMEOUT(g))
          [] g.state = "OPENED"  -> Renegotiate(down(g))
          [] OTHER -> g

(* fsm_rconfnakrej.  The callback refuses the packet, accepts it, stops    *)
(* the negotiation, or (nakci) closes the automaton and accepts it.        *)
fsm_rconfnakrej(f, code, id) ==
    LET g == [f EXCEPT !.rnakloops = IF code = "CONFNAK" THEN Bump(@) ELSE 0]
        closed == IF code = "CONFNAK" /\ f.state # "OPENED" THEN fsm_close(g)
                                                            ELSE {}
    IN  IF ~Fresh(f, id) THEN {f}
        ELSE {g, NakTaken(g, id, FALSE), NakTaken(g, id, TRUE)}
             \cup {NakTaken(h, id, FALSE) : h \in closed}

(* The peer's Terminate packets take back what it had agreed to.           *)
Retract(f) == [f EXCEPT !.acked = 0, !.gotack = 0]

(* Seeded fault: the negotiation goes on from where it was.                *)
rtermreq_goes_on(f, id) ==
    LET g == IF f.state = "OPENED"
             THEN TIMEOUT(down([To(f, "STOPPING") EXCEPT !.retransmits = 0]))
             ELSE f
    IN  {fsm_sdata(Retract(g), "TERMACK", id)}

fsm_rtermreq(f, id) ==
    LET g == CASE f.state \in {"ACKRCVD", "ACKSENT"} -> To(f, "REQSENT")
               [] f.state = "OPENED" ->
                     TIMEOUT(down([To(f, "STOPPING") EXCEPT !.retransmits = 0]))
               [] OTHER -> f
    IN  {fsm_sdata(Retract(g), "TERMACK", id)}

(* Seeded fault: the layer above is not told that the link went down.      *)
rtermack_no_down(f) ==
    CASE f.state = "CLOSING"  -> finished(To(UNTIMEOUT(f), "CLOSED"))
      [] f.state = "STOPPING" -> finished(To(UNTIMEOUT(f), "STOPPED"))
      [] f.state = "ACKRCVD"  -> {[To(f, "REQSENT") EXCEPT !.gotack = 0]}
      [] f.state = "OPENED"   -> {Renegotiate(f)}
      [] OTHER -> {f}

fsm_rtermack(f) ==
    CASE f.state = "CLOSING"  -> finished(To(UNTIMEOUT(f), "CLOSED"))
      [] f.state = "STOPPING" -> finished(To(UNTIMEOUT(f), "STOPPED"))
      [] f.state = "ACKRCVD"  -> {[To(f, "REQSENT") EXCEPT !.gotack = 0]}
      [] f.state = "OPENED"   -> {Renegotiate(down(f))}
      [] OTHER -> {f}

fsm_rcoderej(f) == {IF f.state = "ACKRCVD" THEN To(f, "REQSENT") ELSE f}

(* A code the protocol knows (extcode), or one that is rejected.           *)
Extended(f) == {f, fsm_sdata([f EXCEPT !.id = NextId(f)], "CODEREJ", NextId(f))}

fsm_protreject(f) ==
    CASE f.state = "CLOSING" -> finished(To(UNTIMEOUT(f), "CLOSED"))
      [] f.state = "CLOSED"  -> finished(f)
      [] f.state \in {"STOPPING"} \cup Negotiating ->
            finished(To(UNTIMEOUT(f), "STOPPED"))
      [] f.state = "STOPPED" -> finished(f)
      [] f.state = "OPENED"  -> terminate_layer(f, "STOPPING")
      [] OTHER -> {f}

(* fsm_input.  ackci may refuse an Ack for the wrong options.              *)
fsm_input(f, p) ==
    IF f.state \in {"INITIAL", "STARTING"} THEN {f}
    ELSE CASE p.code = "CONFREQ" -> UNION {fsm_rconfreq(f, p.id, a) :
                                       a \in {"CONFACK", "CONFNAK", "CONFREJ"}}
           [] p.code = "CONFACK" -> {f} \cup fsm_rconfack(f, p.id)
           [] p.code \in {"CONFNAK", "CONFREJ"} ->
                 fsm_rconfnakrej(f, p.code, p.id)
           [] p.code = "TERMREQ" -> fsm_rtermreq(f, p.id)
           [] p.code = "TERMACK" -> fsm_rtermack(f)
           [] p.code = "CODEREJ" -> fsm_rcoderej(f)
           [] p.code = "EXT"     -> Extended(f)

-----------------------------------------------------------------------------
VARIABLE fsm

(* An event begins with nothing sent.                                      *)
Begin == [fsm EXCEPT !.out = <<>>]

PppInit == fsm \in {fsm_init(flags) : flags \in SUBSET Flag}

LowerUp    == fsm' = fsm_lowerup(Begin)
LowerDown  == fsm' = fsm_lowerdown(Begin)
Open       == fsm' = fsm_open(Begin)
Close      == fsm' \in fsm_close(Begin)
Timeout    == fsm.timers > 0 /\ fsm' \in fsm_timeout(Expire(Begin))
Input(p)   == fsm' \in fsm_input(Begin, p)
ProtReject == fsm' \in fsm_protreject(Begin)

PppNext ==
    \/ LowerUp \/ LowerDown \/ Open \/ Close \/ Timeout \/ ProtReject
    \/ \E p \in Packet : Input(p)

PppSpec == PppInit /\ [][PppNext]_fsm

(* The main loop calls calltimeout after every wait, so a timer that is    *)
(* set goes off.                                                           *)
FairPppSpec == PppSpec /\ WF_fsm(Timeout)

-----------------------------------------------------------------------------
(* Type correctness.                                                       *)
PppTypeOK == fsm \in Fsm

(* The automaton has one callout entry in the states that wait for an      *)
(* answer and none in the others: no handler arms a second timer, forgets  *)
(* to arm one, or leaves one to go off in a state that has no use for it.  *)
TimerExact ==
    fsm.timers = IF fsm.state \in Negotiating \cup Terminating THEN 1 ELSE 0

(* up and down alternate, and the layer is up exactly in OPENED: what up   *)
(* configured is always taken back before the link is negotiated anew,     *)
(* also when up itself closes the automaton.                               *)
LayerPaired == fsm.layer = IF fsm.state = "OPENED" THEN 1 ELSE 0

(* The link is open only on an agreement that stands: the peer has         *)
(* acknowledged our last request, we have acknowledged its last one, and   *)
(* no Terminate packet or new request has come between.                    *)
OpenAgreed == fsm.state = "OPENED" => fsm.acked = 1 /\ fsm.gotack = 1

(* Termination does not hang: whatever the peer does or fails to do, the   *)
(* automaton leaves CLOSING and STOPPING.                                  *)
TerminationEnds == fsm.state \in Terminating ~> fsm.state \notin Terminating
=============================================================================
