------------------------------ MODULE PppProofs ------------------------------
(***************************************************************************)
(* Proofs about the PPP automaton and about the life of a link.            *)
(*                                                                         *)
(* Every handler of the automaton keeps FsmOK: the timer, the layer above  *)
(* and the agreement match the state.  Every wrapper of lcp.c and every    *)
(* handler of the main loop keeps Clean, which ties the link's flags to    *)
(* the state of LCP's automaton; that the automaton itself is sound comes  *)
(* from the lemmas of its handlers.                                        *)
(***************************************************************************)
EXTENDS PppLink, TLAPS

Timed == Negotiating \cup Terminating

FsmOK(f) ==
    /\ f \in Fsm
    /\ f.timers = IF f.state \in Timed THEN 1 ELSE 0
    /\ f.layer = IF f.state = "OPENED" THEN 1 ELSE 0
    /\ f.state \in {"ACKRCVD", "OPENED"} => f.gotack = 1
    /\ f.state \in {"ACKSENT", "OPENED"} => f.acked = 1

AllOK(S) == \A g \in S : FsmOK(g)

(* g is f but for what has been sent and the identifiers.                  *)
SameBut(f, g) ==
    /\ g.state = f.state /\ g.flags = f.flags /\ g.timers = f.timers
    /\ g.layer = f.layer /\ g.acked = f.acked /\ g.gotack = f.gotack

(* Identifiers wrap.                                                       *)
LEMMA NextIdType == ASSUME NEW f \in Fsm PROVE NextId(f) \in Id
<1>1. f.id \in Int /\ f.id >= 0
  BY PppAssumption DEF Fsm, Id
<1> QED
  BY <1>1, PppAssumption DEF NextId, Id

(* The loop counters stop at maxnakloops.                                  *)
LEMMA BumpType ==
    ASSUME NEW n \in 0 .. MaxNakloops
    PROVE  Bump(n) \in 0 .. MaxNakloops /\ 0 \in 0 .. MaxNakloops
  BY PppAssumption DEF Bump

(* Sending changes only what has been sent.                                *)
LEMMA SdataOK ==
    ASSUME NEW f \in Fsm, NEW code \in Code, NEW id \in Id
    PROVE  /\ fsm_sdata(f, code, id) \in Fsm
           /\ SameBut(f, fsm_sdata(f, code, id))
           /\ fsm_sdata(f, code, id).retransmits = f.retransmits
           /\ fsm_sdata(f, code, id).reqid = f.reqid
<1>1. [code |-> code, id |-> id] \in Packet
  BY DEF Packet
<1>2. Append(f.out, [code |-> code, id |-> id]) \in Seq(Packet)
  BY <1>1 DEF Fsm
<1> QED
  BY <1>2 DEF fsm_sdata, Fsm, SameBut

(* A new negotiation keeps the state.                                      *)
LEMMA ResetCiOK ==
    ASSUME NEW f \in Fsm
    PROVE  /\ ResetCi(f) \in Fsm
           /\ ResetCi(f).state = f.state /\ ResetCi(f).timers = f.timers
           /\ ResetCi(f).layer = f.layer
           /\ ResetCi(f).retransmits = f.retransmits
           /\ f.state \in Negotiating => ResetCi(f) = f
<1>1. 0 \in 0 .. MaxNakloops
  BY PppAssumption
<1>2. CASE f.state \in Negotiating
  BY <1>2 DEF ResetCi
<1>3. CASE f.state \notin Negotiating
  <2>1. ResetCi(f) = [f EXCEPT !.nakloops = 0, !.rnakloops = 0, !.acked = 0]
    BY <1>3 DEF ResetCi
  <2> QED BY <1>1, <1>3, <2>1 DEF Fsm
<1> QED
  BY <1>2, <1>3

(* timeout puts one entry on the callout list.                             *)
LEMMA ArmOK ==
    ASSUME NEW f \in Fsm
    PROVE  /\ TIMEOUT(f) \in Fsm /\ TIMEOUT(f).state = f.state
           /\ TIMEOUT(f).timers = f.timers + 1 /\ TIMEOUT(f).layer = f.layer
           /\ TIMEOUT(f).acked = f.acked
  BY DEF TIMEOUT, Fsm

(* Sending the request arms one timer and awaits a new Ack.                *)
LEMMA SendRequestOK ==
    ASSUME NEW f \in Fsm, f.retransmits > 0
    PROVE  /\ SendRequest(f) \in Fsm
           /\ SendRequest(f).state = f.state
           /\ SendRequest(f).timers = f.timers + 1
           /\ SendRequest(f).layer = f.layer
           /\ SendRequest(f).acked = f.acked
<1> DEFINE g == fsm_sdata(f, "CONFREQ", f.reqid)
<1>1. f.reqid \in Id /\ "CONFREQ" \in Code
  BY DEF Fsm, Code
<1>2. g \in Fsm /\ SameBut(f, g) /\ g.retransmits = f.retransmits
  BY <1>1, SdataOK
<1> HIDE DEF g
<1>3. g.retransmits - 1 \in Nat
  BY <1>2 DEF Fsm
<1> DEFINE h == [g EXCEPT !.seen_ack = 0, !.gotack = 0, !.retransmits = @ - 1]
<1>4. SendRequest(f) = TIMEOUT(h)
  BY DEF SendRequest, g
<1>5. /\ h \in Fsm /\ h.state = g.state /\ h.timers = g.timers
      /\ h.layer = g.layer /\ h.acked = g.acked
  BY <1>2, <1>3 DEF Fsm
<1> HIDE DEF h
<1> QED
  BY <1>2, <1>4, <1>5, ArmOK DEF SameBut

(* fsm_sconfreq.                                                           *)
LEMMA SconfreqOK ==
    ASSUME NEW f \in Fsm
    PROVE  /\ fsm_sconfreq(f) \in Fsm
           /\ fsm_sconfreq(f).state = f.state
           /\ fsm_sconfreq(f).timers = f.timers + 1
           /\ fsm_sconfreq(f).layer = f.layer
           /\ f.state \in Negotiating => fsm_sconfreq(f).acked = f.acked
<1> DEFINE g == ResetCi(f)
           h == NewRequest(g)
<1>1. /\ g \in Fsm /\ g.state = f.state /\ g.timers = f.timers
      /\ g.layer = f.layer /\ (f.state \in Negotiating => g = f)
  BY ResetCiOK
<1> HIDE DEF g
<1>2. NextId(g) \in Id
  BY <1>1, NextIdType
<1>3. /\ h \in Fsm /\ h.state = g.state /\ h.timers = g.timers
      /\ h.layer = g.layer /\ h.acked = g.acked /\ h.retransmits > 0
  <2>1. h = [g EXCEPT !.retransmits = MaxConfreqs, !.id = NextId(g),
                      !.reqid = NextId(g)]
    BY DEF NewRequest
  <2> HIDE DEF h
  <2>2. MaxConfreqs \in Nat /\ MaxConfreqs > 0
    BY PppAssumption
  <2> QED BY <1>1, <1>2, <2>1, <2>2 DEF Fsm
<1> HIDE DEF h
<1>4. fsm_sconfreq(f) = SendRequest(h)
  BY DEF fsm_sconfreq, g, h
<1> QED
  BY <1>1, <1>3, <1>4, SendRequestOK

(* A layer that is down and has no timer starts to negotiate.              *)
LEMMA RenegotiateOK ==
    ASSUME NEW f \in Fsm, f.timers = 0, f.layer = 0
    PROVE  FsmOK(To(fsm_sconfreq(f), "REQSENT"))
<1> DEFINE g == fsm_sconfreq(f)
<1>1. g \in Fsm /\ g.timers = 1 /\ g.layer = 0
  BY SconfreqOK
<1> HIDE DEF g
<1>2. FsmOK(To(g, "REQSENT"))
  BY <1>1 DEF To, FsmOK, Fsm, Timed, Negotiating, Terminating, State
<1> QED
  BY <1>2 DEF g

(* The elementary updates, one field each.                                 *)
LEMMA ToOK ==
    ASSUME NEW f \in Fsm, NEW s \in State
    PROVE  /\ To(f, s) \in Fsm /\ To(f, s).state = s
           /\ To(f, s).timers = f.timers /\ To(f, s).layer = f.layer
           /\ To(f, s).acked = f.acked /\ To(f, s).gotack = f.gotack
           /\ To(f, s).flags = f.flags
  BY DEF To, Fsm

(* untimeout takes one entry off, if there is one.                         *)
LEMMA UntimeoutOK ==
    ASSUME NEW f \in Fsm
    PROVE  /\ UNTIMEOUT(f) \in Fsm /\ UNTIMEOUT(f).state = f.state
           /\ UNTIMEOUT(f).timers = IF f.timers > 0 THEN f.timers - 1 ELSE 0
           /\ UNTIMEOUT(f).layer = f.layer
           /\ UNTIMEOUT(f).acked = f.acked /\ UNTIMEOUT(f).gotack = f.gotack
<1> DEFINE n == IF f.timers > 0 THEN f.timers - 1 ELSE 0
<1>1. n \in Nat
  BY DEF Fsm
<1>2. UNTIMEOUT(f) = [f EXCEPT !.timers = n]
  BY DEF UNTIMEOUT
<1> HIDE DEF n
<1>3. /\ [f EXCEPT !.timers = n] \in Fsm
      /\ [f EXCEPT !.timers = n].timers = n
      /\ [f EXCEPT !.timers = n].state = f.state
      /\ [f EXCEPT !.timers = n].layer = f.layer
      /\ [f EXCEPT !.timers = n].acked = f.acked
      /\ [f EXCEPT !.timers = n].gotack = f.gotack
  BY <1>1 DEF Fsm
<1> QED
  BY <1>2, <1>3 DEF n

(* down counts one call.                                                   *)
LEMMA DownOK ==
    ASSUME NEW f \in Fsm
    PROVE  /\ down(f) \in Fsm /\ down(f).state = f.state
           /\ down(f).timers = f.timers /\ down(f).layer = f.layer - 1
           /\ down(f).acked = f.acked /\ down(f).gotack = f.gotack
  BY DEF down, Fsm

(* up counts one call.                                                     *)
LEMMA UpOK ==
    ASSUME NEW f \in Fsm
    PROVE  /\ up(f) \in Fsm /\ up(f).state = f.state
           /\ up(f).timers = f.timers /\ up(f).layer = f.layer + 1
           /\ up(f).acked = f.acked /\ up(f).gotack = f.gotack
  BY DEF up, Fsm

(* A timer taken off, in a state that had one.                             *)
LEMMA Quiet ==
    ASSUME NEW f, FsmOK(f), f.state \in Timed
    PROVE  /\ UNTIMEOUT(f) \in Fsm /\ UNTIMEOUT(f).timers = 0
           /\ UNTIMEOUT(f).layer = 0 /\ UNTIMEOUT(f).state = f.state
           /\ UNTIMEOUT(f).acked = f.acked /\ UNTIMEOUT(f).gotack = f.gotack
<1>1. f \in Fsm /\ f.timers = 1 /\ f.layer = 0
  BY DEF FsmOK, Timed, Negotiating, Terminating
<1> QED
  BY <1>1, UntimeoutOK

(* The layer taken down, in OPENED.                                        *)
LEMMA Downed ==
    ASSUME NEW f, FsmOK(f), f.state = "OPENED"
    PROVE  /\ down(f) \in Fsm /\ down(f).timers = 0 /\ down(f).layer = 0
           /\ down(f).state = "OPENED"
<1>1. f \in Fsm /\ f.timers = 0 /\ f.layer = 1
  BY DEF FsmOK, Timed, Negotiating, Terminating
<1> QED
  BY <1>1, DownOK

Resting == {"INITIAL", "STARTING", "CLOSED", "STOPPED"}

(* A state that neither waits nor is open needs no timer and no layer.     *)
LEMMA Rest ==
    ASSUME NEW f \in Fsm, f.timers = 0, f.layer = 0, NEW s \in Resting
    PROVE  FsmOK(To(f, s))
<1>1. s \in State /\ s \notin Timed /\ s \notin {"ACKRCVD", "ACKSENT", "OPENED"}
  BY DEF Resting, State, Timed, Negotiating, Terminating
<1> QED
  BY <1>1, ToOK DEF FsmOK

(* A state at rest can become another one.                                 *)
LEMMA RestToRest ==
    ASSUME NEW f, FsmOK(f), f.state \in Resting
    PROVE  f \in Fsm /\ f.timers = 0 /\ f.layer = 0
  BY DEF FsmOK, Resting, Timed, Negotiating, Terminating

-----------------------------------------------------------------------------
(* fsm_lowerup.                                                            *)
LEMMA LowerupOK ==
    ASSUME NEW f, FsmOK(f)
    PROVE  FsmOK(fsm_lowerup(f))
<1>1. CASE f.state = "INITIAL"
  <2>1. fsm_lowerup(f) = To(f, "CLOSED")
    BY <1>1 DEF fsm_lowerup
  <2> QED BY <1>1, <2>1, RestToRest, Rest DEF Resting
<1>2. CASE f.state = "STARTING" /\ "SILENT" \in f.flags
  <2>1. fsm_lowerup(f) = To(f, "STOPPED")
    BY <1>2 DEF fsm_lowerup
  <2> QED BY <1>2, <2>1, RestToRest, Rest DEF Resting
<1>3. CASE f.state = "STARTING" /\ "SILENT" \notin f.flags
  <2>1. fsm_lowerup(f) = To(fsm_sconfreq(f), "REQSENT")
    BY <1>3 DEF fsm_lowerup
  <2> QED BY <1>3, <2>1, RestToRest, RenegotiateOK DEF Resting
<1>4. CASE f.state \notin {"INITIAL", "STARTING"}
  BY <1>4 DEF fsm_lowerup
<1> QED
  BY <1>1, <1>2, <1>3, <1>4

(* fsm_lowerdown.                                                          *)
LEMMA LowerdownOK ==
    ASSUME NEW f, FsmOK(f)
    PROVE  FsmOK(fsm_lowerdown(f))
<1>0. f \in Fsm
  BY DEF FsmOK
<1>1. CASE f.state = "CLOSED"
  <2>1. fsm_lowerdown(f) = To(f, "INITIAL")
    BY <1>1 DEF fsm_lowerdown, Negotiating
  <2> QED BY <1>1, <2>1, RestToRest, Rest DEF Resting
<1>2. CASE f.state = "STOPPED"
  <2>1. fsm_lowerdown(f) = To(f, "STARTING")
    BY <1>2 DEF fsm_lowerdown, Negotiating
  <2> QED BY <1>2, <2>1, RestToRest, Rest DEF Resting
<1>3. ASSUME NEW s \in Resting, f.state \in Timed
      PROVE  FsmOK(UNTIMEOUT(To(f, s)))
  <2> DEFINE g == To(f, s)
  <2>1. s \in State
    BY DEF Resting, State
  <2>2. f.timers = 1 /\ f.layer = 0
    BY <1>3 DEF FsmOK, Timed, Negotiating, Terminating
  <2>3. g \in Fsm /\ g.state = s /\ g.timers = 1 /\ g.layer = 0
    BY <1>0, <2>1, <2>2, ToOK
  <2> HIDE DEF g
  <2>4. /\ UNTIMEOUT(g) \in Fsm /\ UNTIMEOUT(g).state = s
        /\ UNTIMEOUT(g).timers = 0 /\ UNTIMEOUT(g).layer = 0
    BY <2>3, UntimeoutOK
  <2>5. s \notin Timed /\ s \notin {"ACKRCVD", "ACKSENT", "OPENED"}
    BY DEF Resting, Timed, Negotiating, Terminating
  <2>6. FsmOK(UNTIMEOUT(g))
    BY <2>4, <2>5 DEF FsmOK
  <2> QED BY <2>6 DEF g
<1>4. CASE f.state = "CLOSING"
  <2>1. fsm_lowerdown(f) = UNTIMEOUT(To(f, "INITIAL"))
    BY <1>4 DEF fsm_lowerdown, Negotiating
  <2> QED BY <1>3, <1>4, <2>1 DEF Timed, Terminating, Resting
<1>5. CASE f.state \in {"STOPPING"} \cup Negotiating
  <2>1. fsm_lowerdown(f) = UNTIMEOUT(To(f, "STARTING"))
    <3>1. f.state \notin {"CLOSED", "STOPPED", "CLOSING"}
      BY <1>5 DEF Negotiating
    <3> QED BY <1>5, <3>1 DEF fsm_lowerdown, Negotiating
  <2> QED BY <1>3, <1>5, <2>1 DEF Timed, Terminating, Resting
<1>6. CASE f.state = "OPENED"
  <2>1. fsm_lowerdown(f) = To(down(f), "STARTING")
    <3>1. f.state \notin {"CLOSED", "STOPPED", "CLOSING", "STOPPING"}
                         \cup Negotiating
      BY <1>6 DEF Negotiating
    <3> QED BY <1>6, <3>1 DEF fsm_lowerdown, Negotiating
  <2> QED BY <1>6, <2>1, Downed, Rest DEF Resting
<1>7. CASE f.state \notin {"CLOSED", "STOPPED", "CLOSING", "STOPPING", "OPENED"}
                         \cup Negotiating
  BY <1>7 DEF fsm_lowerdown
<1> QED
  BY <1>1, <1>2, <1>4, <1>5, <1>6, <1>7

(* The finished callback.                                                  *)
LEMMA FinishedOK ==
    ASSUME NEW f, FsmOK(f)
    PROVE  AllOK(finished(f))
  BY LowerdownOK DEF finished, AllOK

(* A timed state comes to rest, and the layer above is told.               *)
LEMMA StopOK ==
    ASSUME NEW f, FsmOK(f), f.state \in Timed, NEW s \in Resting
    PROVE  FsmOK(To(UNTIMEOUT(f), s)) /\ AllOK(finished(To(UNTIMEOUT(f), s)))
<1>1. FsmOK(To(UNTIMEOUT(f), s))
  BY Quiet, Rest
<1> QED
  BY <1>1, FinishedOK

(* What changes neither the state, the timer nor the layer, and takes no   *)
(* agreement back, keeps FsmOK.                                            *)
LEMMA Frame ==
    ASSUME NEW f, FsmOK(f), NEW g \in Fsm, g.state = f.state,
           g.timers = f.timers, g.layer = f.layer,
           f.acked = 1 => g.acked = 1, f.gotack = 1 => g.gotack = 1
    PROVE  FsmOK(g)
  BY DEF FsmOK

(* Sending keeps FsmOK.                                                    *)
LEMMA SdataKeeps ==
    ASSUME NEW f, FsmOK(f), NEW code \in Code, NEW id \in Id
    PROVE  FsmOK(fsm_sdata(f, code, id))
<1>1. f \in Fsm
  BY DEF FsmOK
<1> QED
  BY <1>1, SdataOK, Frame DEF SameBut

(* fsm_open.                                                               *)
LEMMA OpenOK ==
    ASSUME NEW f, FsmOK(f)
    PROVE  FsmOK(fsm_open(f))
<1> DEFINE g == IF f.state = "CLOSING" THEN To(f, "STOPPING") ELSE f
<1>0. f \in Fsm
  BY DEF FsmOK
<1>1. CASE f.state = "INITIAL"
  <2>1. fsm_open(f) = To(f, "STARTING")
    BY <1>1 DEF fsm_open
  <2> QED BY <1>1, <2>1, RestToRest, Rest DEF Resting
<1>2. CASE f.state = "CLOSED" /\ "SILENT" \in f.flags
  <2>1. fsm_open(f) = To(f, "STOPPED")
    BY <1>2 DEF fsm_open
  <2> QED BY <1>2, <2>1, RestToRest, Rest DEF Resting
<1>3. CASE f.state = "CLOSED" /\ "SILENT" \notin f.flags
  <2>1. fsm_open(f) = To(fsm_sconfreq(f), "REQSENT")
    BY <1>3 DEF fsm_open
  <2> QED BY <1>3, <2>1, RestToRest, RenegotiateOK DEF Resting
<1>4. CASE f.state \in {"CLOSING", "STOPPED", "OPENED"}
  <2>1. FsmOK(g)
    <3>1. CASE f.state = "CLOSING"
      <4>1. "STOPPING" \in State
        BY DEF State, Terminating
      <4>2. /\ To(f, "STOPPING") \in Fsm /\ To(f, "STOPPING").state = "STOPPING"
            /\ To(f, "STOPPING").timers = f.timers
            /\ To(f, "STOPPING").layer = f.layer
        BY <1>0, <4>1, ToOK
      <4>3. f.timers = 1 /\ f.layer = 0
        BY <3>1 DEF FsmOK, Timed, Terminating
      <4>4. FsmOK(To(f, "STOPPING"))
        BY <4>2, <4>3 DEF FsmOK, Timed, Terminating
      <4> QED BY <3>1, <4>4
    <3>2. CASE f.state # "CLOSING"
      BY <3>2
    <3> QED BY <3>1, <3>2
  <2>2. fsm_open(f) = IF "RESTART" \in f.flags THEN fsm_lowerup(fsm_lowerdown(g))
                      ELSE g
    BY <1>4 DEF fsm_open
  <2> HIDE DEF g
  <2> QED BY <2>1, <2>2, LowerdownOK, LowerupOK
<1>5. CASE f.state \notin {"INITIAL", "CLOSED", "CLOSING", "STOPPED", "OPENED"}
  BY <1>5 DEF fsm_open
<1> QED
  BY <1>1, <1>2, <1>3, <1>4, <1>5

(* A layer that is down and has no timer starts to terminate.              *)
LEMMA TerminateOK ==
    ASSUME NEW f, FsmOK(f), f.state \in Negotiating \cup {"OPENED"},
           NEW next \in Terminating
    PROVE  AllOK(terminate_layer(f, next))
<1> DEFINE g == IF f.state # "OPENED" THEN UNTIMEOUT(f) ELSE down(f)
           k == [g EXCEPT !.retransmits = MaxTermreqs,
                          !.id = NextId(g), !.reqid = NextId(g)]
           h == fsm_sdata(k, "TERMREQ", NextId(g))
           rest == IF next = "CLOSING" THEN "CLOSED" ELSE "STOPPED"
           last == To(TIMEOUT([h EXCEPT !.retransmits = @ - 1]), next)
<1>1. g \in Fsm /\ g.timers = 0 /\ g.layer = 0
  BY Quiet, Downed DEF Timed
<1>2. terminate_layer(f, next) =
        IF MaxTermreqs = 0 THEN finished(To(h, rest)) ELSE {last}
  BY DEF terminate_layer
<1> HIDE DEF g
<1>3. NextId(g) \in Id
  BY <1>1, NextIdType
<1>4. k \in Fsm /\ k.timers = 0 /\ k.layer = 0 /\ k.retransmits = MaxTermreqs
  BY <1>1, <1>3, PppAssumption DEF Fsm
<1> HIDE DEF k
<1>5. h \in Fsm /\ h.timers = 0 /\ h.layer = 0 /\ h.retransmits = MaxTermreqs
  <2>1. "TERMREQ" \in Code
    BY DEF Code
  <2> QED BY <1>3, <1>4, <2>1, SdataOK DEF SameBut
<1> HIDE DEF h
<1>6. CASE MaxTermreqs = 0
  <2>1. rest \in Resting
    BY DEF Resting
  <2> HIDE DEF rest
  <2>2. FsmOK(To(h, rest))
    BY <1>5, <2>1, Rest
  <2> QED BY <1>2, <1>6, <2>2, FinishedOK
<1>7. CASE MaxTermreqs # 0
  <2> DEFINE m == [h EXCEPT !.retransmits = @ - 1]
  <2>1. h.retransmits - 1 \in Nat
    BY <1>5, <1>7, PppAssumption
  <2>2. m \in Fsm /\ m.timers = 0 /\ m.layer = 0
    BY <1>5, <2>1 DEF Fsm
  <2>3. last = To(TIMEOUT(m), next)
    OBVIOUS
  <2> HIDE DEF m, last
  <2>4. TIMEOUT(m) \in Fsm /\ TIMEOUT(m).timers = 1 /\ TIMEOUT(m).layer = 0
    BY <2>2, ArmOK
  <2>5. /\ next \in State /\ next \in Timed
        /\ next \notin {"ACKRCVD", "ACKSENT", "OPENED"}
    BY DEF State, Timed, Terminating
  <2>6. FsmOK(last)
    BY <2>3, <2>4, <2>5, ToOK DEF FsmOK
  <2> QED BY <1>2, <1>7, <2>6 DEF AllOK
<1> QED
  BY <1>6, <1>7

(* fsm_close.                                                              *)
LEMMA CloseOK ==
    ASSUME NEW f, FsmOK(f)
    PROVE  AllOK(fsm_close(f))
<1>0. f \in Fsm
  BY DEF FsmOK
<1>1. CASE f.state = "STARTING"
  <2>1. fsm_close(f) = {To(f, "INITIAL")}
    BY <1>1 DEF fsm_close, Negotiating
  <2> QED BY <1>1, <2>1, RestToRest, Rest DEF Resting, AllOK
<1>2. CASE f.state = "STOPPED"
  <2>1. fsm_close(f) = {To(f, "CLOSED")}
    BY <1>2 DEF fsm_close, Negotiating
  <2> QED BY <1>2, <2>1, RestToRest, Rest DEF Resting, AllOK
<1>3. CASE f.state = "STOPPING"
  <2>1. fsm_close(f) = {To(f, "CLOSING")}
    BY <1>3 DEF fsm_close, Negotiating
  <2>2. "CLOSING" \in State
    BY DEF State, Terminating
  <2>3. /\ To(f, "CLOSING") \in Fsm /\ To(f, "CLOSING").state = "CLOSING"
        /\ To(f, "CLOSING").timers = f.timers /\ To(f, "CLOSING").layer = f.layer
    BY <1>0, <2>2, ToOK
  <2>4. f.timers = 1 /\ f.layer = 0
    BY <1>3 DEF FsmOK, Timed, Terminating
  <2>5. FsmOK(To(f, "CLOSING"))
    BY <2>3, <2>4 DEF FsmOK, Timed, Terminating
  <2> QED BY <2>1, <2>5 DEF AllOK
<1>4. CASE f.state \in Negotiating \cup {"OPENED"}
  <2>1. fsm_close(f) = terminate_layer(f, "CLOSING")
    BY <1>4 DEF fsm_close, Negotiating
  <2> QED BY <1>4, <2>1, TerminateOK DEF Terminating
<1>5. CASE f.state \notin {"STARTING", "STOPPED", "STOPPING", "OPENED"}
                          \cup Negotiating
  <2>1. fsm_close(f) = {f}
    BY <1>5 DEF fsm_close
  <2> QED BY <2>1 DEF AllOK
<1> QED
  BY <1>1, <1>2, <1>3, <1>4, <1>5

(* An automaton that has just opened, and its up callback.                 *)
LEMMA WentUpOK ==
    ASSUME NEW f \in Fsm, f.state = "OPENED", f.timers = 0, f.layer = 0,
           f.acked = 1, f.gotack = 1
    PROVE  AllOK(WentUp(f))
<1>1. FsmOK(up(f))
  BY UpOK DEF FsmOK, Timed, Negotiating, Terminating
<1>2. AllOK(fsm_close(up(f)))
  BY <1>1, CloseOK
<1> QED
  BY <1>1, <1>2 DEF WentUp, AllOK
(* A negotiation begun again, from a timed state or from OPENED.           *)
LEMMA AgainOK ==
    ASSUME NEW f, FsmOK(f)
    PROVE  /\ f.state \in Timed => FsmOK(Renegotiate(UNTIMEOUT(f)))
           /\ f.state = "OPENED" => FsmOK(Renegotiate(down(f)))
<1>1. CASE f.state \in Timed
  <2>1. UNTIMEOUT(f) \in Fsm /\ UNTIMEOUT(f).timers = 0 /\ UNTIMEOUT(f).layer = 0
    BY <1>1, Quiet
  <2>2. f.state # "OPENED"
    BY <1>1 DEF Timed, Negotiating, Terminating
  <2> QED BY <2>1, <2>2, RenegotiateOK DEF Renegotiate
<1>2. CASE f.state = "OPENED"
  <2>1. down(f) \in Fsm /\ down(f).timers = 0 /\ down(f).layer = 0
    BY <1>2, Downed
  <2>2. f.state \notin Timed
    BY <1>2 DEF Timed, Negotiating, Terminating
  <2> QED BY <2>1, <2>2, RenegotiateOK DEF Renegotiate
<1> QED
  BY <1>1, <1>2

(* fsm_timeout, which runs with its own entry off the callout list.        *)
LEMMA TimeoutOK ==
    ASSUME NEW f, FsmOK(f), f.timers > 0
    PROVE  AllOK(fsm_timeout(Expire(f)))
<1> DEFINE g == Expire(f)
<1>1. f \in Fsm /\ f.state \in Timed /\ f.timers = 1 /\ f.layer = 0
  BY DEF FsmOK, Timed, Negotiating, Terminating
<1>2. /\ g \in Fsm /\ g.state = f.state /\ g.timers = 0 /\ g.layer = 0
      /\ g.acked = f.acked /\ g.gotack = f.gotack
      /\ g.retransmits = f.retransmits
  BY <1>1 DEF Expire, Fsm
<1> HIDE DEF g
<1>3. g.retransmits \in Nat
  BY <1>2 DEF Fsm
<1>4. CASE g.state \in Terminating /\ g.retransmits <= 0
  <2> DEFINE rest == IF g.state = "CLOSING" THEN "CLOSED" ELSE "STOPPED"
  <2>1. fsm_timeout(g) = finished(To(g, rest))
    BY <1>4, <1>3 DEF fsm_timeout, Terminating, Negotiating
  <2>2. rest \in Resting
    BY DEF Resting
  <2> HIDE DEF rest
  <2>3. FsmOK(To(g, rest))
    BY <1>2, <2>2, Rest
  <2> QED BY <2>1, <2>3, FinishedOK DEF g
<1>5. CASE g.state \in Terminating /\ g.retransmits > 0
  <2>1. fsm_timeout(g) = {ResendTermreq(g)}
    BY <1>5, <1>3 DEF fsm_timeout, Terminating, Negotiating
  <2> DEFINE k == [g EXCEPT !.id = NextId(g), !.reqid = NextId(g),
                            !.retransmits = @ - 1]
             h == fsm_sdata(k, "TERMREQ", NextId(g))
  <2>2. NextId(g) \in Id /\ g.retransmits - 1 \in Nat
    BY <1>2, <1>3, <1>5, NextIdType
  <2>3. k \in Fsm /\ k.state = g.state /\ k.timers = 0 /\ k.layer = 0
    BY <1>2, <2>2 DEF Fsm
  <2>4. ResendTermreq(g) = TIMEOUT(h)
    BY DEF ResendTermreq
  <2> HIDE DEF k
  <2>5. h \in Fsm /\ h.state = g.state /\ h.timers = 0 /\ h.layer = 0
    <3>1. "TERMREQ" \in Code
      BY DEF Code
    <3> QED BY <2>2, <2>3, <3>1, SdataOK DEF SameBut
  <2> HIDE DEF h
  <2>6. /\ TIMEOUT(h) \in Fsm /\ TIMEOUT(h).timers = 1
        /\ TIMEOUT(h).layer = 0 /\ TIMEOUT(h).state = g.state
    BY <2>5, ArmOK
  <2>7. FsmOK(TIMEOUT(h))
    BY <1>5, <2>6 DEF FsmOK, Timed, Terminating
  <2> QED BY <2>1, <2>4, <2>7 DEF AllOK, g
<1>6. CASE g.state \in Negotiating /\ g.retransmits <= 0
  <2>1. fsm_timeout(g) = IF "PASSIVE" \in g.flags THEN {To(g, "STOPPED")}
                         ELSE finished(To(g, "STOPPED"))
    BY <1>6, <1>3 DEF fsm_timeout, Terminating, Negotiating
  <2>2. FsmOK(To(g, "STOPPED"))
    BY <1>2, Rest DEF Resting
  <2> QED BY <2>1, <2>2, FinishedOK DEF g, AllOK
<1>7. CASE g.state \in Negotiating /\ g.retransmits > 0
  <2> DEFINE h == fsm_sconfreq_again(g)
  <2>1. fsm_timeout(g) = {IF h.state = "ACKRCVD" THEN To(h, "REQSENT") ELSE h}
    BY <1>7, <1>3 DEF fsm_timeout, Terminating, Negotiating
  <2>2. h = SendRequest(g)
    BY <1>2, <1>7, ResetCiOK DEF fsm_sconfreq_again
  <2> HIDE DEF h
  <2>3. /\ h \in Fsm /\ h.state = g.state /\ h.timers = 1 /\ h.layer = 0
        /\ h.acked = f.acked
    BY <1>2, <1>7, <2>2, SendRequestOK
  <2>4. CASE h.state = "ACKRCVD"
    <3>1. "REQSENT" \in State
      BY DEF State, Negotiating
    <3>2. /\ To(h, "REQSENT") \in Fsm /\ To(h, "REQSENT").state = "REQSENT"
          /\ To(h, "REQSENT").timers = 1 /\ To(h, "REQSENT").layer = 0
      BY <2>3, <3>1, ToOK
    <3>3. FsmOK(To(h, "REQSENT"))
      BY <3>2 DEF FsmOK, Timed, Negotiating
    <3> QED BY <2>1, <2>4, <3>3 DEF AllOK, g
  <2>5. CASE h.state # "ACKRCVD"
    <3>1. FsmOK(h)
      BY <1>2, <1>7, <2>3, <2>5 DEF FsmOK, Timed, Negotiating
    <3> QED BY <2>1, <2>5, <3>1 DEF AllOK, g
  <2> QED BY <2>4, <2>5
<1>8. g.state \in Terminating \/ g.state \in Negotiating
  BY <1>1, <1>2 DEF Timed
<1> QED
  BY <1>3, <1>4, <1>5, <1>6, <1>7, <1>8
(* A request reopens the negotiation, or finds it going on.                *)
LEMMA ReopenOK ==
    ASSUME NEW f, FsmOK(f), f.state \in Negotiating \cup {"STOPPED", "OPENED"}
    PROVE  FsmOK(Reopen(f)) /\ Reopen(f).state \in Negotiating
<1>0. f \in Fsm
  BY DEF FsmOK
<1>1. CASE f.state = "OPENED"
  <2>1. Reopen(f) = To(fsm_sconfreq(down(f)), "REQSENT")
    BY <1>1 DEF Reopen
  <2>2. down(f) \in Fsm /\ down(f).timers = 0 /\ down(f).layer = 0
    BY <1>1, Downed
  <2>3. fsm_sconfreq(down(f)) \in Fsm
    BY <2>2, SconfreqOK
  <2>4. Reopen(f).state = "REQSENT"
    BY <2>1, <2>3, ToOK DEF State, Negotiating
  <2> QED BY <2>1, <2>2, <2>4, RenegotiateOK DEF Negotiating
<1>2. CASE f.state = "STOPPED"
  <2>1. Reopen(f) = To(fsm_sconfreq(f), "REQSENT")
    BY <1>2 DEF Reopen
  <2>2. f.timers = 0 /\ f.layer = 0
    BY <1>2, RestToRest DEF Resting
  <2>3. fsm_sconfreq(f) \in Fsm
    BY <1>0, SconfreqOK
  <2>4. Reopen(f).state = "REQSENT"
    BY <2>1, <2>3, ToOK DEF State, Negotiating
  <2> QED BY <1>0, <2>1, <2>2, <2>4, RenegotiateOK DEF Negotiating
<1>3. CASE f.state \in Negotiating
  BY <1>3 DEF Reopen, Negotiating
<1> QED
  BY <1>1, <1>2, <1>3

(* The answer to a request, and the record of what it was.                 *)
LEMMA AnsweredOK ==
    ASSUME NEW f \in Fsm, NEW id \in Id,
           NEW answer \in {"CONFACK", "CONFNAK", "CONFREJ"}
    PROVE  LET g == Answered(f, id, answer)
           IN  /\ g \in Fsm /\ g.state = f.state /\ g.timers = f.timers
               /\ g.layer = f.layer /\ g.gotack = f.gotack
               /\ answer = "CONFACK" => g.acked = 1
<1> DEFINE h == fsm_sdata(f, answer, id)
           a == IF answer = "CONFACK" THEN 1 ELSE 0
           n == CASE answer = "CONFACK" -> 0
                  [] answer = "CONFNAK" -> Bump(h.nakloops)
                  [] answer = "CONFREJ" -> h.nakloops
<1>1. answer \in Code
  BY DEF Code
<1>2. h \in Fsm /\ SameBut(f, h)
  BY <1>1, SdataOK
<1>3. Answered(f, id, answer) = [h EXCEPT !.acked = a, !.nakloops = n]
  BY DEF Answered
<1> HIDE DEF h
<1>4. n \in 0 .. MaxNakloops
  <2>1. h.nakloops \in 0 .. MaxNakloops
    BY <1>2 DEF Fsm
  <2>2. Bump(h.nakloops) \in 0 .. MaxNakloops /\ 0 \in 0 .. MaxNakloops
    BY <2>1, BumpType
  <2>3. CASE answer = "CONFACK"
    <3>1. n = 0
      BY <2>3
    <3> QED BY <2>2, <3>1
  <2>4. CASE answer = "CONFNAK"
    <3>1. n = Bump(h.nakloops)
      BY <2>4
    <3> QED BY <2>2, <3>1
  <2>5. CASE answer = "CONFREJ"
    <3>1. n = h.nakloops
      BY <2>5
    <3> QED BY <2>1, <3>1
  <2> QED BY <2>3, <2>4, <2>5
<1>5. a \in {0, 1} /\ (answer = "CONFACK" => a = 1)
  OBVIOUS
<1> HIDE DEF a, n
<1> QED
  BY <1>2, <1>3, <1>4, <1>5 DEF Fsm, SameBut

(* fsm_rconfreq.                                                           *)
LEMMA RconfreqOK ==
    ASSUME NEW f, FsmOK(f), f.state \notin {"INITIAL", "STARTING"},
           NEW id \in Id, NEW answer \in {"CONFACK", "CONFNAK", "CONFREJ"}
    PROVE  AllOK(fsm_rconfreq(f, id, answer))
<1>1. CASE f.state = "CLOSED"
  <2>1. fsm_rconfreq(f, id, answer) = {fsm_sdata(f, "TERMACK", id)}
    BY <1>1 DEF fsm_rconfreq, Terminating
  <2>2. "TERMACK" \in Code
    BY DEF Code
  <2> QED BY <2>1, <2>2, SdataKeeps DEF AllOK
<1>2. CASE f.state \in Terminating
  <2>1. fsm_rconfreq(f, id, answer) = {f}
    BY <1>2 DEF fsm_rconfreq, Terminating
  <2> QED BY <2>1 DEF AllOK
<1>3. CASE f.state \in Negotiating \cup {"STOPPED", "OPENED"}
  <2> DEFINE r == Reopen(f)
             g == Answered(r, id, answer)
  <2>1. fsm_rconfreq(f, id, answer) = AnswerRequest(r, id, answer)
    BY <1>3 DEF fsm_rconfreq, Terminating, Negotiating
  <2>2. FsmOK(r) /\ r.state \in Negotiating
    BY <1>3, ReopenOK
  <2> HIDE DEF r
  <2>3. r \in Fsm /\ r.timers = 1 /\ r.layer = 0
        /\ (r.state = "ACKRCVD" => r.gotack = 1)
    BY <2>2 DEF FsmOK, Timed, Negotiating
  <2>4. /\ g \in Fsm /\ g.state = r.state /\ g.timers = 1 /\ g.layer = 0
        /\ g.gotack = r.gotack /\ (answer = "CONFACK" => g.acked = 1)
    BY <2>3, AnsweredOK
  <2>5. CASE answer = "CONFACK" /\ r.state = "ACKRCVD"
    <3> DEFINE o == To(UNTIMEOUT(g), "OPENED")
    <3>1. AnswerRequest(r, id, answer) = WentUp(o)
      BY <2>5 DEF AnswerRequest
    <3> HIDE DEF g
    <3>2. /\ UNTIMEOUT(g) \in Fsm /\ UNTIMEOUT(g).timers = 0
          /\ UNTIMEOUT(g).layer = 0 /\ UNTIMEOUT(g).acked = 1
          /\ UNTIMEOUT(g).gotack = 1
      BY <2>3, <2>4, <2>5, UntimeoutOK
    <3>3. "OPENED" \in State
      BY DEF State
    <3>4. /\ o \in Fsm /\ o.state = "OPENED" /\ o.timers = 0 /\ o.layer = 0
          /\ o.acked = 1 /\ o.gotack = 1
      BY <3>2, <3>3, ToOK
    <3> HIDE DEF o
    <3> QED BY <2>1, <3>1, <3>4, WentUpOK
  <2>6. CASE answer = "CONFACK" /\ r.state # "ACKRCVD"
    <3>1. AnswerRequest(r, id, answer) = {To(g, "ACKSENT")}
      BY <2>6 DEF AnswerRequest
    <3> HIDE DEF g
    <3>2. "ACKSENT" \in State
      BY DEF State, Negotiating
    <3>3. /\ To(g, "ACKSENT") \in Fsm /\ To(g, "ACKSENT").state = "ACKSENT"
          /\ To(g, "ACKSENT").timers = 1 /\ To(g, "ACKSENT").layer = 0
          /\ To(g, "ACKSENT").acked = 1
      BY <2>4, <2>6, <3>2, ToOK
    <3>4. FsmOK(To(g, "ACKSENT"))
      BY <3>3 DEF FsmOK, Timed, Negotiating
    <3> QED BY <2>1, <3>1, <3>4 DEF AllOK
  <2>7. CASE answer # "CONFACK" /\ r.state = "ACKRCVD"
    <3>1. AnswerRequest(r, id, answer) = {g}
      BY <2>7 DEF AnswerRequest
    <3> HIDE DEF g
    <3>2. FsmOK(g)
      BY <2>3, <2>4, <2>7 DEF FsmOK, Timed, Negotiating
    <3> QED BY <2>1, <3>1, <3>2 DEF AllOK
  <2>8. CASE answer # "CONFACK" /\ r.state # "ACKRCVD"
    <3>1. AnswerRequest(r, id, answer) = {To(g, "REQSENT")}
      BY <2>8 DEF AnswerRequest
    <3> HIDE DEF g
    <3>2. "REQSENT" \in State
      BY DEF State, Negotiating
    <3>3. /\ To(g, "REQSENT") \in Fsm /\ To(g, "REQSENT").state = "REQSENT"
          /\ To(g, "REQSENT").timers = 1 /\ To(g, "REQSENT").layer = 0
      BY <2>4, <3>2, ToOK
    <3>4. FsmOK(To(g, "REQSENT"))
      BY <3>3 DEF FsmOK, Timed, Negotiating
    <3> QED BY <2>1, <3>1, <3>4 DEF AllOK
  <2> QED BY <2>5, <2>6, <2>7, <2>8
<1>4. f.state \in State
  BY DEF FsmOK, Fsm
<1> QED
  BY <1>1, <1>2, <1>3, <1>4 DEF State, Negotiating, Terminating

(* fsm_rconfack.                                                           *)
LEMMA RconfackOK ==
    ASSUME NEW f, FsmOK(f), NEW id \in Id
    PROVE  AllOK(fsm_rconfack(f, id))
<1> DEFINE g == [f EXCEPT !.seen_ack = 1, !.gotack = 1, !.rnakloops = 0]
<1>1. CASE ~Fresh(f, id)
  <2>1. fsm_rconfack(f, id) = {f}
    BY <1>1 DEF fsm_rconfack
  <2> QED BY <2>1 DEF AllOK
<1>2. CASE Fresh(f, id)
  <2>0. f \in Fsm
    BY DEF FsmOK
  <2>1. /\ g \in Fsm /\ g.state = f.state /\ g.timers = f.timers
        /\ g.layer = f.layer /\ g.acked = f.acked /\ g.gotack = 1
    <3>1. 0 \in 0 .. MaxNakloops
      BY PppAssumption
    <3> QED BY <2>0, <3>1 DEF Fsm
  <2>2. fsm_rconfack(f, id) =
          CASE f.state \in {"CLOSED", "STOPPED"} -> {fsm_sdata(g, "TERMACK", id)}
            [] f.state = "REQSENT" ->
                  {[To(g, "ACKRCVD") EXCEPT !.retransmits = MaxConfreqs]}
            [] f.state = "ACKRCVD" -> {Renegotiate(UNTIMEOUT(g))}
            [] f.state = "ACKSENT" ->
                  WentUp([To(UNTIMEOUT(g), "OPENED") EXCEPT
                            !.retransmits = MaxConfreqs])
            [] f.state = "OPENED" -> {Renegotiate(down(g))}
            [] OTHER -> {g}
    BY <1>2 DEF fsm_rconfack
  <2> HIDE DEF g
  <2>3. FsmOK(g)
    BY <2>1, Frame
  <2>4. CASE f.state \in {"CLOSED", "STOPPED"}
    <3>1. fsm_rconfack(f, id) = {fsm_sdata(g, "TERMACK", id)}
      BY <2>2, <2>4
    <3>2. "TERMACK" \in Code
      BY DEF Code
    <3> QED BY <2>3, <3>1, <3>2, SdataKeeps DEF AllOK
  <2>5. CASE f.state = "REQSENT"
    <3> DEFINE h == To(g, "ACKRCVD")
    <3>1. fsm_rconfack(f, id) = {[h EXCEPT !.retransmits = MaxConfreqs]}
      BY <2>2, <2>5
    <3>2. "ACKRCVD" \in State
      BY DEF State, Negotiating
    <3>3. g.timers = 1 /\ g.layer = 0
      BY <2>1, <2>3, <2>5 DEF FsmOK, Timed, Negotiating
    <3>4. /\ h \in Fsm /\ h.state = "ACKRCVD" /\ h.timers = 1 /\ h.layer = 0
          /\ h.gotack = 1
      BY <2>1, <3>2, <3>3, ToOK
    <3> HIDE DEF h
    <3>5. FsmOK(h)
      BY <3>4 DEF FsmOK, Timed, Negotiating
    <3>6. LET k == [h EXCEPT !.retransmits = MaxConfreqs]
          IN  /\ k \in Fsm /\ k.state = h.state /\ k.timers = h.timers
              /\ k.layer = h.layer /\ k.acked = h.acked /\ k.gotack = h.gotack
      BY <3>4, PppAssumption DEF Fsm
    <3>7. FsmOK([h EXCEPT !.retransmits = MaxConfreqs])
      BY <3>5, <3>6, Frame
    <3> QED BY <3>1, <3>7 DEF AllOK
  <2>6. CASE f.state = "ACKRCVD"
    <3>1. fsm_rconfack(f, id) = {Renegotiate(UNTIMEOUT(g))}
      BY <2>2, <2>6
    <3>2. g.state \in Timed
      BY <2>1, <2>6 DEF Timed, Negotiating
    <3> QED BY <2>3, <3>1, <3>2, AgainOK DEF AllOK
  <2>7. CASE f.state = "ACKSENT"
    <3> DEFINE h == To(UNTIMEOUT(g), "OPENED")
               o == [h EXCEPT !.retransmits = MaxConfreqs]
    <3>1. fsm_rconfack(f, id) = WentUp(o)
      BY <2>2, <2>7
    <3>2. g.state \in Timed /\ g.acked = 1
      BY <2>1, <2>3, <2>7 DEF FsmOK, Timed, Negotiating
    <3>3. /\ UNTIMEOUT(g) \in Fsm /\ UNTIMEOUT(g).timers = 0
          /\ UNTIMEOUT(g).layer = 0 /\ UNTIMEOUT(g).acked = 1
          /\ UNTIMEOUT(g).gotack = 1
      BY <2>1, <2>3, <3>2, Quiet
    <3>4. "OPENED" \in State
      BY DEF State
    <3>5. /\ h \in Fsm /\ h.state = "OPENED" /\ h.timers = 0 /\ h.layer = 0
          /\ h.acked = 1 /\ h.gotack = 1
      BY <3>3, <3>4, ToOK
    <3> HIDE DEF h
    <3>6. /\ o \in Fsm /\ o.state = "OPENED" /\ o.timers = 0 /\ o.layer = 0
          /\ o.acked = 1 /\ o.gotack = 1
      BY <3>5, PppAssumption DEF Fsm
    <3> HIDE DEF o
    <3> QED BY <3>1, <3>6, WentUpOK
  <2>8. CASE f.state = "OPENED"
    <3>1. fsm_rconfack(f, id) = {Renegotiate(down(g))}
      BY <2>2, <2>8
    <3> QED BY <2>1, <2>3, <2>8, <3>1, AgainOK DEF AllOK
  <2>9. CASE f.state \notin {"CLOSED", "STOPPED", "REQSENT", "ACKRCVD",
                             "ACKSENT", "OPENED"}
    <3>1. fsm_rconfack(f, id) = {g}
      BY <2>2, <2>9
    <3> QED BY <2>3, <3>1 DEF AllOK
  <2> QED BY <2>4, <2>5, <2>6, <2>7, <2>8, <2>9
<1> QED
  BY <1>1, <1>2
(* The automaton after an accepted Nak or Reject.                          *)
LEMMA NakTakenOK ==
    ASSUME NEW f, FsmOK(f), NEW id \in Id, NEW stop \in BOOLEAN
    PROVE  FsmOK(NakTaken(f, id, stop))
<1> DEFINE g == [f EXCEPT !.seen_ack = 1]
<1>0. f \in Fsm
  BY DEF FsmOK
<1>1. /\ g \in Fsm /\ g.state = f.state /\ g.timers = f.timers
      /\ g.layer = f.layer /\ g.acked = f.acked /\ g.gotack = f.gotack
  BY <1>0 DEF Fsm
<1>2. NakTaken(f, id, stop) =
        CASE g.state \in {"CLOSED", "STOPPED"} -> fsm_sdata(g, "TERMACK", id)
          [] g.state \in {"REQSENT", "ACKSENT"} ->
                IF stop THEN To(UNTIMEOUT(g), "STOPPED")
                        ELSE fsm_sconfreq(UNTIMEOUT(g))
          [] g.state = "ACKRCVD" -> Renegotiate(UNTIMEOUT(g))
          [] g.state = "OPENED"  -> Renegotiate(down(g))
          [] OTHER -> g
  BY DEF NakTaken
<1> HIDE DEF g
<1>3. FsmOK(g)
  BY <1>1, Frame
<1>4. CASE g.state \in {"CLOSED", "STOPPED"}
  <2>1. NakTaken(f, id, stop) = fsm_sdata(g, "TERMACK", id)
    BY <1>2, <1>4
  <2>2. "TERMACK" \in Code
    BY DEF Code
  <2> QED BY <1>3, <2>1, <2>2, SdataKeeps
<1>5. CASE g.state \in {"REQSENT", "ACKSENT"}
  <2> DEFINE h == UNTIMEOUT(g)
  <2>1. NakTaken(f, id, stop) = IF stop THEN To(h, "STOPPED") ELSE fsm_sconfreq(h)
    BY <1>2, <1>5
  <2>2. g.state \in Timed /\ (g.state = "ACKSENT" => g.acked = 1)
    BY <1>3, <1>5 DEF FsmOK, Timed, Negotiating
  <2>3. /\ h \in Fsm /\ h.timers = 0 /\ h.layer = 0 /\ h.state = g.state
        /\ h.acked = g.acked
    BY <1>3, <2>2, Quiet
  <2> HIDE DEF h
  <2>4. FsmOK(To(h, "STOPPED"))
    BY <2>3, Rest DEF Resting
  <2>5. /\ fsm_sconfreq(h) \in Fsm /\ fsm_sconfreq(h).state = g.state
        /\ fsm_sconfreq(h).timers = 1 /\ fsm_sconfreq(h).layer = 0
        /\ fsm_sconfreq(h).acked = g.acked
    BY <1>5, <2>3, SconfreqOK DEF Negotiating
  <2>6. FsmOK(fsm_sconfreq(h))
    BY <1>5, <2>2, <2>5 DEF FsmOK, Timed, Negotiating
  <2> QED BY <2>1, <2>4, <2>6
<1>6. CASE g.state = "ACKRCVD"
  <2>1. NakTaken(f, id, stop) = Renegotiate(UNTIMEOUT(g))
    BY <1>2, <1>6
  <2>2. g.state \in Timed
    BY <1>6 DEF Timed, Negotiating
  <2> QED BY <1>3, <2>1, <2>2, AgainOK
<1>7. CASE g.state = "OPENED"
  <2>1. NakTaken(f, id, stop) = Renegotiate(down(g))
    BY <1>2, <1>7
  <2> QED BY <1>3, <1>7, <2>1, AgainOK
<1>8. CASE g.state \notin {"CLOSED", "STOPPED", "REQSENT", "ACKSENT", "ACKRCVD",
                           "OPENED"}
  <2>1. NakTaken(f, id, stop) = g
    BY <1>2, <1>8
  <2> QED BY <1>3, <2>1
<1> QED
  BY <1>4, <1>5, <1>6, <1>7, <1>8

(* fsm_rconfnakrej, also when nakci has closed the automaton.              *)
LEMMA RconfnakrejOK ==
    ASSUME NEW f, FsmOK(f), NEW code \in {"CONFNAK", "CONFREJ"}, NEW id \in Id
    PROVE  AllOK(fsm_rconfnakrej(f, code, id))
<1> DEFINE n == IF code = "CONFNAK" THEN Bump(f.rnakloops) ELSE 0
           g == [f EXCEPT !.rnakloops = n]
           closed == IF code = "CONFNAK" /\ f.state # "OPENED" THEN fsm_close(g)
                                                               ELSE {}
<1>0. f \in Fsm
  BY DEF FsmOK
<1>1. CASE ~Fresh(f, id)
  <2>1. fsm_rconfnakrej(f, code, id) = {f}
    BY <1>1 DEF fsm_rconfnakrej
  <2> QED BY <2>1 DEF AllOK
<1>2. CASE Fresh(f, id)
  <2>1. fsm_rconfnakrej(f, code, id) =
          {g, NakTaken(g, id, FALSE), NakTaken(g, id, TRUE)}
          \cup {NakTaken(h, id, FALSE) : h \in closed}
    BY <1>2 DEF fsm_rconfnakrej
  <2>2. n \in 0 .. MaxNakloops
    <3>1. f.rnakloops \in 0 .. MaxNakloops
      BY <1>0 DEF Fsm
    <3> QED BY <3>1, BumpType
  <2> HIDE DEF n
  <2>3. /\ g \in Fsm /\ g.state = f.state /\ g.timers = f.timers
        /\ g.layer = f.layer /\ g.acked = f.acked /\ g.gotack = f.gotack
    BY <1>0, <2>2 DEF Fsm
  <2> HIDE DEF g
  <2>4. FsmOK(g)
    BY <2>3, Frame
  <2>5. \A h \in closed : FsmOK(h)
    BY <2>4, CloseOK DEF AllOK
  <2> HIDE DEF closed
  <2>6. \A h \in closed : FsmOK(NakTaken(h, id, FALSE))
    BY <2>5, NakTakenOK
  <2>7. FsmOK(NakTaken(g, id, FALSE)) /\ FsmOK(NakTaken(g, id, TRUE))
    BY <2>4, NakTakenOK
  <2> QED BY <2>1, <2>4, <2>6, <2>7 DEF AllOK
<1> QED
  BY <1>1, <1>2

(* fsm_rtermreq: no state that stands on an agreement survives it.         *)
LEMMA RtermreqOK ==
    ASSUME NEW f, FsmOK(f), NEW id \in Id
    PROVE  AllOK(fsm_rtermreq(f, id))
<1> DEFINE g == CASE f.state \in {"ACKRCVD", "ACKSENT"} -> To(f, "REQSENT")
                  [] f.state = "OPENED" ->
                        TIMEOUT(down([To(f, "STOPPING") EXCEPT !.retransmits = 0]))
                  [] OTHER -> f
<1>0. f \in Fsm
  BY DEF FsmOK
<1>1. fsm_rtermreq(f, id) = {fsm_sdata(Retract(g), "TERMACK", id)}
  BY DEF fsm_rtermreq
<1>2. FsmOK(g) /\ g.state \notin {"ACKRCVD", "ACKSENT", "OPENED"}
  <2>1. CASE f.state \in {"ACKRCVD", "ACKSENT"}
    <3>1. g = To(f, "REQSENT")
      BY <2>1
    <3> HIDE DEF g
    <3>2. f.timers = 1 /\ f.layer = 0
      BY <2>1 DEF FsmOK, Timed, Negotiating
    <3>3. "REQSENT" \in State
      BY DEF State, Negotiating
    <3>4. g \in Fsm /\ g.state = "REQSENT" /\ g.timers = 1 /\ g.layer = 0
      BY <1>0, <3>1, <3>2, <3>3, ToOK
    <3> QED BY <3>4 DEF FsmOK, Timed, Negotiating
  <2>2. CASE f.state = "OPENED"
    <3> DEFINE h == [To(f, "STOPPING") EXCEPT !.retransmits = 0]
    <3>1. g = TIMEOUT(down(h))
      BY <2>2
    <3> HIDE DEF g
    <3>2. f.timers = 0 /\ f.layer = 1
      BY <2>2 DEF FsmOK, Timed, Negotiating, Terminating
    <3>3. "STOPPING" \in State
      BY DEF State, Terminating
    <3>4. /\ To(f, "STOPPING") \in Fsm /\ To(f, "STOPPING").state = "STOPPING"
          /\ To(f, "STOPPING").timers = 0 /\ To(f, "STOPPING").layer = 1
      BY <1>0, <3>2, <3>3, ToOK
    <3>5. h \in Fsm /\ h.state = "STOPPING" /\ h.timers = 0 /\ h.layer = 1
      BY <3>4 DEF Fsm
    <3> HIDE DEF h
    <3>6. /\ down(h) \in Fsm /\ down(h).state = "STOPPING"
          /\ down(h).timers = 0 /\ down(h).layer = 0
      BY <3>5, DownOK
    <3>7. g \in Fsm /\ g.state = "STOPPING" /\ g.timers = 1 /\ g.layer = 0
      BY <3>1, <3>6, ArmOK
    <3> QED BY <3>7 DEF FsmOK, Timed, Terminating
  <2>3. CASE f.state \notin {"ACKRCVD", "ACKSENT", "OPENED"}
    BY <2>3
  <2> QED BY <2>1, <2>2, <2>3
<1> HIDE DEF g
<1>3. g \in Fsm
  BY <1>2 DEF FsmOK
<1>4. /\ Retract(g) \in Fsm /\ Retract(g).state = g.state
      /\ Retract(g).timers = g.timers /\ Retract(g).layer = g.layer
  BY <1>3 DEF Retract, Fsm
<1>5. FsmOK(Retract(g))
  BY <1>2, <1>4 DEF FsmOK
<1>6. "TERMACK" \in Code
  BY DEF Code
<1> QED
  BY <1>1, <1>5, <1>6, SdataKeeps DEF AllOK

(* fsm_rtermack.                                                           *)
LEMMA RtermackOK ==
    ASSUME NEW f, FsmOK(f)
    PROVE  AllOK(fsm_rtermack(f))
<1>0. f \in Fsm
  BY DEF FsmOK
<1>1. CASE f.state = "CLOSING"
  <2>1. fsm_rtermack(f) = finished(To(UNTIMEOUT(f), "CLOSED"))
    BY <1>1 DEF fsm_rtermack
  <2> QED BY <1>1, <2>1, StopOK DEF Timed, Terminating, Resting
<1>2. CASE f.state = "STOPPING"
  <2>1. fsm_rtermack(f) = finished(To(UNTIMEOUT(f), "STOPPED"))
    BY <1>2 DEF fsm_rtermack
  <2> QED BY <1>2, <2>1, StopOK DEF Timed, Terminating, Resting
<1>3. CASE f.state = "ACKRCVD"
  <2> DEFINE h == To(f, "REQSENT")
  <2>1. fsm_rtermack(f) = {[h EXCEPT !.gotack = 0]}
    BY <1>3 DEF fsm_rtermack
  <2>2. f.timers = 1 /\ f.layer = 0
    BY <1>3 DEF FsmOK, Timed, Negotiating
  <2>3. "REQSENT" \in State
    BY DEF State, Negotiating
  <2>4. h \in Fsm /\ h.state = "REQSENT" /\ h.timers = 1 /\ h.layer = 0
    BY <1>0, <2>2, <2>3, ToOK
  <2> HIDE DEF h
  <2>5. LET k == [h EXCEPT !.gotack = 0]
        IN  k \in Fsm /\ k.state = "REQSENT" /\ k.timers = 1 /\ k.layer = 0
    BY <2>4 DEF Fsm
  <2>6. FsmOK([h EXCEPT !.gotack = 0])
    BY <2>5 DEF FsmOK, Timed, Negotiating
  <2> QED BY <2>1, <2>6 DEF AllOK
<1>4. CASE f.state = "OPENED"
  <2>1. fsm_rtermack(f) = {Renegotiate(down(f))}
    BY <1>4 DEF fsm_rtermack
  <2> QED BY <1>4, <2>1, AgainOK DEF AllOK
<1>5. CASE f.state \notin {"CLOSING", "STOPPING", "ACKRCVD", "OPENED"}
  <2>1. fsm_rtermack(f) = {f}
    BY <1>5 DEF fsm_rtermack
  <2> QED BY <2>1 DEF AllOK
<1> QED
  BY <1>1, <1>2, <1>3, <1>4, <1>5

(* fsm_rcoderej.                                                           *)
LEMMA RcoderejOK ==
    ASSUME NEW f, FsmOK(f)
    PROVE  AllOK(fsm_rcoderej(f))
<1>1. CASE f.state = "ACKRCVD"
  <2>1. f \in Fsm /\ f.timers = 1 /\ f.layer = 0
    BY <1>1 DEF FsmOK, Timed, Negotiating
  <2>2. "REQSENT" \in State
    BY DEF State, Negotiating
  <2>3. /\ To(f, "REQSENT") \in Fsm /\ To(f, "REQSENT").state = "REQSENT"
        /\ To(f, "REQSENT").timers = 1 /\ To(f, "REQSENT").layer = 0
    BY <2>1, <2>2, ToOK
  <2>4. FsmOK(To(f, "REQSENT"))
    BY <2>3 DEF FsmOK, Timed, Negotiating
  <2> QED BY <1>1, <2>4 DEF fsm_rcoderej, AllOK
<1>2. CASE f.state # "ACKRCVD"
  BY <1>2 DEF fsm_rcoderej, AllOK
<1> QED
  BY <1>1, <1>2

(* An extended code, or the Code-Reject that answers an unknown one.       *)
LEMMA ExtendedOK ==
    ASSUME NEW f, FsmOK(f)
    PROVE  AllOK(Extended(f))
<1> DEFINE g == [f EXCEPT !.id = NextId(f)]
<1>1. f \in Fsm
  BY DEF FsmOK
<1>2. NextId(f) \in Id
  BY <1>1, NextIdType
<1>3. /\ g \in Fsm /\ g.state = f.state /\ g.timers = f.timers
      /\ g.layer = f.layer /\ g.acked = f.acked /\ g.gotack = f.gotack
  BY <1>1, <1>2 DEF Fsm
<1>4. Extended(f) = {f, fsm_sdata(g, "CODEREJ", NextId(f))}
  BY DEF Extended
<1> HIDE DEF g
<1>5. FsmOK(g)
  BY <1>3, Frame
<1>6. "CODEREJ" \in Code
  BY DEF Code
<1> QED
  BY <1>2, <1>4, <1>5, <1>6, SdataKeeps DEF AllOK

(* fsm_protreject.                                                         *)
LEMMA ProtrejectOK ==
    ASSUME NEW f, FsmOK(f)
    PROVE  AllOK(fsm_protreject(f))
<1>1. CASE f.state = "CLOSING"
  <2>1. fsm_protreject(f) = finished(To(UNTIMEOUT(f), "CLOSED"))
    BY <1>1 DEF fsm_protreject, Negotiating
  <2> QED BY <1>1, <2>1, StopOK DEF Timed, Terminating, Resting
<1>2. CASE f.state \in {"CLOSED", "STOPPED"}
  <2>1. fsm_protreject(f) = finished(f)
    BY <1>2 DEF fsm_protreject, Negotiating
  <2> QED BY <2>1, FinishedOK
<1>3. CASE f.state \in {"STOPPING"} \cup Negotiating
  <2>1. fsm_protreject(f) = finished(To(UNTIMEOUT(f), "STOPPED"))
    BY <1>3 DEF fsm_protreject, Negotiating
  <2> QED BY <1>3, <2>1, StopOK DEF Timed, Terminating, Resting
<1>4. CASE f.state = "OPENED"
  <2>1. fsm_protreject(f) = terminate_layer(f, "STOPPING")
    BY <1>4 DEF fsm_protreject, Negotiating
  <2> QED BY <1>4, <2>1, TerminateOK DEF Terminating
<1>5. CASE f.state \notin {"CLOSING", "CLOSED", "STOPPED", "STOPPING", "OPENED"}
                          \cup Negotiating
  <2>1. fsm_protreject(f) = {f}
    BY <1>5 DEF fsm_protreject
  <2> QED BY <2>1 DEF AllOK
<1> QED
  BY <1>1, <1>2, <1>3, <1>4, <1>5

(* fsm_input.                                                              *)
LEMMA InputOK ==
    ASSUME NEW f, FsmOK(f), NEW p \in Packet
    PROVE  AllOK(fsm_input(f, p))
<1>0. p.code \in Code /\ p.id \in Id
  BY DEF Packet
<1>1. CASE f.state \in {"INITIAL", "STARTING"}
  BY <1>1 DEF fsm_input, AllOK
<1>2. CASE f.state \notin {"INITIAL", "STARTING"}
  <2>1. CASE p.code = "CONFREQ"
    <3>1. fsm_input(f, p) = UNION {fsm_rconfreq(f, p.id, a) :
                                     a \in {"CONFACK", "CONFNAK", "CONFREJ"}}
      BY <1>2, <2>1 DEF fsm_input
    <3>2. \A a \in {"CONFACK", "CONFNAK", "CONFREJ"} :
             AllOK(fsm_rconfreq(f, p.id, a))
      BY <1>0, <1>2, RconfreqOK
    <3> QED BY <3>1, <3>2 DEF AllOK
  <2>2. CASE p.code = "CONFACK"
    <3>1. fsm_input(f, p) = {f} \cup fsm_rconfack(f, p.id)
      BY <1>2, <2>2 DEF fsm_input
    <3>2. AllOK(fsm_rconfack(f, p.id))
      BY <1>0, RconfackOK
    <3> QED BY <3>1, <3>2 DEF AllOK
  <2>3. CASE p.code \in {"CONFNAK", "CONFREJ"}
    <3>1. fsm_input(f, p) = fsm_rconfnakrej(f, p.code, p.id)
      BY <1>2, <2>3 DEF fsm_input
    <3> QED BY <1>0, <2>3, <3>1, RconfnakrejOK
  <2>4. CASE p.code = "TERMREQ"
    <3>1. fsm_input(f, p) = fsm_rtermreq(f, p.id)
      BY <1>2, <2>4 DEF fsm_input
    <3> QED BY <1>0, <3>1, RtermreqOK
  <2>5. CASE p.code = "TERMACK"
    BY <1>2, <2>5, RtermackOK DEF fsm_input
  <2>6. CASE p.code = "CODEREJ"
    BY <1>2, <2>6, RcoderejOK DEF fsm_input
  <2>7. CASE p.code = "EXT"
    BY <1>2, <2>7, ExtendedOK DEF fsm_input
  <2> QED BY <1>0, <2>1, <2>2, <2>3, <2>4, <2>5, <2>6, <2>7 DEF Code
<1> QED
  BY <1>1, <1>2

-----------------------------------------------------------------------------
(* A new automaton has FsmOK.                                              *)
LEMMA FsmInitOK == PppInit => FsmOK(fsm)
<1> SUFFICES ASSUME NEW flags \in SUBSET Flag, fsm = fsm_init(flags)
             PROVE  FsmOK(fsm)
  BY DEF PppInit
<1>1. 0 \in Id /\ 0 \in 0 .. MaxNakloops
  BY PppAssumption DEF Id
<1>2. <<>> \in Seq(Packet)
  OBVIOUS
<1>3. fsm \in Fsm
  BY <1>1, <1>2 DEF fsm_init, Fsm, State
<1> QED
  BY <1>3 DEF fsm_init, FsmOK, Timed, Negotiating, Terminating

(* FsmOK is inductive: a new automaton has it, and every event keeps it.   *)
THEOREM FsmAlwaysOK == PppSpec => []FsmOK(fsm)
<1>1. PppInit => FsmOK(fsm)
  BY FsmInitOK
<1>2. FsmOK(fsm) /\ [PppNext]_fsm => FsmOK(fsm)'
  <2> SUFFICES ASSUME FsmOK(fsm), [PppNext]_fsm PROVE FsmOK(fsm')
    OBVIOUS
  <2>1. FsmOK(Begin) /\ Begin.timers = fsm.timers
    <3>1. fsm \in Fsm /\ <<>> \in Seq(Packet)
      BY DEF FsmOK
    <3>2. /\ Begin \in Fsm /\ Begin.state = fsm.state
          /\ Begin.timers = fsm.timers /\ Begin.layer = fsm.layer
          /\ Begin.acked = fsm.acked /\ Begin.gotack = fsm.gotack
      BY <3>1 DEF Begin, Fsm
    <3> QED BY <3>2, Frame
  <2>2. CASE LowerUp
    BY <2>1, <2>2, LowerupOK DEF LowerUp
  <2>3. CASE LowerDown
    BY <2>1, <2>3, LowerdownOK DEF LowerDown
  <2>4. CASE Open
    BY <2>1, <2>4, OpenOK DEF Open
  <2>5. CASE Close
    BY <2>1, <2>5, CloseOK DEF Close, AllOK
  <2>6. CASE Timeout
    BY <2>1, <2>6, TimeoutOK DEF Timeout, AllOK
  <2>7. CASE ProtReject
    BY <2>1, <2>7, ProtrejectOK DEF ProtReject, AllOK
  <2>8. CASE \E p \in Packet : Input(p)
    BY <2>1, <2>8, InputOK DEF Input, AllOK
  <2>9. CASE UNCHANGED fsm
    BY <2>9
  <2> QED
    BY <2>2, <2>3, <2>4, <2>5, <2>6, <2>7, <2>8, <2>9 DEF PppNext
<1> QED
  BY <1>1, <1>2, PTL DEF PppSpec

(* Type correctness, for every identifier width and every retry bound.     *)
THEOREM PppTypeCorrect == PppSpec => []PppTypeOK
<1>1. FsmOK(fsm) => PppTypeOK
  BY DEF FsmOK, PppTypeOK
<1> QED
  BY <1>1, FsmAlwaysOK, PTL

(* There is one timer in the states that wait and none in the others, for  *)
(* every order of packets, timeouts and calls of the layers around it.     *)
THEOREM TimersExact == PppSpec => []TimerExact
<1>1. FsmOK(fsm) => TimerExact
  BY DEF FsmOK, TimerExact, Timed
<1> QED
  BY <1>1, FsmAlwaysOK, PTL

(* up and down are paired, also when up closes the automaton.              *)
THEOREM LayersPaired == PppSpec => []LayerPaired
<1>1. FsmOK(fsm) => LayerPaired
  BY DEF FsmOK, LayerPaired
<1> QED
  BY <1>1, FsmAlwaysOK, PTL

(* OPENED stands on an agreement of both sides that was not taken back.    *)
THEOREM OpenStandsOnAgreement == PppSpec => []OpenAgreed
<1>1. FsmOK(fsm) => OpenAgreed
  BY DEF FsmOK, OpenAgreed
<1> QED
  BY <1>1, FsmAlwaysOK, PTL

-----------------------------------------------------------------------------
(* The life of a link.  The flags of the link and the state of LCP.        *)
Clean(f, l) ==
    /\ FsmOK(f) /\ l \in Link /\ l.pc # "none"
    /\ l.delays = IF l.delayed THEN 1 ELSE 0
    /\ l.delayed => l.configured /\ ~ l.dead
    /\ l.pc = "loop" =>
         (f.state \in LowerLost <=> l.dead \/ l.delayed \/ ~ l.configured)
    /\ l.pc # "loop" => f.state = "INITIAL" /\ l.dead

LinkInv == Clean(fsm, link)

-----------------------------------------------------------------------------
(* What the automaton's events do to the knowledge of the lower layer.     *)
LEMMA LowerdownLoses ==
    ASSUME NEW f, FsmOK(f) PROVE fsm_lowerdown(f).state \in LowerLost
<1>1. f \in Fsm /\ f.state \in State
  BY DEF FsmOK, Fsm
<1>2. \A s \in State : To(f, s).state = s /\ UNTIMEOUT(To(f, s)).state = s
                       /\ To(down(f), s).state = s
  BY <1>1, ToOK, UntimeoutOK, DownOK
<1> QED BY <1>1, <1>2 DEF fsm_lowerdown, LowerLost, State, Negotiating, Terminating

(* fsm_lowerup leaves the states that wait for the lower layer.            *)
LEMMA LowerupFinds ==
    ASSUME NEW f, FsmOK(f), f.state \in LowerLost
    PROVE  fsm_lowerup(f).state \notin LowerLost
<1>1. f \in Fsm /\ fsm_sconfreq(f) \in Fsm
  BY SconfreqOK DEF FsmOK
<1>2. \A s \in State : To(f, s).state = s /\ To(fsm_sconfreq(f), s).state = s
  BY <1>1, ToOK
<1> QED BY <1>2 DEF fsm_lowerup, LowerLost, State, Negotiating

(* lcp_open of an INITIAL automaton makes it STARTING.                     *)
LEMMA OpenStarts ==
    ASSUME NEW f, FsmOK(f), f.state = "INITIAL", NEW l \in Link
    PROVE  FsmOK(lcp_open(f, l)) /\ lcp_open(f, l).state = "STARTING"
<1> DEFINE g == [f EXCEPT !.flags = (f.flags \ {"PASSIVE", "SILENT"}) \cup l.wo]
<1>1. f \in Fsm /\ l.wo \subseteq Flag
  BY DEF FsmOK, Link, Flag
<1>2. /\ g \in Fsm /\ g.state = f.state /\ g.timers = f.timers /\ g.layer = f.layer
      /\ g.acked = f.acked /\ g.gotack = f.gotack
  BY <1>1 DEF Fsm
<1>3. FsmOK(g) /\ g.state = "INITIAL"
  BY <1>2, Frame
<1>4. lcp_open(f, l) = fsm_open(g)
  BY DEF lcp_open
<1> HIDE DEF g
<1>5. fsm_open(g) = To(g, "STARTING")
  BY <1>3 DEF fsm_open
<1> QED BY <1>2, <1>3, <1>4, <1>5, OpenOK, ToOK DEF State

-----------------------------------------------------------------------------
(* The wrappers, on a link in the loop.                                    *)

(* An automaton that knew of its lower layer and lost it has called        *)
(* finished, and link_terminated has made the link dead.                   *)
LEMMA AfterClean ==
    ASSUME NEW f, NEW l, Clean(f, l), l.pc = "loop", NEW r, FsmOK(r),
           f.state \in LowerLost => r.state \in LowerLost
    PROVE  LET x == After(f, r, l)
           IN  Clean(x[1], x[2]) /\ x[2].pc = "loop" /\ (l.dead => x[2].dead)
<1> DEFINE m == [l EXCEPT !.dead = l.dead \/ Finished(f, r)]
<1>1. After(f, r, l) = <<r, m>>
  BY DEF After
<1>2. /\ m \in Link /\ m.pc = "loop" /\ m.delays = l.delays /\ m.delayed = l.delayed
      /\ m.configured = l.configured /\ m.dead = (l.dead \/ Finished(f, r))
  BY DEF Clean, Link
<1> HIDE DEF m
<1>3. Clean(r, m) /\ (l.dead => m.dead)
  BY <1>2 DEF Clean, Finished
<1> QED BY <1>1, <1>2, <1>3

(* lcp_lowerdown in the loop leaves a clean, dead link.                    *)
LEMMA LowerdownClean ==
    ASSUME NEW f, NEW l, Clean(f, l), l.pc = "loop", ~ l.dead
    PROVE  LET x == lcp_lowerdown(f, l)
           IN  Clean(x[1], [x[2] EXCEPT !.dead = TRUE]) /\ x[2].pc = "loop"
               /\ x[2] \in Link
<1>1. CASE l.delayed
  <2> DEFINE m == [l EXCEPT !.delayed = FALSE, !.delays = l.delays - 1]
             n == [m EXCEPT !.dead = TRUE]
  <2>1. lcp_lowerdown(f, l) = <<f, m>>
    BY <1>1 DEF lcp_lowerdown
  <2>2. l \in Link /\ l.delays - 1 = 0 /\ l.delays - 1 \in Nat
    BY <1>1 DEF Clean
  <2>3. m \in Link /\ m.pc = "loop" /\ m.delays = 0 /\ ~ m.delayed
    BY <2>2 DEF Link
  <2> HIDE DEF m
  <2>4. n \in Link /\ n.pc = "loop" /\ n.delays = 0 /\ ~ n.delayed /\ n.dead
    BY <2>3 DEF Link
  <2>5. Clean(f, n)
    BY <1>1, <2>4 DEF Clean
  <2> HIDE DEF n
  <2>6. lcp_lowerdown(f, l)[1] = f /\ lcp_lowerdown(f, l)[2] = m
    BY <2>1
  <2> QED BY <2>3, <2>5, <2>6 DEF n
<1>2. CASE ~ l.delayed
  <2> DEFINE n == [l EXCEPT !.dead = TRUE]
  <2>1. lcp_lowerdown(f, l) = <<fsm_lowerdown(f), l>>
    BY <1>2 DEF lcp_lowerdown
  <2>2. n \in Link /\ n.pc = "loop" /\ n.delays = 0 /\ ~ n.delayed /\ n.dead
    BY <1>2 DEF Clean, Link
  <2>3. Clean(fsm_lowerdown(f), n)
    BY <2>2, LowerdownLoses, LowerdownOK DEF Clean
  <2> QED BY <2>1, <2>3 DEF Clean
<1> QED BY <1>1, <1>2 DEF Clean, Link
(* Closing LCP: a delayed up is cancelled, and a link that only waits for  *)
(* its peer ends here.                                                     *)
LEMMA CloseClean ==
    ASSUME NEW f, NEW l, Clean(f, l), l.pc = "loop", NEW x \in lcp_close(f, l)
    PROVE  Clean(x[1], x[2]) /\ x[2].pc = "loop" /\ (l.dead => x[2].dead)
<1> DEFINE g == IF l.delayed THEN To(f, "STOPPED") ELSE f
           m == [l EXCEPT !.delays = IF l.delayed THEN l.delays - 1 ELSE l.delays]
<1>1. PICK r \in fsm_close(g) :
        x = IF Waiting(g, l) THEN link_terminated(r, [m EXCEPT !.delayed = FALSE])
                             ELSE After(g, r, m)
  BY DEF lcp_close, AsLcp
<1>2. l \in Link /\ f \in Fsm /\ FsmOK(f)
  BY DEF Clean, FsmOK
<1>3. /\ m \in Link /\ m.pc = "loop" /\ m.dead = l.dead /\ m.configured = l.configured
      /\ m.delayed = l.delayed /\ m.delays = 0
  <2>1. (IF l.delayed THEN l.delays - 1 ELSE l.delays) = 0
    BY DEF Clean
  <2> QED BY <1>2, <2>1 DEF Link
<1>4. FsmOK(g)
  <2>1. CASE l.delayed
    <3>1. f.state \in LowerLost
      BY <2>1 DEF Clean
    <3> QED BY <1>2, <2>1, <3>1, RestToRest, Rest DEF Resting, LowerLost
  <2> QED BY <1>2, <2>1
<1>5. FsmOK(r)
  BY <1>1, <1>4, CloseOK DEF AllOK
<1>6. CASE Waiting(g, l)
  <2> DEFINE n == [m EXCEPT !.delayed = FALSE]
             e == [n EXCEPT !.dead = TRUE]
  <2>1. n \in Link /\ n.pc = "loop" /\ n.dead = l.dead /\ ~ n.delayed /\ n.delays = 0
    BY <1>3 DEF Link
  <2>2. ~ l.dead
    <3>1. CASE l.delayed
      BY <3>1 DEF Clean
    <3>2. CASE ~ l.delayed
      BY <1>6, <3>2 DEF Waiting, Clean, LowerLost
    <3> QED BY <3>1, <3>2
  <2>3. link_terminated(r, n) = <<fsm_lowerdown(r), e>>
    BY <2>1, <2>2 DEF link_terminated, lcp_lowerdown
  <2>4. e \in Link /\ e.pc = "loop" /\ e.dead /\ ~ e.delayed /\ e.delays = 0
    BY <2>1 DEF Link
  <2> HIDE DEF e
  <2>5. Clean(fsm_lowerdown(r), e)
    BY <1>5, <2>4, LowerdownOK, LowerdownLoses DEF Clean
  <2>6. x = <<fsm_lowerdown(r), e>>
    BY <1>1, <1>6, <2>3
  <2> QED BY <2>4, <2>5, <2>6
<1>7. CASE ~ Waiting(g, l)
  <2>1. ~ l.delayed
    BY <1>2, <1>7, ToOK DEF Waiting, State
  <2>2. g = f
    BY <2>1
  <2>3. Clean(f, m)
    BY <1>3, <2>1 DEF Clean
  <2>4. f.state \in LowerLost => r.state \in LowerLost
    BY <1>1, <1>2, <2>2, ToOK DEF fsm_close, LowerLost, State, Negotiating
  <2>5. x = After(f, r, m)
    BY <1>1, <1>7, <2>2
  <2> HIDE DEF g, m
  <2> QED BY <1>3, <1>5, <2>3, <2>4, <2>5, AfterClean
<1> QED BY <1>6, <1>7

(* The delayed up comes, or there is none.                                 *)
LEMMA UndelayedClean ==
    ASSUME NEW f, NEW l, Clean(f, l), l.pc = "loop"
    PROVE  LET x == Undelayed(f, l)
               m == [x[2] EXCEPT !.delays = IF l.delayed THEN x[2].delays - 1 ELSE x[2].delays]
           IN  /\ Clean(x[1], m) /\ m.pc = "loop" /\ m.dead = l.dead /\ ~ m.delayed
               /\ m.configured = l.configured
<1>1. CASE l.delayed
  <2> DEFINE n == [l EXCEPT !.delayed = FALSE]
             m == [n EXCEPT !.delays = n.delays - 1]
  <2>1. Undelayed(f, l) = <<fsm_lowerup(f), n>>
    BY <1>1 DEF Undelayed
  <2>2. l \in Link /\ l.delays = 1 /\ f.state \in LowerLost /\ FsmOK(f)
    BY <1>1 DEF Clean
  <2>3. /\ n \in Link /\ n.pc = "loop" /\ n.dead = l.dead /\ n.delays = 1
        /\ ~ n.delayed /\ n.configured = l.configured
    BY <2>2 DEF Link
  <2> HIDE DEF n
  <2>4. /\ m \in Link /\ m.pc = "loop" /\ m.dead = l.dead /\ m.delays = 0
        /\ ~ m.delayed /\ m.configured = l.configured
    BY <2>3 DEF Link
  <2>5. Clean(fsm_lowerup(f), m)
    BY <1>1, <2>2, <2>4, LowerupOK, LowerupFinds DEF Clean
  <2>6. Undelayed(f, l)[1] = fsm_lowerup(f) /\ Undelayed(f, l)[2] = n
    BY <2>1
  <2> QED BY <1>1, <2>4, <2>5, <2>6
<1>2. CASE ~ l.delayed
  <2> DEFINE m == [l EXCEPT !.delays = l.delays]
  <2>1. Undelayed(f, l)[1] = f /\ Undelayed(f, l)[2] = l
    BY <1>2 DEF Undelayed
  <2>2. m = l
    BY DEF Clean, Link
  <2> QED BY <1>2, <2>1, <2>2
<1> QED BY <1>1, <1>2 DEF Clean, Link

(* Closing on a looped-back line keeps the link clean.                     *)
LEMMA LoopedBackClean ==
    ASSUME NEW f, NEW l, Clean(f, l), l.pc = "loop", NEW p \in Packet,
           NEW x \in LoopedBack(f, l, p)
    PROVE  Clean(x[1], x[2]) /\ x[2].pc = "loop"
<1>1. PICK y \in lcp_close(f, l) :
        x = <<[y[1] EXCEPT !.seen_ack = 1, !.rnakloops = Bump(y[1].rnakloops)], y[2]>>
  BY DEF LoopedBack
<1>2. Clean(y[1], y[2]) /\ y[2].pc = "loop"
  BY <1>1, CloseClean
<1> DEFINE g == y[1]
           h == [g EXCEPT !.seen_ack = 1, !.rnakloops = Bump(g.rnakloops)]
<1>3. FsmOK(g) /\ g \in Fsm
  BY <1>2 DEF Clean, FsmOK
<1>4. x[1] = h /\ x[2] = y[2]
  BY <1>1
<1> HIDE DEF g
<1>5. Bump(g.rnakloops) \in 0 .. MaxNakloops
  BY <1>3, BumpType DEF Fsm
<1>6. /\ h \in Fsm /\ h.state = g.state /\ h.timers = g.timers /\ h.layer = g.layer
      /\ h.acked = g.acked /\ h.gotack = g.gotack
  BY <1>3, <1>5 DEF Fsm
<1>7. FsmOK(h)
  BY <1>3, <1>6, Frame
<1> HIDE DEF h
<1>8. Clean(h, y[2])
  BY <1>2, <1>6, <1>7 DEF Clean, g
<1> QED BY <1>2, <1>4, <1>8

(* So does every packet lcp_input handles.                                 *)
LEMMA InputClean ==
    ASSUME NEW f, NEW l, Clean(f, l), l.pc = "loop", NEW p \in Packet,
           NEW x \in lcp_input(f, l, p)
    PROVE  Clean(x[1], x[2]) /\ x[2].pc = "loop"
<1> DEFINE u == Undelayed(f, l)
           g == u[1]
           m == [u[2] EXCEPT !.delays = IF l.delayed THEN u[2].delays - 1 ELSE u[2].delays]
<1>1. Clean(g, m) /\ m.pc = "loop"
  BY UndelayedClean
<1>2. x \in LoopedBack(g, m, p) \/ \E r \in fsm_input(g, p) : x = After(g, r, m)
  BY DEF lcp_input, AsLcp
<1> HIDE DEF u, g, m
<1>3. CASE x \in LoopedBack(g, m, p)
  BY <1>1, <1>3, LoopedBackClean
<1>4. ASSUME NEW r \in fsm_input(g, p), x = After(g, r, m)
      PROVE  Clean(x[1], x[2]) /\ x[2].pc = "loop"
  <2>1. FsmOK(r)
    BY <1>1, InputOK DEF Clean, AllOK
  <2>2. g.state \in LowerLost => r.state \in LowerLost
    BY DEF fsm_input, LowerLost
  <2> QED BY <1>1, <1>4, <2>1, <2>2, AfterClean
<1> QED BY <1>2, <1>3, <1>4
-----------------------------------------------------------------------------
(* The main loop.                                                          *)
LEMMA BeginClean ==
    ASSUME NEW l, Clean(fsm, l)
    PROVE  Clean(Begin, l) /\ Begin.state = fsm.state /\ Begin.timers = fsm.timers
<1>1. fsm \in Fsm /\ FsmOK(fsm) /\ <<>> \in Seq(Packet)
  BY DEF Clean, FsmOK
<1>2. /\ Begin \in Fsm /\ Begin.state = fsm.state
      /\ Begin.timers = fsm.timers /\ Begin.layer = fsm.layer
      /\ Begin.acked = fsm.acked /\ Begin.gotack = fsm.gotack
  BY <1>1 DEF Begin, Fsm
<1>3. FsmOK(Begin)
  BY <1>1, <1>2, Frame
<1> QED BY <1>2, <1>3 DEF Clean

(* start_link opens LCP on a link with nothing left over.                  *)
LEMMA StartClean == LinkInv /\ start_link => LinkInv'
<1> SUFFICES ASSUME LinkInv, start_link PROVE Clean(fsm', link')
  BY DEF LinkInv
<1> DEFINE f == lcp_open(Begin, link)
           l == [link EXCEPT !.pc = "loop", !.asked = FALSE, !.configured = FALSE]
           k == [l EXCEPT !.dead = FALSE]
<1>1. /\ link \in Link /\ link.pc = "between" /\ link.dead /\ ~ link.delayed
      /\ link.delays = 0 /\ fsm.state = "INITIAL"
  BY DEF start_link, LinkInv, Clean
<1>2. FsmOK(f) /\ f.state = "STARTING" /\ f.state \in LowerLost
  BY <1>1, BeginClean, OpenStarts DEF LinkInv, Clean, LowerLost
<1>3. /\ l \in Link /\ l.pc = "loop" /\ l.dead /\ ~ l.delayed /\ l.delays = 0
      /\ ~ l.configured
  BY <1>1 DEF Link
<1>4. \/ fsm' = f /\ link' = l
      \/ \E x \in lcp_lowerup(f, k) : fsm' = x[1] /\ link' = x[2]
  BY DEF start_link, Leave
<1> HIDE DEF f, l
<1>5. CASE fsm' = f /\ link' = l
  BY <1>2, <1>3, <1>5 DEF Clean
<1>6. CASE \E x \in lcp_lowerup(f, k) : fsm' = x[1] /\ link' = x[2]
  <2>1. /\ k \in Link /\ k.pc = "loop" /\ ~ k.dead /\ ~ k.delayed /\ k.delays = 0
        /\ ~ k.configured
    BY <1>3 DEF Link
  <2> HIDE DEF k
  <2> DEFINE m == [k EXCEPT !.configured = TRUE]
             n == [m EXCEPT !.delayed = TRUE, !.delays = m.delays + 1]
  <2>2. (fsm' = f /\ link' = k) \/ (fsm' = f /\ link' = n)
        \/ (fsm' = fsm_lowerup(f) /\ link' = m)
    <3>1. PICK x \in lcp_lowerup(f, k) : fsm' = x[1] /\ link' = x[2]
      BY <1>6
    <3>2. x = <<f, k>> \/ x = <<f, n>> \/ x = <<fsm_lowerup(f), m>>
      BY <3>1 DEF lcp_lowerup
    <3> HIDE DEF m, n
    <3> QED BY <3>1, <3>2
  <2>3. /\ m \in Link /\ m.pc = "loop" /\ ~ m.dead /\ ~ m.delayed /\ m.delays = 0
        /\ m.configured
    BY <2>1 DEF Link
  <2> HIDE DEF m
  <2>4. /\ n \in Link /\ n.pc = "loop" /\ ~ n.dead /\ n.delayed /\ n.delays = 1
        /\ n.configured
    <3>1. m.delays + 1 = 1 /\ 1 \in Nat
      BY <2>3
    <3> QED BY <2>3, <3>1 DEF Link
  <2> HIDE DEF n
  <2>5. Clean(f, k) /\ Clean(f, n)
    BY <1>2, <2>1, <2>4 DEF Clean
  <2>6. Clean(fsm_lowerup(f), m)
    BY <1>2, <2>3, LowerupOK, LowerupFinds DEF Clean
  <2> QED BY <2>2, <2>5, <2>6
<1> QED BY <1>4, <1>5, <1>6

(* Closing the link on a signal keeps it clean.                            *)
LEMMA CloseLinkClean == LinkInv /\ CloseLink => LinkInv'
<1> SUFFICES ASSUME LinkInv, CloseLink PROVE Clean(fsm', link')
  BY DEF LinkInv
<1>1. PICK x \in lcp_close(Begin, link) :
        fsm' = x[1] /\ link' = [x[2] EXCEPT !.asked = x[2].asked \/ link.configured]
  BY DEF CloseLink, Leave
<1>2. Clean(x[1], x[2]) /\ x[2].pc = "loop"
  BY <1>1, BeginClean, CloseClean DEF CloseLink, InLoop, LinkInv
<1> DEFINE m == x[2]
<1>3. m \in Link /\ link \in Link
  BY <1>2 DEF Clean, LinkInv
<1>4. /\ link' \in Link /\ link'.pc = m.pc /\ link'.dead = m.dead
      /\ link'.delayed = m.delayed /\ link'.delays = m.delays
      /\ link'.configured = m.configured
  BY <1>1, <1>3 DEF Link
<1> QED BY <1>1, <1>2, <1>4 DEF Clean

(* The automaton's timeout keeps it clean.                                 *)
LEMMA TimeoutClean == LinkInv /\ LcpTimeout => LinkInv'
<1> SUFFICES ASSUME LinkInv, LcpTimeout PROVE Clean(fsm', link')
  BY DEF LinkInv
<1>1. Clean(Begin, link) /\ link.pc = "loop" /\ Begin.timers > 0
  BY BeginClean DEF LcpTimeout, InLoop, LinkInv
<1> DEFINE f == Expire(Begin)
<1>2. PICK r \in fsm_timeout(f) : fsm' = After(f, r, link)[1] /\ link' = After(f, r, link)[2]
  BY DEF LcpTimeout, Leave, AsLcp
<1>3. FsmOK(r)
  BY <1>1, <1>2, TimeoutOK DEF Clean, AllOK
<1>4. Begin \in Fsm /\ Begin.state \notin LowerLost
  BY <1>1 DEF Clean, FsmOK, Timed, Negotiating, Terminating, LowerLost
<1>5. f.state = Begin.state
  BY <1>4 DEF Expire, Fsm
<1>6. After(f, r, link) = After(Begin, r, link)
  BY <1>5 DEF After, Finished
<1> QED BY <1>1, <1>2, <1>3, <1>4, <1>6, AfterClean

(* The delayed lowerup keeps it clean.                                     *)
LEMMA DelayedUpClean == LinkInv /\ lcp_delayed_up => LinkInv'
<1> SUFFICES ASSUME LinkInv, lcp_delayed_up PROVE Clean(fsm', link')
  BY DEF LinkInv
<1>1. /\ Clean(Begin, link) /\ link.pc = "loop" /\ link.delayed /\ link.delays = 1
      /\ link \in Link /\ Begin.state \in LowerLost /\ FsmOK(Begin)
  BY BeginClean DEF lcp_delayed_up, InLoop, LinkInv, Clean
<1> DEFINE l == [link EXCEPT !.delays = link.delays - 1]
           m == [l EXCEPT !.delayed = FALSE]
<1>2. l \in Link /\ l.delayed /\ l.delays = 0 /\ l.dead = link.dead /\ l.pc = "loop"
      /\ l.configured = link.configured
  BY <1>1 DEF Link
<1>3. fsm' = Undelayed(Begin, l)[1] /\ link' = Undelayed(Begin, l)[2]
  BY DEF lcp_delayed_up, Leave
<1> HIDE DEF l
<1>4. fsm' = fsm_lowerup(Begin) /\ link' = m
  BY <1>2, <1>3 DEF Undelayed
<1>5. m \in Link /\ ~ m.delayed /\ m.delays = 0 /\ m.dead = link.dead /\ m.pc = "loop"
      /\ m.configured = link.configured
  BY <1>2 DEF Link
<1> HIDE DEF m
<1> QED BY <1>1, <1>4, <1>5, LowerupOK, LowerupFinds DEF Clean

(* A packet keeps it clean.                                                *)
LEMMA PacketsClean == ASSUME LinkInv, NEW p \in Packet, Packets(p) PROVE LinkInv'
<1>1. PICK x \in lcp_input(Begin, link, p) : fsm' = x[1] /\ link' = x[2]
  BY DEF Packets, Leave
<1>2. Clean(x[1], x[2])
  BY <1>1, BeginClean, InputClean DEF Packets, InLoop, LinkInv
<1> QED BY <1>1, <1>2 DEF LinkInv

(* A Protocol-Reject of LCP keeps it clean.                                *)
LEMMA ProtrejClean == LinkInv /\ lcp_protrej => LinkInv'
<1> SUFFICES ASSUME LinkInv, lcp_protrej PROVE Clean(fsm', link')
  BY DEF LinkInv
<1>1. PICK r \in fsm_protreject(Begin) :
        fsm' = After(Begin, r, link)[1] /\ link' = After(Begin, r, link)[2]
  BY DEF lcp_protrej, Leave, AsLcp
<1>2. Clean(Begin, link) /\ link.pc = "loop" /\ Begin.state \notin LowerLost
  BY BeginClean DEF lcp_protrej, InLoop, LinkInv, LowerLost
<1>3. FsmOK(r)
  BY <1>1, <1>2, ProtrejectOK DEF Clean, AllOK
<1> QED BY <1>1, <1>2, <1>3, AfterClean

(* A hangup of the modem keeps it clean.                                   *)
LEMMA HangupClean == LinkInv /\ Hangup => LinkInv'
<1> SUFFICES ASSUME LinkInv, Hangup PROVE Clean(fsm', link')
  BY DEF LinkInv
<1> DEFINE x == lcp_lowerdown(Begin, link)
<1>1. fsm' = x[1] /\ link' = [x[2] EXCEPT !.dead = TRUE]
  BY DEF Hangup, Leave
<1>2. Clean(x[1], [x[2] EXCEPT !.dead = TRUE])
  BY BeginClean, LowerdownClean DEF Hangup, InLoop, LinkInv
<1> QED BY <1>1, <1>2

(* Past the loop LCP has lost its lower layer, and closing it leaves       *)
(* INITIAL.                                                                *)
LEMMA DeadClean == LinkInv /\ LinkDead => LinkInv'
<1> SUFFICES ASSUME LinkInv, LinkDead PROVE Clean(fsm', link')
  BY DEF LinkInv
<1>1. PICK x \in lcp_close(Begin, link), pc \in {"between", "exit"} :
        /\ fsm' = x[1]
        /\ link' = [x[2] EXCEPT !.pc = pc, !.asked = FALSE, !.configured = FALSE]
  BY DEF LinkDead, Leave
<1>2. /\ Clean(Begin, link) /\ link.pc = "loop" /\ link.dead /\ ~ link.delayed
      /\ Begin.state \in LowerLost /\ Begin \in Fsm
  BY BeginClean DEF LinkDead, InLoop, LinkInv, Clean, FsmOK
<1>3. Clean(x[1], x[2]) /\ x[2].dead
  BY <1>1, <1>2, CloseClean
<1>4. x[1].state = "INITIAL"
  <2>1. ~ Waiting(Begin, link)
    BY <1>2 DEF Waiting, LowerLost
  <2>2. \E r \in fsm_close(Begin) : x[1] = r
    <3> DEFINE n == [link EXCEPT !.delays = IF link.delayed THEN link.delays - 1
                                            ELSE link.delays]
    <3>1. PICK r \in fsm_close(Begin) : x = After(Begin, r, n)
      BY <1>1, <1>2, <2>1 DEF lcp_close, AsLcp
    <3> HIDE DEF n
    <3> QED BY <3>1 DEF After
  <2> QED BY <1>2, <2>2, ToOK DEF fsm_close, LowerLost, State, Negotiating
<1> DEFINE m == x[2]
<1>5. m \in Link /\ m.dead /\ ~ m.delayed /\ m.delays = 0
  BY <1>3 DEF Clean
<1>6. /\ link' \in Link /\ link'.pc = pc /\ link'.dead /\ ~ link'.delayed
      /\ link'.delays = 0
  BY <1>1, <1>5 DEF Link
<1> QED BY <1>1, <1>3, <1>4, <1>6 DEF Clean

-----------------------------------------------------------------------------
(* The inductive invariant of a link, for every identifier width and every *)
(* retry bound.                                                            *)
THEOREM LinkInvariant == LinkSpec => []LinkInv
<1>1. LinkInit => LinkInv
  <2> SUFFICES ASSUME NEW wo \in SUBSET {"PASSIVE", "SILENT"}, fsm = fsm_init({}),
                      link = NewLink("between", wo)
               PROVE  Clean(fsm, link)
    BY DEF LinkInit, LinkInv
  <2>1. PppInit
    BY DEF PppInit
  <2>2. FsmOK(fsm) /\ fsm.state = "INITIAL"
    BY <2>1, FsmInitOK DEF fsm_init
  <2>3. link \in Link /\ link.pc = "between" /\ link.dead /\ ~ link.delayed /\ link.delays = 0
    BY DEF NewLink, Link
  <2> QED BY <2>2, <2>3 DEF Clean
<1>2. LinkInv /\ [LinkNext]_<<fsm, link>> => LinkInv'
  <2>1. LinkInv /\ UNCHANGED <<fsm, link>> => LinkInv'
    BY DEF LinkInv
  <2> QED BY <2>1, StartClean, CloseLinkClean, TimeoutClean, DelayedUpClean, PacketsClean,
            ProtrejClean, HangupClean, DeadClean DEF LinkNext, LinkTimers, Exited
<1> QED BY <1>1, <1>2, PTL DEF LinkSpec

(* Whichever way the last link died, the next starts from nothing; and     *)
(* while one lives LCP and the link agree about the lower layer.           *)
THEOREM LinksStartClean == LinkSpec => []LinkClean
<1>1. LinkInv => LinkClean
  BY DEF LinkInv, Clean, LinkClean, FsmOK, Timed, Negotiating, Terminating
<1> QED BY <1>1, LinkInvariant, PTL

(* LCP's automaton, driven through the wrappers of lcp.c, keeps what every *)
(* automaton keeps.                                                        *)
THEOREM LinkKeepsFsm ==
    LinkSpec => [](PppTypeOK /\ TimerExact /\ LayerPaired /\ OpenAgreed)
<1>1. LinkInv => PppTypeOK /\ TimerExact /\ LayerPaired /\ OpenAgreed
  BY DEF LinkInv, Clean, FsmOK, PppTypeOK, TimerExact, LayerPaired, OpenAgreed, Timed
<1> QED BY <1>1, LinkInvariant, PTL
=============================================================================
