------------------------------ MODULE DhcpUtils ------------------------------
(***************************************************************************)
(* The control of the dhcpcd daemon by system properties                   *)
(* (src/system/core/libnetutils/dhcp_utils.c).  A caller of an interface   *)
(* asks init, through ctl.start and ctl.stop, to start or stop the         *)
(* service, polls init.svc.dhcpcd_<name> for its state and                 *)
(* dhcp.<name>.result for what the daemon found, and reads the result.     *)
(*                                                                         *)
(* init and dhcpcd are external.  init is also the property service: it    *)
(* serves one property_set at a time, answers a ctl request before it acts *)
(* on it, and every other one after.  A time is a number of naps.          *)
(***************************************************************************)
EXTENDS Integers

CONSTANTS
    Interfaces, P2p,              \* the interfaces, and those named "p2p..."
    StartNaps, ResultNaps, StopNaps, \* naps of a wait: 10, 30 and 5 s by 200 ms
    Width                         \* bits of a net mask: 32

ASSUME UtilsAssumption ==
    /\ P2p \subseteq Interfaces /\ "p2p" \notin Interfaces \ P2p
    /\ {StartNaps, ResultNaps, StopNaps, Width} \subseteq Nat \ {0}

VARIABLES
    svc,    \* a service: its state, and whether a call before the latest
            \* dhcp_start asked for the daemon
    result, \* dhcp.<name>.result and the mask; old: not written by the
            \* daemon of the latest dhcp_start
    ctl,    \* the request init has answered and not acted on, or "none"
    call,   \* each caller's function and the step it is at
    naps,   \* maxnaps of wait_for_property
    ret,    \* what the last function returned
    clean,  \* the service was "stopped" with success, the latest
            \* dhcp_start was "started" from there, or neither: "no"
    info    \* the mask the latest dhcp_get_results read, the rest of it that
            \* its loop has left after p rounds, and *prefixLength

utilsVars == <<svc, result, ctl, call, naps, ret, clean, info>>

(* get_p2p_interface_replacement: all p2p interfaces share one name.       *)
Name(i) == IF i \in P2p THEN "p2p" ELSE i
Names == {Name(i) : i \in Interfaces}

(* A net mask is the set of its bits that are one, the highest being 1.    *)
(* NoMask is a text that inet_addr does not understand; Absent stands for  *)
(* a property that is not set, or empty.                                   *)
NoMask == {0}
Absent == {-1}
Masks == (SUBSET (1..Width)) \cup {NoMask, Absent}

(* The caller's prefix length before anything is written to it.            *)
Unwritten == -1
Unread == [mask |-> Absent, rest |-> {}, p |-> 0, prefix |-> Unwritten]

-----------------------------------------------------------------------------
(* init and dhcpcd.                                                        *)

(* A request to start a service that runs is ignored; one to stop kills    *)
(* the daemon, which init hears of later.  iprenew only prods the daemon.  *)
InitTakes(n) ==
    /\ ctl[n] # "none" /\ ctl' = [ctl EXCEPT ![n] = "none"]
    /\ svc' = CASE ctl[n] = "start" /\ svc[n].state \in {"", "stopped"} ->
                       [svc EXCEPT ![n] = [state |-> "running", old |-> FALSE]]
                [] ctl[n] = "stop" /\ svc[n].state = "running" ->
                       [svc EXCEPT ![n].state = "stopping"]
                [] ctl[n] = "stop" /\ svc[n].state = "" ->
                       [svc EXCEPT ![n].state = "stopped"]
                [] OTHER -> svc
    /\ UNCHANGED <<result, call, naps, ret, clean, info>>

(* init reaps a daemon that was killed, or ended by itself.                *)
InitReaps(n) ==
    /\ svc[n].state \in {"running", "stopping"}
    /\ svc' = [svc EXCEPT ![n].state = "stopped"]
    /\ UNCHANGED <<result, ctl, call, naps, ret, clean, info>>

DaemonWrites(n) ==
    /\ svc[n].state = "running"
    /\ \/ result' = [result EXCEPT ![n] = [@ EXCEPT !.value = "failed", !.old = svc[n].old]]
       \/ \E m \in Masks :
             result' = [result EXCEPT ![n] = [value |-> "ok", old |-> svc[n].old, mask |-> m]]
    /\ UNCHANGED <<svc, ctl, call, naps, ret, clean, info>>

-----------------------------------------------------------------------------
(* wait_for_property: maxnaps + 1 probes with maxnaps naps between them.   *)

At(i, f, step) == call' = [call EXCEPT ![i] = [f |-> f, step |-> step]]

Arm(i, maxnaps) == naps' = [naps EXCEPT ![i] = maxnaps]

Return(i, code) == /\ At(i, call[i].f, "done") /\ ret' = [ret EXCEPT ![i] = code]

(* Mutant: the naps are not counted.                                       *)
MissedForever(i) == UNCHANGED <<call, ret, naps>>

(* A probe that does not find the value, and the nap after it, or the end  *)
(* of the wait.                                                            *)
Missed(i) == IF naps[i] = 0 THEN Return(i, -1) /\ UNCHANGED naps
                            ELSE Arm(i, naps[i] - 1) /\ UNCHANGED <<call, ret>>

-----------------------------------------------------------------------------
Stopping == {"dhcp_stop", "dhcp_release_lease"}

Ready(i) == call[i].step = "done"

(* property_set of the result, which init serves after its last request.   *)
SetResult(n, v) == /\ ctl[n] = "none"
                   /\ result' = [result EXCEPT ![n] = [@ EXCEPT !.value = v, !.old = TRUE]]

(* Mutant: dhcp_start does not clear the result.                           *)
dhcp_start_uncleared(i) ==
    /\ Ready(i) /\ At(i, "dhcp_start", "ctl")
    /\ result' = [result EXCEPT ![Name(i)].old = TRUE]
    /\ svc' = [svc EXCEPT ![Name(i)].old = TRUE]
    /\ clean' = [clean EXCEPT ![i] = IF @ = "stopped" THEN "started" ELSE "no"]
    /\ UNCHANGED <<ctl, naps, ret, info>>

(* dhcp_start and dhcp_start_renew clear the result.                       *)
dhcp_start(i) ==
    /\ Ready(i) /\ At(i, "dhcp_start", "ctl")
    /\ SetResult(Name(i), "")
    /\ svc' = [svc EXCEPT ![Name(i)].old = TRUE]
    /\ clean' = [clean EXCEPT ![i] = IF @ = "stopped" THEN "started" ELSE "no"]
    /\ UNCHANGED <<ctl, naps, ret, info>>

dhcp_start_renew(i) ==
    /\ Ready(i) /\ At(i, "dhcp_start_renew", "ctl")
    /\ SetResult(Name(i), "")
    /\ clean' = [clean EXCEPT ![i] = "no"]
    /\ UNCHANGED <<svc, ctl, naps, ret, info>>

dhcp_stop(i, f) ==
    /\ Ready(i) /\ At(i, f, "ctl") /\ clean' = [clean EXCEPT ![i] = "no"]
    /\ UNCHANGED <<svc, result, ctl, naps, ret, info>>

(* The request: property_set(ctl.start or ctl.stop).                       *)
Request(i) ==
    LET f == call[i].f  n == Name(i)
    IN /\ call[i].step = "ctl" /\ ctl[n] = "none"
       /\ \/ /\ f = "dhcp_start" /\ At(i, f, "running") /\ Arm(i, StartNaps)
             /\ ctl' = [ctl EXCEPT ![n] = "start"]
          \/ /\ f = "dhcp_start_renew" /\ At(i, f, "result") /\ Arm(i, ResultNaps)
             /\ ctl' = [ctl EXCEPT ![n] = "renew"]
          \/ /\ f \in Stopping /\ At(i, f, "stopped") /\ Arm(i, StopNaps)
             /\ ctl' = [ctl EXCEPT ![n] = "stop"]
       /\ UNCHANGED <<svc, result, ret, clean, info>>

(* dhcp_start waits for the daemon, then, as a renewal, for any result.    *)
WaitRunning(i) ==
    /\ call[i].step = "running"
    /\ IF svc[Name(i)].state = "running"
       THEN At(i, call[i].f, "result") /\ Arm(i, ResultNaps) /\ UNCHANGED ret
       ELSE Missed(i)
    /\ UNCHANGED <<svc, result, ctl, clean, info>>

WaitResult(i) ==
    /\ call[i].step = "result"
    /\ IF result[Name(i)].value # "" THEN Return(i, 0) /\ UNCHANGED naps ELSE Missed(i)
    /\ UNCHANGED <<svc, result, ctl, clean, info>>

(* Mutant: a service that no longer runs counts as stopped.                *)
WaitNotRunning(i) ==
    /\ call[i].step = "stopped"
    /\ IF svc[Name(i)].state # "running"
       THEN IF call[i].f = "dhcp_stop"
            THEN At(i, "dhcp_stop", "fail") /\ UNCHANGED <<ret, clean, naps>>
            ELSE Return(i, 0) /\ clean' = [clean EXCEPT ![i] = "stopped"] /\ UNCHANGED naps
       ELSE Missed(i) /\ UNCHANGED clean
    /\ UNCHANGED <<svc, result, ctl, info>>

(* dhcp_stop and dhcp_release_lease wait for the end; the first then       *)
(* writes the result.                                                      *)
WaitStopped(i) ==
    /\ call[i].step = "stopped"
    /\ IF svc[Name(i)].state = "stopped"
       THEN IF call[i].f = "dhcp_stop"
            THEN At(i, "dhcp_stop", "fail") /\ UNCHANGED <<ret, clean, naps>>
            ELSE Return(i, 0) /\ clean' = [clean EXCEPT ![i] = "stopped"] /\ UNCHANGED naps
       ELSE Missed(i) /\ UNCHANGED clean
    /\ UNCHANGED <<svc, result, ctl, info>>

StopFails(i) ==
    /\ call[i].step = "fail" /\ Return(i, 0)
    /\ SetResult(Name(i), "failed")
    /\ clean' = [clean EXCEPT ![i] = "stopped"]
    /\ UNCHANGED <<svc, ctl, naps, info>>

-----------------------------------------------------------------------------
(* dhcp_get_results looks at the result, and fill_ip_info then reads the   *)
(* properties one by one: the daemon may have written others by then.      *)
dhcp_get_results(i) ==
    /\ Ready(i)
    /\ IF result[Name(i)].value = "ok"
       THEN At(i, "dhcp_get_results", "fill") /\ UNCHANGED ret
       ELSE /\ call' = [call EXCEPT ![i] = [f |-> "dhcp_get_results", step |-> "done"]]
            /\ ret' = [ret EXCEPT ![i] = -1]
    /\ info' = [info EXCEPT ![i] = Unread]
    /\ UNCHANGED <<svc, result, ctl, naps, clean>>

(* Without a mask there is no prefix length, and no error either.          *)
fill_ip_info(i) ==
    LET m == result[Name(i)].mask
    IN /\ call[i].step = "fill"
       /\ info' = [info EXCEPT ![i] = [@ EXCEPT !.mask = m, !.rest = m \cap 1..Width]]
       /\ CASE m = Absent -> Return(i, 0)
            [] m = NoMask -> Return(i, -1)
            [] OTHER -> At(i, call[i].f, "shift") /\ UNCHANGED ret
       /\ UNCHANGED <<svc, result, ctl, naps, clean>>

(* mask << 1                                                               *)
Shifted(m) == {b - 1 : b \in m \ {1}}

(* Mutant: a zero among the ones passes for a one.                         *)
ShiftUnchecked(i) ==
    LET m == info[i].rest
    IN /\ call[i].step = "shift"
       /\ IF info[i].p = Width \/ m = {}
          THEN Return(i, 0) /\ info' = [info EXCEPT ![i] = [@ EXCEPT !.prefix = info[i].p]]
          ELSE /\ info' = [info EXCEPT ![i] = [@ EXCEPT !.rest = Shifted(m), !.p = info[i].p + 1]]
               /\ UNCHANGED <<call, ret>>
       /\ UNCHANGED <<svc, result, ctl, naps, clean>>

(* One round of its loop over the mask: the mask is used up, or its next   *)
(* bit is zero, though one follows, or is one.                             *)
Shift(i) ==
    LET m == info[i].rest
    IN /\ call[i].step = "shift"
       /\ IF info[i].p = Width \/ m = {}
          THEN Return(i, 0) /\ info' = [info EXCEPT ![i] = [@ EXCEPT !.prefix = info[i].p]]
          ELSE IF 1 \notin m THEN Return(i, -1) /\ UNCHANGED info
          ELSE /\ info' = [info EXCEPT ![i] = [@ EXCEPT !.rest = Shifted(m), !.p = info[i].p + 1]]
               /\ UNCHANGED <<call, ret>>
       /\ UNCHANGED <<svc, result, ctl, naps, clean>>

-----------------------------------------------------------------------------
UtilsInit ==
    /\ svc = [n \in Names |-> [state |-> "", old |-> FALSE]]
    /\ result = [n \in Names |-> [value |-> "", old |-> FALSE, mask |-> Absent]]
    /\ ctl = [n \in Names |-> "none"]
    /\ call = [i \in Interfaces |-> [f |-> "none", step |-> "done"]]
    /\ naps = [i \in Interfaces |-> 0] /\ ret = [i \in Interfaces |-> 0]
    /\ clean = [i \in Interfaces |-> "stopped"]
    /\ info = [i \in Interfaces |-> Unread]

Daemons == \E n \in Names : InitTakes(n) \/ InitReaps(n) \/ DaemonWrites(n)

Calls(i) == \/ dhcp_start(i) \/ dhcp_start_renew(i) \/ dhcp_get_results(i)
            \/ \E f \in Stopping : dhcp_stop(i, f)

Running(i) == \/ Request(i) \/ WaitRunning(i) \/ WaitResult(i) \/ WaitStopped(i)
              \/ StopFails(i) \/ fill_ip_info(i) \/ Shift(i)

UtilsNext == Daemons \/ \E i \in Interfaces : Calls(i) \/ Running(i)

UtilsSpec == UtilsInit /\ [][UtilsNext]_utilsVars

(* The callers run and init takes its requests; the daemon need not.       *)
FairUtilsSpec == /\ UtilsSpec
                 /\ \A i \in Interfaces : WF_utilsVars(Running(i))
                 /\ \A n \in Names : WF_utilsVars(InitTakes(n))

-----------------------------------------------------------------------------
(* A dhcp_start that succeeds on a service stopped with success has the    *)
(* result of its own daemon: none an older daemon wrote after the property *)
(* was cleared.                                                            *)
FreshStart ==
    \A i \in Interfaces :
        call[i] = [f |-> "dhcp_start", step |-> "done"] /\ ret[i] = 0 /\ clean[i] = "started"
        => result[Name(i)].value # "" /\ ~ result[Name(i)].old

(* After a dhcp_stop that succeeded the service is stopped and the result  *)
(* says so, until the next call: no daemon comes back to overwrite it.     *)
StoppedStays ==
    \A i \in Interfaces :
        call[i] = [f |-> "dhcp_stop", step |-> "done"] /\ ret[i] = 0
        => svc[Name(i)].state = "stopped" /\ result[Name(i)].value = "failed"

(* A prefix length that dhcp_get_results writes is that of a mask of as    *)
(* many leading ones, every other mask is refused, and nothing is written  *)
(* when it fails.  When there is no mask it succeeds all the same: the     *)
(* caller's prefix length is what it was before the call.                  *)
PrefixExact ==
    \A i \in Interfaces : call[i] = [f |-> "dhcp_get_results", step |-> "done"] =>
        \/ /\ ret[i] = 0 /\ info[i].prefix \in 0..Width
           /\ info[i].mask = 1..info[i].prefix
        \/ ret[i] = 0 /\ info[i].prefix = Unwritten /\ info[i].mask = Absent
        \/ /\ ret[i] = -1 /\ info[i].prefix = Unwritten
           /\ \A p \in 0..Width : info[i].mask # 1..p

(* Every call returns, whatever the daemon does.                           *)
CallReturns == \A i \in Interfaces : call[i].step # "done" ~> call[i].step = "done"
=============================================================================
