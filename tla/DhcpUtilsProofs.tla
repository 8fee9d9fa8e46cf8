-------------------------- MODULE DhcpUtilsProofs --------------------------
(***************************************************************************)
(* Proofs about the control of dhcpcd, for any interfaces, waits and       *)
(* masks: what a caller may rely on after dhcp_start and dhcp_stop.  Both  *)
(* are about interfaces that share their service with no other (all p2p    *)
(* interfaces share one, see Name).  UtilsInv is the inductive invariant:  *)
(* what each caller and its service know of one another.                   *)
(***************************************************************************)
EXTENDS DhcpUtils, TLAPS

(* No two interfaces, so no two p2p interfaces, use one service.           *)
OwnService == \A i, j \in Interfaces : Name(i) = Name(j) => i = j

CallType   == [f    : {"none", "dhcp_start", "dhcp_start_renew", "dhcp_get_results"}
                      \cup Stopping,
               step : {"ctl", "running", "result", "stopped", "fail", "fill", "shift",
                       "done"}]
CodeType   == {0, -1}
CleanType  == {"no", "stopped", "started"}
SvcType    == [state : {"", "running", "stopping", "stopped"}, old : BOOLEAN]
ResultType == [value : {"", "ok", "failed"}, old : BOOLEAN, mask : Masks]
CtlType    == {"none", "start", "renew", "stop"}

UtilsTypeOK ==
    /\ call \in [Interfaces -> CallType] /\ ret \in [Interfaces -> CodeType]
    /\ clean \in [Interfaces -> CleanType]
    /\ svc \in [Names -> SvcType] /\ result \in [Names -> ResultType]
    /\ ctl \in [Names -> CtlType]

(* A service a caller saw end has ended, and the request to stop it is the *)
(* only one that may be left.                                              *)
Ended(v, t) == v.state \in {"", "stopped"} /\ t \in {"none", "stop"}

(* dhcp_stop and dhcp_release_lease: a caller's call c, its code r and     *)
(* what is clean, x; its service v, result w and request t.                *)
StopShape(c, r, x, v, w, t) ==
    /\ c.step \in {"running", "result"} => c.f \in {"dhcp_start", "dhcp_start_renew"}
    /\ c.step \in {"fill", "shift"} => c.f = "dhcp_get_results"
    /\ c.step = "stopped" => c.f \in Stopping /\ t \in {"none", "stop"}
    /\ c.step = "fail" => c.f = "dhcp_stop" /\ v.state = "stopped" /\ t \in {"none", "stop"}
    /\ c.f = "dhcp_stop" /\ c.step = "done" /\ r = 0 =>
         v.state = "stopped" /\ t = "none" /\ w.value = "failed"
    /\ x = "stopped" => Ended(v, t) /\ c.step \in {"fill", "shift", "done"}

(* A dhcp_start on a service that has ended: a daemon that runs since then *)
(* is its own, and so is every result.                                     *)
StartShape(c, r, x, v, w) ==
    x = "started" =>
        /\ v.state \in {"running", "stopping"} => ~ v.old
        /\ w.value # "" => ~ w.old
        /\ c.f = "dhcp_start" /\ c.step = "done" /\ r = 0 => w.value # ""

Shape(c, r, x, v, w, t) == StopShape(c, r, x, v, w, t) /\ StartShape(c, r, x, v, w)

UtilsInv == /\ UtilsTypeOK
            /\ \A i \in Interfaces : Shape(call[i], ret[i], clean[i], svc[Name(i)],
                                           result[Name(i)], ctl[Name(i)])

-----------------------------------------------------------------------------
(* Every interface has a service.                                          *)
LEMMA NameType == \A i \in Interfaces : Name(i) \in Names
BY DEF Names

(* A step of a caller concerns its own service and no other caller's.      *)
LEMMA CallerStep ==
    ASSUME OwnService, UtilsInv, NEW i \in Interfaces,
           NEW c \in CallType, NEW r \in CodeType, NEW x \in CleanType,
           NEW v \in SvcType, NEW w \in ResultType, NEW t \in CtlType,
           call' = [call EXCEPT ![i] = c], ret' = [ret EXCEPT ![i] = r],
           clean' = [clean EXCEPT ![i] = x],
           svc' = [svc EXCEPT ![Name(i)] = v], result' = [result EXCEPT ![Name(i)] = w],
           ctl' = [ctl EXCEPT ![Name(i)] = t],
           Shape(c, r, x, v, w, t)
    PROVE  UtilsInv'
<1>1. UtilsTypeOK'
  BY NameType DEF UtilsInv, UtilsTypeOK
<1>2. ASSUME NEW k \in Interfaces
      PROVE  Shape(call'[k], ret'[k], clean'[k], svc'[Name(k)], result'[Name(k)],
                   ctl'[Name(k)])
  <2>1. CASE k = i
    BY <2>1, NameType DEF UtilsInv, UtilsTypeOK
  <2>2. CASE k # i
    <3>1. Name(k) # Name(i)
      BY <2>2 DEF OwnService
    <3> QED BY <2>2, <3>1, NameType DEF UtilsInv, UtilsTypeOK
  <2> QED BY <2>1, <2>2
<1> QED BY <1>1, <1>2 DEF UtilsInv, Name

(* A step of init or the daemon concerns the callers of the service.       *)
LEMMA ServiceStep ==
    ASSUME UtilsInv, NEW n \in Names,
           NEW v \in SvcType, NEW w \in ResultType, NEW t \in CtlType,
           UNCHANGED <<call, ret, clean>>,
           svc' = [svc EXCEPT ![n] = v], result' = [result EXCEPT ![n] = w],
           ctl' = [ctl EXCEPT ![n] = t],
           \A i \in Interfaces : Name(i) = n => Shape(call[i], ret[i], clean[i], v, w, t)
    PROVE  UtilsInv'
<1>1. UtilsTypeOK'
  BY DEF UtilsInv, UtilsTypeOK
<1>2. ASSUME NEW k \in Interfaces
      PROVE  Shape(call'[k], ret'[k], clean'[k], svc'[Name(k)], result'[Name(k)],
                   ctl'[Name(k)])
  BY NameType DEF UtilsInv, UtilsTypeOK
<1> QED BY <1>1, <1>2 DEF UtilsInv, Name

(* The parts of a caller's local state, and of a service's, have types.    *)
LEMMA LocalTypes ==
    ASSUME UtilsInv
    PROVE  /\ \A i \in Interfaces :
                /\ call[i] \in CallType /\ ret[i] \in CodeType /\ clean[i] \in CleanType
                /\ Shape(call[i], ret[i], clean[i], svc[Name(i)], result[Name(i)], ctl[Name(i)])
           /\ \A n \in Names : svc[n] \in SvcType /\ result[n] \in ResultType /\ ctl[n] \in CtlType
BY DEF UtilsInv, UtilsTypeOK

(* init takes a request.                                                   *)
LEMMA TakesInv == ASSUME UtilsInv, NEW n \in Names, InitTakes(n) PROVE UtilsInv'
<1> DEFINE v == CASE ctl[n] = "start" /\ svc[n].state \in {"", "stopped"} ->
                       [state |-> "running", old |-> FALSE]
                  [] ctl[n] = "stop" /\ svc[n].state = "running" ->
                       [svc[n] EXCEPT !.state = "stopping"]
                  [] ctl[n] = "stop" /\ svc[n].state = "" ->
                       [svc[n] EXCEPT !.state = "stopped"]
                  [] OTHER -> svc[n]
<1>1. v \in SvcType
  BY LocalTypes DEF SvcType
<1>2. svc' = [svc EXCEPT ![n] = v]
  BY DEF InitTakes, UtilsInv, UtilsTypeOK
<1>3. ASSUME NEW i \in Interfaces, Name(i) = n
      PROVE  Shape(call[i], ret[i], clean[i], v, result[n], "none")
  <2>1. Shape(call[i], ret[i], clean[i], svc[n], result[n], ctl[n])
    BY <1>3, LocalTypes
  <2>2. StopShape(call[i], ret[i], clean[i], v, result[n], "none")
    BY <2>1, LocalTypes DEF Shape, StopShape, Ended, SvcType, InitTakes
  <2>3. StartShape(call[i], ret[i], clean[i], v, result[n])
    BY <2>1, LocalTypes DEF Shape, StartShape, SvcType
  <2> QED BY <2>2, <2>3 DEF Shape
<1> HIDE DEF v
<1>4. /\ UNCHANGED <<call, ret, clean>> /\ ctl' = [ctl EXCEPT ![n] = "none"]
      /\ result' = [result EXCEPT ![n] = result[n]]
  BY DEF InitTakes, UtilsInv, UtilsTypeOK
<1>5. "none" \in CtlType /\ result[n] \in ResultType
  BY LocalTypes DEF CtlType
<1> QED BY <1>1, <1>2, <1>3, <1>4, <1>5, ServiceStep

(* init reaps a daemon: only a service that has ended may stop.            *)
LEMMA ReapsInv == ASSUME UtilsInv, NEW n \in Names, InitReaps(n) PROVE UtilsInv'
<1> DEFINE v == [svc[n] EXCEPT !.state = "stopped"]
<1>1. v \in SvcType /\ result[n] \in ResultType /\ ctl[n] \in CtlType
  BY LocalTypes DEF SvcType
<1>2. /\ UNCHANGED <<call, ret, clean>> /\ svc' = [svc EXCEPT ![n] = v]
      /\ result' = [result EXCEPT ![n] = result[n]] /\ ctl' = [ctl EXCEPT ![n] = ctl[n]]
  BY DEF InitReaps, UtilsInv, UtilsTypeOK
<1>3. ASSUME NEW i \in Interfaces, Name(i) = n
      PROVE  Shape(call[i], ret[i], clean[i], v, result[n], ctl[n])
  <2>1. Shape(call[i], ret[i], clean[i], svc[n], result[n], ctl[n]) /\ v.state = "stopped"
    BY <1>3, LocalTypes DEF SvcType
  <2>2. svc[n].state \in {"running", "stopping"}
    BY DEF InitReaps
  <2> HIDE DEF v
  <2> QED BY <2>1, <2>2 DEF Shape, StopShape, StartShape, Ended
<1> HIDE DEF v
<1> QED BY <1>1, <1>2, <1>3, ServiceStep

(* The daemon writes its result: none is left when the service has ended.  *)
LEMMA WritesInv == ASSUME UtilsInv, NEW n \in Names, DaemonWrites(n) PROVE UtilsInv'
<1>1. PICK w \in ResultType : /\ result' = [result EXCEPT ![n] = w]
                              /\ w.value # "" /\ w.old = svc[n].old
  <2>1. CASE result' = [result EXCEPT ![n] = [@ EXCEPT !.value = "failed", !.old = svc[n].old]]
    <3> DEFINE w == [result[n] EXCEPT !.value = "failed", !.old = svc[n].old]
    <3>1. w \in ResultType /\ w.value # "" /\ w.old = svc[n].old
      BY LocalTypes DEF ResultType, SvcType
    <3>2. result' = [result EXCEPT ![n] = w]
      BY <2>1 DEF UtilsInv, UtilsTypeOK
    <3> QED BY <3>1, <3>2
  <2>2. ASSUME NEW m \in Masks,
               result' = [result EXCEPT ![n] = [value |-> "ok", old |-> svc[n].old, mask |-> m]]
        PROVE  \E w \in ResultType : /\ result' = [result EXCEPT ![n] = w]
                                     /\ w.value # "" /\ w.old = svc[n].old
    <3> DEFINE w == [value |-> "ok", old |-> svc[n].old, mask |-> m]
    <3>1. w \in ResultType /\ w.value # "" /\ w.old = svc[n].old
      BY LocalTypes DEF ResultType, SvcType
    <3> QED BY <2>2, <3>1
  <2> QED BY <2>1, <2>2 DEF DaemonWrites
<1>2. svc[n] \in SvcType /\ ctl[n] \in CtlType
  BY LocalTypes
<1>3. /\ UNCHANGED <<call, ret, clean>>
      /\ svc' = [svc EXCEPT ![n] = svc[n]] /\ ctl' = [ctl EXCEPT ![n] = ctl[n]]
  BY DEF DaemonWrites, UtilsInv, UtilsTypeOK
<1>4. ASSUME NEW i \in Interfaces, Name(i) = n
      PROVE  Shape(call[i], ret[i], clean[i], svc[n], w, ctl[n])
  <2>1. Shape(call[i], ret[i], clean[i], svc[n], result[n], ctl[n]) /\ svc[n].state = "running"
    BY <1>4, LocalTypes DEF DaemonWrites
  <2> QED BY <1>1, <2>1 DEF Shape, StopShape, StartShape, Ended
<1> QED BY <1>1, <1>2, <1>3, <1>4, ServiceStep

(* A step of a caller that only reads its service.                         *)
LEMMA CallerReads ==
    ASSUME OwnService, UtilsInv, NEW i \in Interfaces,
           NEW c \in CallType, NEW r \in CodeType, NEW x \in CleanType,
           call' = [call EXCEPT ![i] = c], ret' = [ret EXCEPT ![i] = r],
           clean' = [clean EXCEPT ![i] = x], UNCHANGED <<svc, result, ctl>>,
           Shape(c, r, x, svc[Name(i)], result[Name(i)], ctl[Name(i)])
    PROVE  UtilsInv'
<1>1. /\ svc' = [svc EXCEPT ![Name(i)] = svc[Name(i)]]
      /\ result' = [result EXCEPT ![Name(i)] = result[Name(i)]]
      /\ ctl' = [ctl EXCEPT ![Name(i)] = ctl[Name(i)]]
  BY NameType DEF UtilsInv, UtilsTypeOK
<1>2. svc[Name(i)] \in SvcType /\ result[Name(i)] \in ResultType /\ ctl[Name(i)] \in CtlType
  BY NameType, LocalTypes
<1> QED BY <1>1, <1>2, CallerStep

(* A probe that misses: the caller naps, or returns -1.                    *)
LEMMA MissedInv ==
    ASSUME OwnService, UtilsInv, NEW i \in Interfaces, call[i].step # "done",
           Missed(i), UNCHANGED <<svc, result, ctl, clean>>
    PROVE  UtilsInv'
<1> DEFINE c == [f |-> call[i].f, step |-> "done"]
<1>1. /\ call[i] \in CallType /\ ret[i] \in CodeType /\ clean[i] \in CleanType
      /\ Shape(call[i], ret[i], clean[i], svc[Name(i)], result[Name(i)], ctl[Name(i)])
  BY LocalTypes
<1>2. c \in CallType /\ c.step = "done" /\ -1 \in CodeType /\ -1 # 0
  BY <1>1 DEF CallType, CodeType
<1>3. Shape(c, -1, clean[i], svc[Name(i)], result[Name(i)], ctl[Name(i)])
  <2> HIDE DEF c
  <2> QED BY <1>1, <1>2 DEF Shape, StopShape, StartShape
<1>4. clean' = [clean EXCEPT ![i] = clean[i]]
  BY DEF UtilsInv, UtilsTypeOK
<1>5. CASE naps[i] = 0
  <2>1. call' = [call EXCEPT ![i] = c] /\ ret' = [ret EXCEPT ![i] = -1]
    BY <1>5 DEF Missed, Return, At
  <2> HIDE DEF c
  <2> QED BY <1>1, <1>2, <1>3, <1>4, <2>1, CallerReads
<1>6. CASE naps[i] # 0
  <2>1. call' = [call EXCEPT ![i] = call[i]] /\ ret' = [ret EXCEPT ![i] = ret[i]]
    BY <1>6 DEF Missed, UtilsInv, UtilsTypeOK
  <2> QED BY <1>1, <1>4, <2>1, CallerReads
<1> QED BY <1>5, <1>6

(* dhcp_start: a service that has ended has no daemon to write a result.   *)
LEMMA StartInv ==
    ASSUME OwnService, UtilsInv, NEW i \in Interfaces, dhcp_start(i)
    PROVE  UtilsInv'
<1> DEFINE n == Name(i)
           c == [f |-> "dhcp_start", step |-> "ctl"]
           x == IF clean[i] = "stopped" THEN "started" ELSE "no"
           v == [svc[n] EXCEPT !.old = TRUE]
           w == [result[n] EXCEPT !.value = "", !.old = TRUE]
<1>1. /\ n \in Names /\ ret[i] \in CodeType /\ ctl[n] \in CtlType /\ svc[n] \in SvcType
      /\ result[n] \in ResultType
      /\ Shape(call[i], ret[i], clean[i], svc[n], result[n], ctl[n])
  BY NameType, LocalTypes
<1>2. c \in CallType /\ x \in CleanType /\ v \in SvcType /\ w \in ResultType
  BY <1>1 DEF CallType, CleanType, SvcType, ResultType
<1>3. /\ call' = [call EXCEPT ![i] = c] /\ ret' = [ret EXCEPT ![i] = ret[i]]
      /\ clean' = [clean EXCEPT ![i] = x] /\ svc' = [svc EXCEPT ![n] = v]
      /\ result' = [result EXCEPT ![n] = w] /\ ctl' = [ctl EXCEPT ![n] = ctl[n]]
  BY <1>1 DEF dhcp_start, At, SetResult, UtilsInv, UtilsTypeOK
<1>4. v.state = svc[n].state /\ w.value = ""
  BY <1>1 DEF SvcType, ResultType
<1>5. Shape(c, ret[i], x, v, w, ctl[n])
  <2> HIDE DEF v, w
  <2> QED BY <1>1, <1>4 DEF Shape, StopShape, StartShape, Ended
<1> HIDE DEF n, c, x, v, w
<1> QED BY <1>1, <1>2, <1>3, <1>5, CallerStep DEF n

(* dhcp_start_renew promises nothing about whose result it is.             *)
LEMMA RenewInv ==
    ASSUME OwnService, UtilsInv, NEW i \in Interfaces, dhcp_start_renew(i)
    PROVE  UtilsInv'
<1> DEFINE n == Name(i)
           c == [f |-> "dhcp_start_renew", step |-> "ctl"]
           w == [result[n] EXCEPT !.value = "", !.old = TRUE]
<1>1. /\ n \in Names /\ ret[i] \in CodeType /\ ctl[n] \in CtlType /\ svc[n] \in SvcType
      /\ result[n] \in ResultType
  BY NameType, LocalTypes
<1>2. c \in CallType /\ "no" \in CleanType /\ w \in ResultType
  BY <1>1 DEF CallType, CleanType, ResultType
<1>3. /\ call' = [call EXCEPT ![i] = c] /\ ret' = [ret EXCEPT ![i] = ret[i]]
      /\ clean' = [clean EXCEPT ![i] = "no"] /\ svc' = [svc EXCEPT ![n] = svc[n]]
      /\ result' = [result EXCEPT ![n] = w] /\ ctl' = [ctl EXCEPT ![n] = ctl[n]]
  BY <1>1 DEF dhcp_start_renew, At, SetResult, UtilsInv, UtilsTypeOK
<1>4. Shape(c, ret[i], "no", svc[n], w, ctl[n])
  BY DEF Shape, StopShape, StartShape
<1> HIDE DEF n, c, w
<1> QED BY <1>1, <1>2, <1>3, <1>4, CallerStep DEF n

(* dhcp_stop and dhcp_release_lease begin.                                 *)
LEMMA StopInv ==
    ASSUME OwnService, UtilsInv, NEW i \in Interfaces, NEW f \in Stopping, dhcp_stop(i, f)
    PROVE  UtilsInv'
<1> DEFINE c == [f |-> f, step |-> "ctl"]
<1>1. c \in CallType /\ "no" \in CleanType /\ ret[i] \in CodeType
  BY LocalTypes DEF CallType, CleanType
<1>2. /\ call' = [call EXCEPT ![i] = c] /\ ret' = [ret EXCEPT ![i] = ret[i]]
      /\ clean' = [clean EXCEPT ![i] = "no"] /\ UNCHANGED <<svc, result, ctl>>
  BY DEF dhcp_stop, At, UtilsInv, UtilsTypeOK
<1>3. Shape(c, ret[i], "no", svc[Name(i)], result[Name(i)], ctl[Name(i)])
  BY DEF Shape, StopShape, StartShape
<1> QED BY <1>1, <1>2, <1>3, CallerReads

(* dhcp_get_results only reads.                                            *)
LEMMA ResultsInv ==
    ASSUME OwnService, UtilsInv, NEW i \in Interfaces, dhcp_get_results(i)
    PROVE  UtilsInv'
<1>1. PICK c \in CallType, r \in CodeType :
        /\ call' = [call EXCEPT ![i] = c] /\ ret' = [ret EXCEPT ![i] = r]
        /\ c.f = "dhcp_get_results" /\ c.step \in {"fill", "done"}
  <2>1. CASE result[Name(i)].value = "ok"
    <3> DEFINE c == [f |-> "dhcp_get_results", step |-> "fill"]
    <3>1. call' = [call EXCEPT ![i] = c] /\ ret' = [ret EXCEPT ![i] = ret[i]]
      BY <2>1 DEF dhcp_get_results, At, UtilsInv, UtilsTypeOK
    <3>2. c \in CallType /\ ret[i] \in CodeType
      BY LocalTypes DEF CallType
    <3> QED BY <3>1, <3>2
  <2>2. CASE result[Name(i)].value # "ok"
    <3> DEFINE c == [f |-> "dhcp_get_results", step |-> "done"]
    <3>1. call' = [call EXCEPT ![i] = c] /\ ret' = [ret EXCEPT ![i] = -1]
      BY <2>2 DEF dhcp_get_results
    <3>2. c \in CallType /\ -1 \in CodeType
      BY DEF CallType, CodeType
    <3> QED BY <3>1, <3>2
  <2> QED BY <2>1, <2>2
<1>2. /\ clean' = [clean EXCEPT ![i] = clean[i]] /\ UNCHANGED <<svc, result, ctl>>
      /\ clean[i] \in CleanType
  BY LocalTypes DEF dhcp_get_results, UtilsInv, UtilsTypeOK
<1>3. Shape(c, r, clean[i], svc[Name(i)], result[Name(i)], ctl[Name(i)])
  BY <1>1, LocalTypes DEF Shape, StopShape, StartShape
<1> QED BY <1>1, <1>2, <1>3, CallerReads

(* The request goes to a service that has none left to take.               *)
LEMMA RequestInv ==
    ASSUME OwnService, UtilsInv, NEW i \in Interfaces, Request(i)
    PROVE  UtilsInv'
<1> DEFINE n == Name(i)
           f == call[i].f
<1>1. /\ n \in Names /\ ret[i] \in CodeType /\ clean[i] \in CleanType /\ svc[n] \in SvcType
      /\ result[n] \in ResultType /\ call[i] \in CallType
      /\ Shape(call[i], ret[i], clean[i], svc[n], result[n], ctl[n])
  BY NameType, LocalTypes
<1>2. PICK step \in {"running", "result", "stopped"}, t \in CtlType :
        /\ call' = [call EXCEPT ![i] = [f |-> f, step |-> step]]
        /\ ctl' = [ctl EXCEPT ![n] = t]
        /\ step = "stopped" => f \in Stopping /\ t = "stop"
        /\ step # "stopped" => f \in {"dhcp_start", "dhcp_start_renew"}
  BY DEF Request, At, CtlType
<1> DEFINE c == [f |-> f, step |-> step]
<1>3. c \in CallType /\ c.f = f /\ c.step = step
  BY <1>1 DEF CallType
<1>4. /\ ret' = [ret EXCEPT ![i] = ret[i]] /\ clean' = [clean EXCEPT ![i] = clean[i]]
      /\ svc' = [svc EXCEPT ![n] = svc[n]] /\ result' = [result EXCEPT ![n] = result[n]]
  BY <1>1 DEF Request, UtilsInv, UtilsTypeOK
<1>5. clean[i] # "stopped"
  BY <1>1 DEF Request, Shape, StopShape
<1>6. Shape(c, ret[i], clean[i], svc[n], result[n], t)
  <2> HIDE DEF c
  <2> QED BY <1>1, <1>2, <1>3, <1>5 DEF Shape, StopShape, StartShape
<1> QED BY <1>1, <1>2, <1>3, <1>4, <1>6, CallerStep

(* dhcp_start sees the daemon run, and waits on.                           *)
LEMMA WaitRunningInv ==
    ASSUME OwnService, UtilsInv, NEW i \in Interfaces, WaitRunning(i)
    PROVE  UtilsInv'
<1>1. CASE svc[Name(i)].state = "running"
  <2> DEFINE c == [f |-> call[i].f, step |-> "result"]
  <2>1. /\ call[i] \in CallType /\ ret[i] \in CodeType /\ clean[i] \in CleanType
        /\ Shape(call[i], ret[i], clean[i], svc[Name(i)], result[Name(i)], ctl[Name(i)])
    BY LocalTypes
  <2>2. c \in CallType /\ c.step = "result" /\ c.f = call[i].f
    BY <2>1 DEF CallType
  <2>3. /\ call' = [call EXCEPT ![i] = c] /\ ret' = [ret EXCEPT ![i] = ret[i]]
        /\ clean' = [clean EXCEPT ![i] = clean[i]] /\ UNCHANGED <<svc, result, ctl>>
    BY <1>1 DEF WaitRunning, At, UtilsInv, UtilsTypeOK
  <2> HIDE DEF c
  <2>4. Shape(c, ret[i], clean[i], svc[Name(i)], result[Name(i)], ctl[Name(i)])
    BY <1>1, <2>1, <2>2 DEF WaitRunning, Shape, StopShape, StartShape, Ended
  <2> QED BY <2>1, <2>2, <2>3, <2>4, CallerReads
<1>2. CASE svc[Name(i)].state # "running"
  BY <1>2, MissedInv DEF WaitRunning
<1> QED BY <1>1, <1>2

(* dhcp_start returns with a result, which is its own.                     *)
LEMMA WaitResultInv ==
    ASSUME OwnService, UtilsInv, NEW i \in Interfaces, WaitResult(i)
    PROVE  UtilsInv'
<1>1. CASE result[Name(i)].value # ""
  <2> DEFINE c == [f |-> call[i].f, step |-> "done"]
  <2>1. /\ call[i] \in CallType /\ clean[i] \in CleanType /\ 0 \in CodeType
        /\ Shape(call[i], ret[i], clean[i], svc[Name(i)], result[Name(i)], ctl[Name(i)])
    BY LocalTypes DEF CodeType
  <2>2. c \in CallType /\ c.step = "done" /\ c.f = call[i].f
    BY <2>1 DEF CallType
  <2>3. /\ call' = [call EXCEPT ![i] = c] /\ ret' = [ret EXCEPT ![i] = 0]
        /\ clean' = [clean EXCEPT ![i] = clean[i]] /\ UNCHANGED <<svc, result, ctl>>
    BY <1>1 DEF WaitResult, Return, At, UtilsInv, UtilsTypeOK
  <2> HIDE DEF c
  <2>4. call[i].f # "dhcp_stop"
    BY <2>1 DEF WaitResult, Shape, StopShape
  <2>5. Shape(c, 0, clean[i], svc[Name(i)], result[Name(i)], ctl[Name(i)])
    BY <1>1, <2>1, <2>2, <2>4 DEF Shape, StopShape, StartShape
  <2> QED BY <2>1, <2>2, <2>3, <2>5, CallerReads
<1>2. CASE result[Name(i)].value = ""
  BY <1>2, MissedInv DEF WaitResult
<1> QED BY <1>1, <1>2

(* dhcp_release_lease returns when the service has ended; dhcp_stop goes   *)
(* on to write the result.                                                 *)
LEMMA WaitStoppedInv ==
    ASSUME OwnService, UtilsInv, NEW i \in Interfaces, WaitStopped(i)
    PROVE  UtilsInv'
<1>1. /\ call[i] \in CallType /\ ret[i] \in CodeType /\ clean[i] \in CleanType
      /\ Shape(call[i], ret[i], clean[i], svc[Name(i)], result[Name(i)], ctl[Name(i)])
      /\ 0 \in CodeType /\ "stopped" \in CleanType
  BY LocalTypes DEF CodeType, CleanType
<1>2. ctl[Name(i)] \in {"none", "stop"} /\ call[i].step = "stopped"
  BY <1>1 DEF WaitStopped, Shape, StopShape
<1>3. CASE svc[Name(i)].state = "stopped" /\ call[i].f = "dhcp_stop"
  <2> DEFINE c == [f |-> "dhcp_stop", step |-> "fail"]
  <2>1. c \in CallType
    BY DEF CallType, Stopping
  <2>2. /\ call' = [call EXCEPT ![i] = c] /\ ret' = [ret EXCEPT ![i] = ret[i]]
        /\ clean' = [clean EXCEPT ![i] = clean[i]] /\ UNCHANGED <<svc, result, ctl>>
    BY <1>3 DEF WaitStopped, At, UtilsInv, UtilsTypeOK
  <2>3. Shape(c, ret[i], clean[i], svc[Name(i)], result[Name(i)], ctl[Name(i)])
    BY <1>1, <1>2, <1>3 DEF Shape, StopShape, StartShape
  <2> QED BY <1>1, <2>1, <2>2, <2>3, CallerReads
<1>4. CASE svc[Name(i)].state = "stopped" /\ call[i].f # "dhcp_stop"
  <2> DEFINE c == [f |-> call[i].f, step |-> "done"]
  <2>1. c \in CallType /\ c.step = "done" /\ c.f = call[i].f
    BY <1>1 DEF CallType
  <2>2. /\ call' = [call EXCEPT ![i] = c] /\ ret' = [ret EXCEPT ![i] = 0]
        /\ clean' = [clean EXCEPT ![i] = "stopped"] /\ UNCHANGED <<svc, result, ctl>>
    BY <1>4 DEF WaitStopped, Return, At
  <2> HIDE DEF c
  <2>3. Shape(c, 0, "stopped", svc[Name(i)], result[Name(i)], ctl[Name(i)])
    BY <1>2, <1>4, <2>1 DEF Shape, StopShape, StartShape, Ended
  <2> QED BY <1>1, <2>1, <2>2, <2>3, CallerReads
<1>5. CASE svc[Name(i)].state # "stopped"
  BY <1>2, <1>5, MissedInv DEF WaitStopped
<1> QED BY <1>3, <1>4, <1>5

(* dhcp_stop writes the result after init has served its request.          *)
LEMMA StopFailsInv ==
    ASSUME OwnService, UtilsInv, NEW i \in Interfaces, StopFails(i)
    PROVE  UtilsInv'
<1> DEFINE n == Name(i)
           c == [f |-> call[i].f, step |-> "done"]
           w == [result[n] EXCEPT !.value = "failed", !.old = TRUE]
<1>1. /\ n \in Names /\ call[i] \in CallType /\ 0 \in CodeType /\ "stopped" \in CleanType
      /\ svc[n] \in SvcType /\ result[n] \in ResultType /\ ctl[n] \in CtlType
      /\ Shape(call[i], ret[i], clean[i], svc[n], result[n], ctl[n])
  BY NameType, LocalTypes DEF CodeType, CleanType
<1>2. /\ c \in CallType /\ c.step = "done" /\ w \in ResultType /\ w.value = "failed"
  BY <1>1 DEF CallType, ResultType
<1>3. /\ call' = [call EXCEPT ![i] = c] /\ ret' = [ret EXCEPT ![i] = 0]
      /\ clean' = [clean EXCEPT ![i] = "stopped"] /\ svc' = [svc EXCEPT ![n] = svc[n]]
      /\ result' = [result EXCEPT ![n] = w] /\ ctl' = [ctl EXCEPT ![n] = ctl[n]]
      /\ ctl[n] = "none" /\ call[i].step = "fail"
  BY <1>1 DEF StopFails, Return, At, SetResult, UtilsInv, UtilsTypeOK
<1> HIDE DEF c, w
<1>4. Shape(c, 0, "stopped", svc[n], w, ctl[n])
  BY <1>1, <1>2, <1>3 DEF Shape, StopShape, StartShape, Ended
<1> QED BY <1>1, <1>2, <1>3, <1>4, CallerStep

(* fill_ip_info reads the rest, and goes round its loop: only the caller   *)
(* moves.                                                                  *)
LEMMA FillInv ==
    ASSUME OwnService, UtilsInv, NEW i \in Interfaces, fill_ip_info(i) \/ Shift(i)
    PROVE  UtilsInv'
<1>1. PICK r \in CodeType, c \in CallType :
        /\ ret' = [ret EXCEPT ![i] = r] /\ call' = [call EXCEPT ![i] = c]
        /\ c.f = "dhcp_get_results" /\ c.step \in {"shift", "done"}
  <2>1. /\ call[i] \in CallType /\ ret[i] \in CodeType /\ {0, -1} \subseteq CodeType
        /\ Shape(call[i], ret[i], clean[i], svc[Name(i)], result[Name(i)], ctl[Name(i)])
    BY LocalTypes DEF CodeType
  <2>2. call[i].f = "dhcp_get_results"
    BY <2>1 DEF fill_ip_info, Shift, Shape, StopShape
  <2>3. \A s \in {"shift", "done"} : [f |-> call[i].f, step |-> s] \in CallType
    BY <2>1 DEF CallType
  <2>4. call = [call EXCEPT ![i] = call[i]] /\ ret = [ret EXCEPT ![i] = ret[i]]
    BY DEF UtilsInv, UtilsTypeOK
  <2> QED BY <2>1, <2>2, <2>3, <2>4 DEF fill_ip_info, Shift, Return, At
<1>2. /\ clean[i] \in CleanType
      /\ Shape(call[i], ret[i], clean[i], svc[Name(i)], result[Name(i)], ctl[Name(i)])
  BY LocalTypes
<1>3. clean' = [clean EXCEPT ![i] = clean[i]] /\ UNCHANGED <<svc, result, ctl>>
  BY DEF fill_ip_info, Shift, UtilsInv, UtilsTypeOK
<1>4. call[i].step \in {"fill", "shift"}
  BY DEF fill_ip_info, Shift
<1>5. Shape(c, r, clean[i], svc[Name(i)], result[Name(i)], ctl[Name(i)])
  BY <1>1, <1>2, <1>4 DEF Shape, StopShape, StartShape
<1> QED BY <1>1, <1>2, <1>3, <1>5, CallerReads

-----------------------------------------------------------------------------
(* The invariant holds in the beginning, when every service may be taken   *)
(* for one that has ended.                                                 *)
LEMMA InitInv == UtilsInit => UtilsInv
<1> SUFFICES ASSUME UtilsInit PROVE UtilsInv
  OBVIOUS
<1>1. UtilsTypeOK
  <2>1. /\ [f |-> "none", step |-> "done"] \in CallType /\ 0 \in CodeType
        /\ "stopped" \in CleanType
    BY DEF CallType, CodeType, CleanType
  <2>2. /\ [state |-> "", old |-> FALSE] \in SvcType /\ "none" \in CtlType
        /\ [value |-> "", old |-> FALSE, mask |-> Absent] \in ResultType
    BY DEF SvcType, CtlType, ResultType, Masks
  <2> QED BY <2>1, <2>2 DEF UtilsInit, UtilsTypeOK
<1>2. ASSUME NEW i \in Interfaces
      PROVE  Shape(call[i], ret[i], clean[i], svc[Name(i)], result[Name(i)], ctl[Name(i)])
  BY NameType DEF UtilsInit, Shape, StopShape, StartShape, Ended
<1> QED BY <1>1, <1>2 DEF UtilsInv

(* Every step of a caller, of init and of a daemon keeps it.               *)
LEMMA StepInv == ASSUME OwnService, UtilsInv, [UtilsNext]_utilsVars PROVE UtilsInv'
<1>1. CASE Daemons
  BY <1>1, TakesInv, ReapsInv, WritesInv DEF Daemons
<1>2. ASSUME NEW i \in Interfaces, Calls(i) PROVE UtilsInv'
  BY <1>2, StartInv, RenewInv, StopInv, ResultsInv DEF Calls
<1>3. ASSUME NEW i \in Interfaces, Running(i) PROVE UtilsInv'
  BY <1>3, RequestInv, WaitRunningInv, WaitResultInv, WaitStoppedInv, StopFailsInv, FillInv
  DEF Running
<1>4. CASE UNCHANGED utilsVars
  BY <1>4 DEF utilsVars, UtilsInv, UtilsTypeOK
<1> QED BY <1>1, <1>2, <1>3, <1>4 DEF UtilsNext

(* The inductive invariant: of the callers and services that have each     *)
(* other to themselves.                                                    *)
THEOREM UtilsInvariant == ASSUME OwnService PROVE UtilsSpec => []UtilsInv
<1>1. UtilsInit => UtilsInv
  BY InitInv
<1>2. UtilsInv /\ [UtilsNext]_utilsVars => UtilsInv'
  BY StepInv
<1> QED BY <1>1, <1>2, PTL DEF UtilsSpec

(* dhcp_start on a service that was stopped returns the result of its own  *)
(* daemon, however the requests, the daemons and the waits interleave.     *)
THEOREM StartIsFresh == ASSUME OwnService PROVE UtilsSpec => []FreshStart
<1>1. ASSUME UtilsInv, NEW i \in Interfaces,
             call[i] = [f |-> "dhcp_start", step |-> "done"], ret[i] = 0, clean[i] = "started"
      PROVE  result[Name(i)].value # "" /\ ~ result[Name(i)].old
  <2>1. StartShape(call[i], ret[i], clean[i], svc[Name(i)], result[Name(i)])
    BY <1>1 DEF UtilsInv, Shape
  <2>2. call[i].f = "dhcp_start" /\ call[i].step = "done"
    BY <1>1
  <2> QED BY <1>1, <2>1, <2>2 DEF StartShape
<1>2. UtilsInv => FreshStart
  BY <1>1 DEF FreshStart
<1> QED BY <1>2, UtilsInvariant, PTL

(* After dhcp_stop has returned 0 no daemon runs, none is on its way, and  *)
(* the result says so.                                                     *)
THEOREM StopIsFinal == ASSUME OwnService PROVE UtilsSpec => []StoppedStays
<1>1. UtilsInv => StoppedStays
  BY DEF UtilsInv, Shape, StopShape, StoppedStays
<1> QED BY <1>1, UtilsInvariant, PTL

-----------------------------------------------------------------------------
(* The loop of fill_ip_info over the bits of a mask, for every width.  It  *)
(* concerns the caller alone: interfaces may share their service here.     *)

InfoType == [mask : Masks, rest : SUBSET (1..Width), p : 0..Width, prefix : -1..Width]

(* After p rounds of the loop the mask began with as many ones, and the    *)
(* rest is what followed them.                                             *)
Rounds(x) ==
    /\ x.mask \subseteq 1..Width
    /\ 1..x.p \subseteq x.mask
    /\ x.rest = {b - x.p : b \in x.mask \ (1..x.p)}

(* What dhcp_get_results has told its caller by r and info.                *)
Exact(r, x) ==
    \/ r = 0 /\ x.prefix \in 0..Width /\ x.mask = 1..x.prefix
    \/ r = 0 /\ x.prefix = Unwritten /\ x.mask = Absent
    \/ r = -1 /\ x.prefix = Unwritten /\ \A p \in 0..Width : x.mask # 1..p

(* A caller c, its code r and its info x: until the end of the loop        *)
(* nothing is written, and what is written then is exact.                  *)
Told(c, r, x) ==
    /\ c.f = "dhcp_get_results" => c.step \in {"fill", "shift", "done"}
    /\ c.f = "dhcp_get_results" /\ c.step = "done" => Exact(r, x)
    /\ c.step \in {"fill", "shift"} => x.prefix = Unwritten
    /\ c.step = "fill" => x = Unread
    /\ c.step = "shift" => Rounds(x)

PrefixInv ==
    /\ call \in [Interfaces -> CallType] /\ info \in [Interfaces -> InfoType]
    /\ ret \in [Interfaces -> {0, -1}]
    /\ svc \in [Names -> SvcType] /\ result \in [Names -> ResultType]
    /\ \A i \in Interfaces : Told(call[i], ret[i], info[i])

LEMMA UnreadType == Unread \in InfoType
BY UtilsAssumption DEF Unread, InfoType, Unwritten, Masks

(* Neither of the two that are no masks is all leading ones.               *)
LEMMA NotPrefixes == \A p \in 0..Width : NoMask # 1..p /\ Absent # 1..p
<1>1. 0 \in NoMask /\ -1 \in Absent
  BY DEF NoMask, Absent
<1>2. \A p \in 0..Width : 0 \notin 1..p /\ -1 \notin 1..p
  OBVIOUS
<1> QED BY <1>1, <1>2

(* A round that shifts: one more leading one.                              *)
LEMMA RoundShifts ==
    ASSUME NEW x \in InfoType, Rounds(x), x.p # Width, 1 \in x.rest
    PROVE  LET y == [x EXCEPT !.rest = Shifted(x.rest), !.p = x.p + 1]
           IN  y \in InfoType /\ Rounds(y) /\ y.prefix = x.prefix
<1> DEFINE p == x.p
           y == [x EXCEPT !.rest = Shifted(x.rest), !.p = p + 1]
<1> USE UtilsAssumption
<1>1. /\ Width \in Nat /\ p \in Int /\ p + 1 \in 0..Width /\ x.mask \subseteq 1..Width
      /\ y.mask = x.mask /\ y.rest = Shifted(x.rest) /\ y.p = p + 1
      /\ y.prefix = x.prefix
  BY DEF InfoType, Rounds
<1>2. PICK b \in x.mask \ (1..p) : 1 = b - p
  BY DEF Rounds
<1>3. p + 1 \in x.mask
  BY <1>1, <1>2
<1>4. 1..(p + 1) \subseteq x.mask
  BY <1>1, <1>3 DEF Rounds
<1>5. Shifted(x.rest) = {c - (p + 1) : c \in x.mask \ (1..(p + 1))}
  <2>1. ASSUME NEW s \in Shifted(x.rest)
        PROVE  s \in {c - (p + 1) : c \in x.mask \ (1..(p + 1))}
    <3>1. PICK r \in x.rest \ {1} : s = r - 1
      BY DEF Shifted
    <3>2. PICK c \in x.mask \ (1..p) : r = c - p
      BY <3>1 DEF Rounds
    <3>3. c \in x.mask \ (1..(p + 1)) /\ s = c - (p + 1)
      BY <1>1, <3>1, <3>2
    <3> QED BY <3>3
  <2>2. ASSUME NEW c \in x.mask \ (1..(p + 1)) PROVE c - (p + 1) \in Shifted(x.rest)
    <3>1. c - p \in x.rest \ {1} /\ c - (p + 1) = (c - p) - 1
      BY <1>1 DEF Rounds
    <3> QED BY <3>1 DEF Shifted
  <2> QED BY <2>1, <2>2
<1>6. Shifted(x.rest) \subseteq 1..Width
  BY <1>1 DEF Shifted, InfoType
<1>7. y \in InfoType
  <2>1. Shifted(x.rest) \in SUBSET (1..Width) /\ p + 1 \in 0..Width /\ x.mask \in Masks
    BY <1>1, <1>6 DEF InfoType
  <2> QED BY <2>1 DEF InfoType
<1> HIDE DEF y, p
<1> QED BY <1>1, <1>4, <1>5, <1>7 DEF Rounds, y, p

(* The loop ends where the mask is used up ...                             *)
LEMMA LoopEnds ==
    ASSUME NEW x \in InfoType, Rounds(x), x.p = Width \/ x.rest = {}
    PROVE  x.mask = 1..x.p
<1> USE UtilsAssumption
<1>1. Width \in Nat /\ x.p \in 0..Width /\ x.mask \subseteq 1..Width
  BY DEF InfoType, Rounds
<1>2. x.mask \ (1..x.p) = {}
  BY <1>1 DEF Rounds
<1> QED BY <1>1, <1>2 DEF Rounds

(* ... or at a zero with a one behind it: no prefix is like that.          *)
LEMMA LoopRefuses ==
    ASSUME NEW x \in InfoType, Rounds(x), x.rest # {}, 1 \notin x.rest
    PROVE  \A p \in 0..Width : x.mask # 1..p
<1> USE UtilsAssumption
<1>1. Width \in Nat /\ x.p \in 0..Width /\ x.mask \subseteq 1..Width
  BY DEF InfoType, Rounds
<1>2. PICK b \in x.mask \ (1..x.p) : TRUE
  BY DEF Rounds
<1>3. x.p + 1 \notin x.mask /\ b > x.p + 1
  <2>1. \A c \in x.mask \ (1..x.p) : c - x.p # 1
    BY DEF Rounds
  <2> QED BY <1>1, <1>2, <2>1
<1> QED BY <1>1, <1>2, <1>3

(* A step of a caller, and of nobody else.                                 *)
LEMMA PrefixCaller ==
    ASSUME PrefixInv, NEW i \in Interfaces, NEW c \in CallType, NEW r \in {0, -1},
           NEW x \in InfoType, call' = [call EXCEPT ![i] = c],
           ret' = [ret EXCEPT ![i] = r], info' = [info EXCEPT ![i] = x],
           svc' \in [Names -> SvcType], result' \in [Names -> ResultType], Told(c, r, x)
    PROVE  PrefixInv'
<1>1. /\ call' \in [Interfaces -> CallType] /\ info' \in [Interfaces -> InfoType]
      /\ ret' \in [Interfaces -> {0, -1}]
  BY DEF PrefixInv
<1>2. ASSUME NEW k \in Interfaces PROVE Told(call'[k], ret'[k], info'[k])
  <2>1. /\ call'[k] = IF k = i THEN c ELSE call[k]
        /\ ret'[k] = IF k = i THEN r ELSE ret[k]
        /\ info'[k] = IF k = i THEN x ELSE info[k]
    BY DEF PrefixInv
  <2> QED BY <2>1 DEF PrefixInv
<1> QED BY <1>1, <1>2 DEF PrefixInv

(* The other functions tell their caller nothing of a prefix.              *)
LEMMA PrefixOthers ==
    ASSUME PrefixInv, NEW i \in Interfaces, Calls(i) \/ Running(i),
           ~ dhcp_get_results(i), ~ fill_ip_info(i), ~ Shift(i)
    PROVE  PrefixInv'
<1> DEFINE Other == {"ctl", "running", "result", "stopped", "fail", "done"}
           F == {"dhcp_start", "dhcp_start_renew"} \cup Stopping
<1>1. /\ call[i] \in CallType /\ info[i] \in InfoType /\ ret[i] \in {0, -1}
      /\ Name(i) \in Names /\ Told(call[i], ret[i], info[i])
  BY NameType DEF PrefixInv
<1>2. /\ UNCHANGED info /\ (Running(i) => call[i].step \in Other \ {"done"})
  BY DEF Calls, Running, dhcp_start, dhcp_start_renew, dhcp_stop,
         Request, WaitRunning, WaitResult, WaitStopped, StopFails
<1>3. PICK c \in CallType : /\ call' = [call EXCEPT ![i] = c]
                            /\ c.step \in Other /\ c.f # "dhcp_get_results"
  <2>1. \A f \in F : \A s \in Other : [f |-> f, step |-> s] \in CallType
    BY DEF CallType
  <2>2. CASE Calls(i)
    <3>1. PICK f \in F, t \in Other : call' = [call EXCEPT ![i] = [f |-> f, step |-> t]]
      BY <2>2 DEF Calls, dhcp_start, dhcp_start_renew, dhcp_stop, At
    <3>2. f # "dhcp_get_results"
      BY DEF Stopping
    <3> QED BY <2>1, <3>1, <3>2
  <2>3. CASE Running(i)
    <3>1. call[i].f # "dhcp_get_results" /\ call[i].step \in Other
      BY <1>1, <1>2, <2>3 DEF Told
    <3>2. \A s \in Other : [f |-> call[i].f, step |-> s] \in CallType
      BY <1>1 DEF CallType
    <3>3. call = [call EXCEPT ![i] = call[i]]
      BY DEF PrefixInv
    <3>4. CASE Request(i)
      BY <3>1, <3>2, <3>4 DEF Request, At
    <3>5. CASE WaitRunning(i) \/ WaitResult(i)
      BY <1>1, <3>1, <3>2, <3>3, <3>5 DEF WaitRunning, WaitResult, Missed, Return, At
    <3>6. CASE WaitStopped(i) \/ StopFails(i)
      <4>1. \/ UNCHANGED call
            \/ \E s \in Other : call' = [call EXCEPT ![i] = [f |-> call[i].f, step |-> s]]
            \/ \E s \in Other : call' = [call EXCEPT ![i] = [f |-> "dhcp_stop", step |-> s]]
        BY <3>6 DEF WaitStopped, StopFails, Missed, Return, At
      <4>2. \A s \in Other : [f |-> "dhcp_stop", step |-> s] \in CallType
        BY <2>1 DEF Stopping
      <4> QED BY <1>1, <3>1, <3>2, <3>3, <4>1, <4>2
    <3> QED BY <2>3, <3>4, <3>5, <3>6 DEF Running
  <2> QED BY <2>2, <2>3
<1>4. PICK r \in {0, -1} : ret' = [ret EXCEPT ![i] = r]
  <2>1. ret = [ret EXCEPT ![i] = ret[i]]
    BY DEF PrefixInv
  <2>2. CASE UNCHANGED ret
    BY <1>1, <2>1, <2>2
  <2>3. CASE Running(i)
    <3>1. UNCHANGED ret \/ \E r \in {0, -1} : Return(i, r)
      BY <2>3 DEF Running, Request, WaitRunning, WaitResult, WaitStopped, StopFails, Missed
    <3> QED BY <2>2, <3>1 DEF Return
  <2> QED BY <2>2, <2>3 DEF Calls, dhcp_start, dhcp_start_renew, dhcp_stop
<1>5. svc' \in [Names -> SvcType]
  BY <1>1 DEF PrefixInv, SvcType, Calls, Running, dhcp_start, dhcp_start_renew, dhcp_stop,
         Request, WaitRunning, WaitResult, WaitStopped, StopFails
<1>6. result' \in [Names -> ResultType]
  <2>1. CASE UNCHANGED result
    BY <2>1 DEF PrefixInv
  <2>2. ASSUME NEW v \in {"", "failed"}, SetResult(Name(i), v)
        PROVE  result' \in [Names -> ResultType]
    BY <1>1, <2>2 DEF SetResult, PrefixInv, ResultType
  <2> QED BY <2>1, <2>2 DEF Calls, Running, dhcp_start, dhcp_start_renew, dhcp_stop,
         Request, WaitRunning, WaitResult, WaitStopped, StopFails
<1>7. info' = [info EXCEPT ![i] = info[i]]
  BY <1>2 DEF PrefixInv
<1>8. Told(c, r, info[i])
  BY <1>3 DEF Told
<1> QED BY <1>1, <1>3, <1>4, <1>5, <1>6, <1>7, <1>8, PrefixCaller

(* dhcp_get_results: no result is a refusal, with nothing written.         *)
LEMMA PrefixCalled == ASSUME PrefixInv, NEW i \in Interfaces, dhcp_get_results(i) PROVE PrefixInv'
<1> DEFINE c(s) == [f |-> "dhcp_get_results", step |-> s]
<1>1. /\ \A s \in {"fill", "done"} : /\ c(s) \in CallType /\ c(s).step = s
                                      /\ c(s).f = "dhcp_get_results"
      /\ svc' \in [Names -> SvcType] /\ result' \in [Names -> ResultType]
      /\ ret[i] \in {0, -1} /\ ret = [ret EXCEPT ![i] = ret[i]]
      /\ info' = [info EXCEPT ![i] = Unread]
  BY DEF dhcp_get_results, PrefixInv, CallType
<1>2. Unread.prefix = Unwritten /\ Unread.mask = Absent
  BY DEF Unread
<1>3. CASE result[Name(i)].value = "ok"
  <2>1. call' = [call EXCEPT ![i] = c("fill")] /\ ret' = [ret EXCEPT ![i] = ret[i]]
    BY <1>1, <1>3 DEF dhcp_get_results, At
  <2> HIDE DEF c
  <2>2. Told(c("fill"), ret[i], Unread)
    BY <1>1, <1>2 DEF Told
  <2> QED BY <1>1, <2>1, <2>2, UnreadType, PrefixCaller
<1>4. CASE result[Name(i)].value # "ok"
  <2>1. call' = [call EXCEPT ![i] = c("done")] /\ ret' = [ret EXCEPT ![i] = -1]
    BY <1>4 DEF dhcp_get_results
  <2> HIDE DEF c
  <2>2. Told(c("done"), -1, Unread)
    BY <1>1, <1>2, NotPrefixes DEF Told, Exact
  <2> QED BY <1>1, <2>1, <2>2, UnreadType, PrefixCaller
<1> QED BY <1>3, <1>4

(* fill_ip_info reads the mask: there is nothing to shift, or all of it.   *)
LEMMA PrefixReads == ASSUME PrefixInv, NEW i \in Interfaces, fill_ip_info(i) PROVE PrefixInv'
<1> DEFINE m == result[Name(i)].mask
           c(s) == [f |-> call[i].f, step |-> s]
           x == [Unread EXCEPT !.mask = m, !.rest = m \cap 1..Width]
<1> USE UtilsAssumption
<1>1. /\ m \in Masks /\ call[i].step = "fill" /\ info[i] = Unread
      /\ svc' \in [Names -> SvcType] /\ result' \in [Names -> ResultType]
      /\ ret[i] \in {0, -1} /\ ret = [ret EXCEPT ![i] = ret[i]]
  BY NameType DEF fill_ip_info, PrefixInv, ResultType, Told
<1>2. \A s \in {"shift", "done"} : c(s) \in CallType /\ c(s).step = s /\ c(s).f = call[i].f
  BY DEF PrefixInv, CallType
<1>3. info' = [info EXCEPT ![i] = x]
  BY <1>1 DEF fill_ip_info, PrefixInv
<1>4. /\ x \in InfoType /\ x.mask = m /\ x.rest = m \cap 1..Width
      /\ x.p = 0 /\ x.prefix = Unwritten
  BY <1>1, UnreadType DEF InfoType, Unread
<1>5. NoMask # Absent
  BY DEF NoMask, Absent
<1>6. CASE m = Absent
  <2>1. call' = [call EXCEPT ![i] = c("done")] /\ ret' = [ret EXCEPT ![i] = 0]
    BY <1>5, <1>6 DEF fill_ip_info, Return, At
  <2> HIDE DEF x, c
  <2>2. Told(c("done"), 0, x)
    BY <1>2, <1>4, <1>6 DEF Told, Exact
  <2> QED BY <1>1, <1>2, <1>3, <1>4, <2>1, <2>2, PrefixCaller
<1>7. CASE m = NoMask
  <2>1. call' = [call EXCEPT ![i] = c("done")] /\ ret' = [ret EXCEPT ![i] = -1]
    BY <1>5, <1>7 DEF fill_ip_info, Return, At
  <2> HIDE DEF x, c
  <2>2. Told(c("done"), -1, x)
    BY <1>2, <1>4, <1>7, NotPrefixes DEF Told, Exact
  <2> QED BY <1>1, <1>2, <1>3, <1>4, <2>1, <2>2, PrefixCaller
<1>8. CASE m \notin {NoMask, Absent}
  <2>1. call' = [call EXCEPT ![i] = c("shift")] /\ ret' = [ret EXCEPT ![i] = ret[i]]
    BY <1>1, <1>8 DEF fill_ip_info, At
  <2>2. m \subseteq 1..Width
    BY <1>1, <1>8 DEF Masks
  <2>3. Rounds(x)
    <3>1. m \cap 1..Width = {b - 0 : b \in m \ (1..0)}
      BY <2>2
    <3> QED BY <1>4, <2>2, <3>1 DEF Rounds
  <2> HIDE DEF x, c
  <2>4. Told(c("shift"), ret[i], x)
    BY <1>2, <1>4, <2>3 DEF Told
  <2> QED BY <1>1, <1>2, <1>3, <1>4, <2>1, <2>4, PrefixCaller
<1> QED BY <1>6, <1>7, <1>8

(* One round of the loop.                                                  *)
LEMMA PrefixRound == ASSUME PrefixInv, NEW i \in Interfaces, Shift(i) PROVE PrefixInv'
<1> DEFINE x == info[i]
           c == [f |-> call[i].f, step |-> "done"]
<1>1. /\ x \in InfoType /\ Rounds(x) /\ x.prefix = Unwritten
      /\ c \in CallType /\ c.step = "done"
      /\ call[i] \in CallType /\ call[i].step = "shift" /\ Told(call[i], ret[i], x)
      /\ svc' \in [Names -> SvcType] /\ result' \in [Names -> ResultType]
      /\ ret[i] \in {0, -1} /\ ret = [ret EXCEPT ![i] = ret[i]]
  BY DEF Shift, PrefixInv, CallType, Told
<1>2. CASE x.p = Width \/ x.rest = {}
  <2> DEFINE y == [x EXCEPT !.prefix = x.p]
  <2>1. /\ call' = [call EXCEPT ![i] = c] /\ ret' = [ret EXCEPT ![i] = 0]
        /\ info' = [info EXCEPT ![i] = y]
    BY <1>2 DEF Shift, Return, At, PrefixInv
  <2>2. y \in InfoType /\ y.prefix = x.p /\ y.mask = x.mask /\ x.p \in 0..Width
    BY <1>1, UtilsAssumption DEF InfoType
  <2>3. x.mask = 1..x.p
    BY <1>1, <1>2, LoopEnds
  <2> HIDE DEF x, y, c
  <2>4. Told(c, 0, y)
    BY <1>1, <2>2, <2>3 DEF Told, Exact
  <2> QED BY <1>1, <2>1, <2>2, <2>4, PrefixCaller
<1>3. CASE x.p # Width /\ x.rest # {} /\ 1 \notin x.rest
  <2>1. /\ call' = [call EXCEPT ![i] = c] /\ ret' = [ret EXCEPT ![i] = -1]
        /\ info' = [info EXCEPT ![i] = x]
    BY <1>3 DEF Shift, Return, At, PrefixInv
  <2>2. \A p \in 0..Width : x.mask # 1..p
    BY <1>1, <1>3, LoopRefuses
  <2> HIDE DEF x, c
  <2>3. Told(c, -1, x)
    BY <1>1, <2>2 DEF Told, Exact
  <2> QED BY <1>1, <2>1, <2>3, PrefixCaller
<1>4. CASE x.p # Width /\ x.rest # {} /\ 1 \in x.rest
  <2> DEFINE y == [x EXCEPT !.rest = Shifted(x.rest), !.p = x.p + 1]
  <2>1. /\ call' = [call EXCEPT ![i] = call[i]] /\ ret' = [ret EXCEPT ![i] = ret[i]]
        /\ info' = [info EXCEPT ![i] = y]
    BY <1>1, <1>4 DEF Shift, PrefixInv
  <2>2. y \in InfoType /\ Rounds(y) /\ y.prefix = x.prefix
    BY <1>1, <1>4, RoundShifts
  <2> HIDE DEF x, y
  <2>3. Told(call[i], ret[i], y)
    BY <1>1, <2>2 DEF Told
  <2> QED BY <1>1, <2>1, <2>2, <2>3, PrefixCaller
<1> QED BY <1>2, <1>3, <1>4

(* init and the daemons have no part in the loop: a mask written meanwhile *)
(* is not the one it looks at.                                             *)
LEMMA PrefixDaemons == PrefixInv /\ Daemons => PrefixInv'
<1> SUFFICES ASSUME PrefixInv, NEW n \in Names,
                    InitTakes(n) \/ InitReaps(n) \/ DaemonWrites(n)
             PROVE  PrefixInv'
  BY DEF Daemons
<1>1. UNCHANGED <<call, ret, info>>
  BY DEF InitTakes, InitReaps, DaemonWrites
<1>2. /\ svc \in [Names -> SvcType] /\ result \in [Names -> ResultType]
      /\ svc[n] \in SvcType /\ result[n] \in ResultType
  BY DEF PrefixInv
<1>3. svc' \in [Names -> SvcType]
  <2>1. PICK v \in SvcType : svc' = [svc EXCEPT ![n] = v]
    <3>1. svc = [svc EXCEPT ![n] = svc[n]]
      BY <1>2
    <3>2. /\ [state |-> "running", old |-> FALSE] \in SvcType
          /\ \A s \in {"stopping", "stopped"} : [svc[n] EXCEPT !.state = s] \in SvcType
      BY <1>2 DEF SvcType
    <3>3. CASE InitTakes(n)
      BY <1>2, <3>1, <3>2, <3>3 DEF InitTakes
    <3>4. CASE InitReaps(n)
      BY <3>2, <3>4 DEF InitReaps
    <3>5. CASE DaemonWrites(n)
      BY <1>2, <3>1, <3>5 DEF DaemonWrites
    <3> QED BY <3>3, <3>4, <3>5
  <2> QED BY <1>2, <2>1
<1>4. result' \in [Names -> ResultType]
  <2>1. CASE UNCHANGED result
    BY <1>2, <2>1
  <2>2. CASE DaemonWrites(n)
    <3>1. /\ [result[n] EXCEPT !.value = "failed", !.old = svc[n].old] \in ResultType
          /\ \A m \in Masks : [value |-> "ok", old |-> svc[n].old, mask |-> m] \in ResultType
      BY <1>2 DEF SvcType, ResultType
    <3> QED BY <1>2, <2>2, <3>1 DEF DaemonWrites
  <2> QED BY <2>1, <2>2 DEF InitTakes, InitReaps
<1> QED BY <1>1, <1>3, <1>4 DEF PrefixInv

(* The loop is in step with the mask it was given, and has its prefix when *)
(* it is done, for every mask of every width, whoever shares the service.  *)
THEOREM PrefixInvariant == UtilsSpec => []PrefixInv
<1>1. UtilsInit => PrefixInv
  <2> SUFFICES ASSUME UtilsInit PROVE PrefixInv
    OBVIOUS
  <2>1. \A i \in Interfaces : Told(call[i], ret[i], info[i])
    BY DEF UtilsInit, Told
  <2>2. call \in [Interfaces -> CallType] /\ info \in [Interfaces -> InfoType]
    BY UnreadType DEF UtilsInit, CallType
  <2>3. /\ svc \in [Names -> SvcType] /\ result \in [Names -> ResultType]
        /\ ret \in [Interfaces -> {0, -1}]
    BY DEF UtilsInit, SvcType, ResultType, Masks
  <2> QED BY <2>1, <2>2, <2>3 DEF PrefixInv
<1>2. PrefixInv /\ [UtilsNext]_utilsVars => PrefixInv'
  <2> SUFFICES ASSUME PrefixInv, [UtilsNext]_utilsVars PROVE PrefixInv'
    OBVIOUS
  <2>1. CASE UNCHANGED utilsVars
    BY <2>1 DEF utilsVars, PrefixInv
  <2> QED BY <2>1, PrefixOthers, PrefixCalled, PrefixReads, PrefixRound, PrefixDaemons
          DEF UtilsNext
<1> QED BY <1>1, <1>2, PTL DEF UtilsSpec

(* dhcp_get_results writes the length of a mask that is all leading ones,  *)
(* refuses every other without writing anything, and succeeds without a    *)
(* prefix only where there is no mask.                                     *)
THEOREM PrefixesExact == UtilsSpec => []PrefixExact
<1>1. PrefixInv => PrefixExact
  BY DEF PrefixInv, Told, Exact, PrefixExact
<1> QED BY <1>1, PrefixInvariant, PTL
=============================================================================
