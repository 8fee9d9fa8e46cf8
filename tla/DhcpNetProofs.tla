---------------------------- MODULE DhcpNetProofs ----------------------------
(***************************************************************************)
(* Proofs about the DHCP clients and the server on their link, which       *)
(* loses, delays, reorders and duplicates.  The server on the link is the  *)
(* server of DhcpServer, so that all that DhcpServerProofs shows holds of  *)
(* it; and what an ACK on the link, or a device configured by one, says is *)
(* in the server's leases, in the name of that device.                     *)
(***************************************************************************)
EXTENDS DhcpNet, DhcpServerProofs

(* The timeouts that doubling reaches.                                     *)
Doubles(T) == /\ TimeoutInitial \in T
              /\ \A t \in T : t < TimeoutMax => 2 * t \in T

Timeouts == CHOOSE T \in SUBSET (TimeoutInitial..TimeoutMax) : Doubles(T)

Wire == [type : {"OFFER", "ACK", "NAK", "INFORMED", "BOOTP"}, hw : HW, xid : Nat,
         sid : Addr, yiaddr : Addr, until : Nat]

Info == [type : {"none", "OFFER", "ACK", "NAK", "INFORMED", "BOOTP"},
         ipaddr : Addr, serveraddr : Addr, until : Nat, to : HW \cup {Zero}]

Conf == [addr : Addr, by : {"OFFER", "ACK"}, until : Nat, to : HW \cup {Zero}]

CState == {"off", "selecting", "requesting", "returned"}

Sock == {"closed", "open", "bad"}

(* The types of all that the clients and the link have.                    *)
XidOK == /\ xid \in [Client -> LinkXids]
         /\ \A c \in Client : cstate[c] \in {"off", "selecting"} =>
                                 xid[c] = StartXid[c]

NetTypes ==
    /\ cstate \in [Client -> CState] /\ timeout \in [Client -> Timeouts]
    /\ XidOK /\ info \in [Client -> Info] /\ sock \in [Client -> Sock]
    /\ conf \in [Client -> Conf \cup {NoConf}]
    /\ toServer \subseteq LinkMsg /\ inbox \in [Client -> SUBSET Wire]
    /\ asked \in [Client -> SUBSET Addr]

(* There is such a set.                                                    *)
LEMMA TimeoutsOK ==
  Timeouts \in SUBSET (TimeoutInitial..TimeoutMax) /\ Doubles(Timeouts)
BY TimeoutAssumption DEF Timeouts, Doubles

(* Both transaction ids of a client.                                       *)
LEMMA LinkXidsOK ==
  /\ LinkXids \subseteq Nat
  /\ \A c \in Client : StartXid[c] \in LinkXids /\ StartXid[c] + 1 \in LinkXids
BY NetAssumption DEF LinkXids

(* What a client sends is one of the link's messages.                      *)
LEMMA TransmissionType ==
  ASSUME NEW c \in Client, NEW state \in {"selecting", "requesting"},
         NEW x \in LinkXids, NEW inf \in Info
  PROVE  /\ Transmission(c, state, x, inf) \in LinkMsg
         /\ Transmission(c, state, x, inf).hw = c
BY DEF Transmission, LinkMsg, Info

(* What the server is given is one of its messages.                        *)
LEMMA ReceivedType ==
  ASSUME NEW m \in LinkMsg
  PROVE  /\ Received(m) \in Messages
         /\ Received(m).hw = m.hw /\ m.hw \in Client
         /\ Received(m).clid = NoClid
         /\ Received(m).type = m.type /\ m.type \in {"DISCOVER", "REQUEST"}
         /\ m.type = "REQUEST" => /\ Received(m).req = m.req
                                  /\ m.req \in Addr
<1>1. Received(m) \in Messages
  BY NetAssumption DEF LinkMessages
<1>2. m.hw \in Client /\ m.type \in {"DISCOVER", "REQUEST"}
      /\ (m.type = "REQUEST" => m.req \in Addr)
  BY DEF LinkMsg
<1> QED
  BY <1>1, <1>2 DEF Received

(* What the server sends is a packet of the link.                          *)
LEMMA OnWireType ==
  ASSUME NEW r \in Reply
  PROVE  /\ OnWire(r) \in Wire
         /\ OnWire(r).type = r.type /\ OnWire(r).hw = r.hw
         /\ OnWire(r).until = r.until
         /\ r.yiaddr # NoAddr => OnWire(r).yiaddr = r.yiaddr
BY NetAssumption, AddrAssumption DEF OnWire, Wire, Reply

-----------------------------------------------------------------------------
(* A client sends msg, or nothing; its request is noted in asked.          *)
Sends(c, msg) == toServer' \in {toServer, toServer \cup {msg}}

(* What a client's send does to the sets kept of the link.                 *)
LEMMA AsksTypes ==
  ASSUME NetTypes, NEW c \in Client, NEW msg \in LinkMsg, Sends(c, msg), Asks(c)
  PROVE  toServer' \subseteq LinkMsg /\ asked' \in [Client -> SUBSET Addr]
<1>1. toServer' \subseteq LinkMsg
  BY DEF NetTypes, Sends
<1> DEFINE new == {m.req : m \in {x \in toServer' \ toServer :
                                    x.type = "REQUEST" /\ x.hw = c}}
<1>2. new \subseteq Addr
  BY <1>1 DEF LinkMsg
<1>3. asked' = [asked EXCEPT ![c] = @ \cup new]
  BY DEF Asks
<1> HIDE DEF new
<1> QED
  BY <1>1, <1>2, <1>3 DEF NetTypes

(* A client starts, retransmits, gives up or fails.                        *)
LEMMA ClientStepTypes ==
  ASSUME NetTypes, NEW c \in Client, ClientStep(c)
  PROVE  NetTypes'
<1>1. CASE Start(c)
  <2> DEFINE msg == Transmission(c, "selecting", xid[c], info[c])
  <2>1. msg \in LinkMsg
    BY TransmissionType DEF NetTypes, XidOK
  <2>2. Sends(c, msg)
    BY <1>1 DEF Start, Send, Sends
  <2> HIDE DEF msg
  <2>3. toServer' \subseteq LinkMsg /\ asked' \in [Client -> SUBSET Addr]
    BY <2>1, <2>2, AsksTypes DEF ClientStep
  <2> QED BY <1>1, <2>3 DEF Start, NetTypes, XidOK, CState, Sock
<1>2. CASE Retransmit(c)
  <2> DEFINE msg == Transmission(c, cstate[c], xid[c], info[c])
  <2>1. msg \in LinkMsg
    BY <1>2, TransmissionType DEF NetTypes, XidOK, Retransmit, Running
  <2>2. Sends(c, msg)
    BY <1>2 DEF Retransmit, Send, Sends
  <2> HIDE DEF msg
  <2>3. toServer' \subseteq LinkMsg /\ asked' \in [Client -> SUBSET Addr]
    BY <2>1, <2>2, AsksTypes DEF ClientStep
  <2>4. timeout' \in [Client -> Timeouts]
    BY <1>2, TimeoutsOK DEF Retransmit, NetTypes, Doubles
  <2> QED BY <1>2, <2>3, <2>4 DEF Retransmit, NetTypes, XidOK
<1>3. CASE StartFails(c) \/ GiveUp(c) \/ IoError(c)
  <2>1. toServer' = toServer
    BY <1>3 DEF StartFails, GiveUp, IoError
  <2>2. asked' \in [Client -> SUBSET Addr]
    <3>1. {m.req : m \in {x \in toServer' \ toServer :
                                    x.type = "REQUEST" /\ x.hw = c}} = {}
      BY <2>1
    <3> QED BY <3>1 DEF ClientStep, Asks, NetTypes
  <2>3. CASE StartFails(c)
    BY <2>1, <2>2, <2>3 DEF StartFails, NetTypes, XidOK, CState
  <2>4. CASE IoError(c)
    BY <2>1, <2>2, <2>4 DEF IoError, NetTypes, XidOK, CState
  <2>5. CASE GiveUp(c)
    <3>1. conf' \in [Client -> Conf \cup {NoConf}] /\ sock' \in [Client -> Sock]
      <4> DEFINE new == [addr |-> info[c].ipaddr, by |-> "OFFER",
                         until |-> info[c].until, to |-> info[c].to]
      <4>1. new \in Conf
        BY DEF NetTypes, Info, Conf
      <4>2. /\ conf' = [conf EXCEPT ![c] = new] \/ conf' = conf
            /\ sock' = [sock EXCEPT ![c] = "closed"] \/ sock' = sock
        BY <2>5 DEF GiveUp
      <4> HIDE DEF new
      <4> QED BY <4>1, <4>2 DEF NetTypes, Sock
    <3> QED BY <2>1, <2>2, <2>5, <3>1 DEF GiveUp, NetTypes, XidOK, CState
  <2> QED BY <1>3, <2>3, <2>4, <2>5
<1> QED
  BY <1>1, <1>2, <1>3 DEF ClientStep

(* A client takes a packet.                                                *)
LEMMA ClientRecvTypes ==
  ASSUME NetTypes, NEW c \in Client, NEW p \in inbox[c], ClientRecv(c, p)
  PROVE  NetTypes'
<1>1. p \in Wire
  BY DEF NetTypes
<1>2. /\ Take(c, p) /\ Decode(c, p) /\ Asks(c)
      /\ info' = [info EXCEPT ![c] = decode_dhcp_msg(p)]
  BY DEF ClientRecv, Take, TakeOffer, TakeAck, TakeNak, Ignore, Decode
<1>3. decode_dhcp_msg(p) \in Info
  BY <1>1 DEF decode_dhcp_msg, Wire, Info
<1>4. info' \in [Client -> Info] /\ info'[c] \in Info
  BY <1>2, <1>3 DEF NetTypes
<1>5. inbox' \in [Client -> SUBSET Wire]
  BY DEF ClientRecv, NetTypes
<1>6. CASE TakeOffer(c, p)
  <2> DEFINE msg == Transmission(c, "requesting", xid'[c], info'[c])
  <2>1. xid'[c] = StartXid[c] + 1 /\ xid' \in [Client -> LinkXids]
    BY <1>6, LinkXidsOK DEF TakeOffer, NetTypes, XidOK
  <2>2. msg \in LinkMsg
    BY <1>4, <2>1, LinkXidsOK, TransmissionType
  <2>3. Sends(c, msg)
    BY <1>6 DEF TakeOffer, Send, Sends
  <2> HIDE DEF msg
  <2>4. toServer' \subseteq LinkMsg /\ asked' \in [Client -> SUBSET Addr]
    BY <1>2, <2>2, <2>3, AsksTypes
  <2>5. XidOK'
    BY <1>6, <2>1 DEF TakeOffer, NetTypes, XidOK
  <2>6. timeout' \in [Client -> Timeouts]
    BY <1>6, TimeoutsOK DEF TakeOffer, NetTypes, Doubles
  <2> QED
    BY <1>4, <1>5, <1>6, <2>4, <2>5, <2>6 DEF TakeOffer, NetTypes, CState
<1>7. CASE TakeAck(c, p) \/ TakeNak(c, p) \/ Ignore(c, p)
  <2>1. toServer' = toServer
    BY <1>7 DEF TakeAck, TakeNak, Ignore
  <2>2. asked' \in [Client -> SUBSET Addr]
    <3>1. {m.req : m \in {x \in toServer' \ toServer :
                                    x.type = "REQUEST" /\ x.hw = c}} = {}
      BY <2>1
    <3> QED BY <1>2, <3>1 DEF Asks, NetTypes
  <2>3. conf' \in [Client -> Conf \cup {NoConf}]
    BY <1>1, <1>7 DEF TakeAck, TakeNak, Ignore, NetTypes, Conf, Wire
  <2>4. cstate' \in [Client -> CState] /\ sock' \in [Client -> Sock]
    BY <1>7 DEF TakeAck, TakeNak, Ignore, NetTypes, CState, Sock
  <2>5. XidOK'
    BY <1>7 DEF TakeAck, TakeNak, Ignore, NetTypes, XidOK
  <2>6. timeout' = timeout
    BY <1>7 DEF TakeAck, TakeNak, Ignore
  <2> QED
    BY <1>4, <1>5, <2>1, <2>2, <2>3, <2>4, <2>5, <2>6 DEF NetTypes
<1> QED
  BY <1>2, <1>6, <1>7 DEF Take

(* The server reads a packet, sends one, or does something else.           *)
LEMMA ServerTypes ==
  ASSUME Inv, NetTypes,
         (\E m \in toServer : ServerRecv(m)) \/ ServerSend \/ ServerStep
  PROVE  NetTypes'
<1>1. UNCHANGED <<clientVars, asked>>
  BY DEF ServerRecv, ServerSend, ServerStep, netVars
<1>2. toServer' \subseteq LinkMsg
  BY DEF ServerRecv, ServerSend, ServerStep, netVars, NetTypes
<1>3. inbox' \in [Client -> SUBSET Wire]
  <2>1. CASE ServerSend
    <3>1. reply # NoReply => OnWire(reply) \in Wire
      BY OnWireType DEF Inv, TypeOK
    <3> QED BY <2>1, <3>1 DEF ServerSend, NetTypes
  <2>2. CASE (\E m \in toServer : ServerRecv(m)) \/ ServerStep
    <3>1. inbox' = inbox
      BY <2>2 DEF ServerRecv, ServerStep, netVars
    <3> QED BY <3>1 DEF NetTypes
  <2> QED BY <2>1, <2>2
<1> QED
  BY <1>1, <1>2, <1>3 DEF NetTypes, XidOK, clientVars

(* A step on the link is a step of the server, or leaves it alone.         *)
LEMMA LinkStep == NetTypes /\ [NetNext]_allVars => [Next]_vars
<1> SUFFICES ASSUME NetTypes, [NetNext]_allVars PROVE [Next]_vars
  OBVIOUS
<1>1. ASSUME NEW m \in toServer, ServerRecv(m) PROVE [Next]_vars
  <2>1. Received(m) \in Messages
    BY ReceivedType DEF NetTypes
  <2> QED BY <1>1, <2>1 DEF ServerRecv, Next
<1>2. CASE ServerSend
  BY <1>2 DEF ServerSend, Next, Server
<1>3. CASE ServerStep
  BY <1>3 DEF ServerStep, Next, Server
<1>4. ASSUME NEW c \in Client,
             ClientStep(c) \/ \E p \in inbox[c] : ClientRecv(c, p)
      PROVE  [Next]_vars
  BY <1>4 DEF ClientStep, ClientRecv
<1>5. CASE UNCHANGED allVars
  BY <1>5 DEF allVars
<1> QED
  BY <1>1, <1>2, <1>3, <1>4, <1>5 DEF NetNext

(* Every step keeps the types.                                             *)
LEMMA NetTypesNext == Inv /\ NetTypes /\ [NetNext]_allVars => NetTypes'
<1> SUFFICES ASSUME Inv, NetTypes, [NetNext]_allVars PROVE NetTypes'
  OBVIOUS
<1>1. CASE (\E m \in toServer : ServerRecv(m)) \/ ServerSend \/ ServerStep
  BY <1>1, ServerTypes
<1>2. ASSUME NEW c \in Client, ClientStep(c) PROVE NetTypes'
  BY <1>2, ClientStepTypes
<1>3. ASSUME NEW c \in Client, NEW p \in inbox[c], ClientRecv(c, p) PROVE NetTypes'
  BY <1>3, ClientRecvTypes
<1>4. CASE UNCHANGED allVars
  BY <1>4 DEF allVars, clientVars, netVars, NetTypes, XidOK
<1> QED
  BY <1>1, <1>2, <1>3, <1>4 DEF NetNext

(* The clients start off.                                                  *)
LEMMA NetTypesInit == NetInit => NetTypes
<1> SUFFICES ASSUME NetInit PROVE NetTypes
  OBVIOUS
<1>1. NoInfo \in Info
  BY NetAssumption DEF NoInfo, Info
<1>2. XidOK
  BY LinkXidsOK DEF NetInit, ClientInit, XidOK
<1> QED
  BY <1>1, <1>2, TimeoutsOK
     DEF NetInit, ClientInit, NetTypes, CState, Sock, Doubles

(* The types of the link, and the invariant of its server, always hold.    *)
THEOREM LinkTypes == NetSpec => [](Inv /\ NetTypes)
<1>1. NetInit => Inv /\ NetTypes
  BY InitInv, NetTypesInit DEF NetInit
<1>2. Inv /\ NetTypes /\ [NetNext]_allVars => Inv' /\ NetTypes'
  BY LinkStep, NextInv, NetTypesNext
<1> QED
  BY <1>1, <1>2, PTL DEF NetSpec

(* do_dhcp's state, socket and address stay well formed, and the timeout   *)
(* between its bounds, whatever arrives in whatever order.                 *)
THEOREM NetTypeCorrect == NetSpec => []NetTypeOK
<1>1. NetTypes => NetTypeOK
  BY TimeoutsOK DEF NetTypes, NetTypeOK, CState, Sock, Info
<1> QED
  BY <1>1, LinkTypes, PTL

(* The server on the link is the server of DhcpServer, for clients that    *)
(* send what dhcpclient.c sends.                                           *)
THEOREM LinkHasServer == NetSpec => Spec
<1>1. NetInit => Init
  BY DEF NetInit
<1>2. Inv /\ NetTypes /\ [NetNext]_allVars => [Next]_vars
  BY LinkStep
<1> QED
  BY <1>1, <1>2, LinkTypes, PTL DEF NetSpec, Spec

-----------------------------------------------------------------------------
(* Acknowledgements.  A device that has asked for one address only never   *)
(* gives it up, so what an ACK on the link told it stays held until it     *)
(* runs out.                                                               *)
Only(c) == \E a : asked[c] = {a}

Holds(c, a, u) ==
    \E g \in held : g.hw = c /\ g.clid = NoClid /\ g.addr = a /\ g.until >= u

HeldAs(c, a, u) == a \in asked[c] /\ (Only(c) /\ u >= now => Holds(c, a, u))

AsksNoted == /\ \A c \in Client : IsFiniteSet(asked[c])
             /\ \A m \in toServer : m.type = "REQUEST" => m.req \in asked[m.hw]

ReplyNoted ==
    Granted(reply) => /\ reply.hw \in Client /\ reply.clid = NoClid
                      /\ reply.yiaddr \in asked[reply.hw]
                      /\ reply.until = now + LeaseTime

PacketsHeld ==
    \A c \in Client : \A p \in inbox[c] :
        p.type = "ACK" => p.hw \in Client /\ HeldAs(p.hw, p.yiaddr, p.until)

ConfsHeld ==
    \A c \in Client : conf[c] # NoConf /\ conf[c].by = "ACK" =>
                         HeldAs(c, conf[c].addr, conf[c].until)

AckInv == AsksNoted /\ ReplyNoted /\ PacketsHeld /\ ConfsHeld

(* Cardinality says it too.                                                *)
LEMMA OnlyOne ==
  ASSUME NEW c \in Client, IsFiniteSet(asked[c]), Cardinality(asked[c]) = 1
  PROVE  Only(c)
BY FS_Singleton DEF Only

(* On the link, one host is one device.                                    *)
LEMMA HostIsDevice ==
  ASSUME OneInterface, NEW x, NEW y, x.clid = NoClid, y.clid = NoClid,
         x.hw \in Client, y.hw \in Client
  PROVE  SameHost(x, y) <=> x.hw = y.hw
BY DEF OneInterface, SameHost, SameClient, Matches

(* So the devices can be told apart.                                       *)
LEMMA DevicesDistinct ==
  ASSUME OneInterface
  PROVE  /\ HostsDistinct
         /\ \A x \in Messages : x.clid = NoClid /\ x.hw \in Client
<1>1. \A x \in Messages : x.clid = NoClid /\ x.hw \in Client
  <2> SUFFICES ASSUME NEW x \in Messages PROVE x.clid = NoClid /\ x.hw \in Client
    OBVIOUS
  <2>1. PICK m \in LinkMsg : x = Received(m)
    BY NetAssumption DEF LinkMessages
  <2> QED BY <2>1, ReceivedType
<1>2. \A x, y \in Messages : SameHost(x, y) <=> x.hw = y.hw
  BY <1>1, HostIsDevice
<1> QED
  BY <1>1, <1>2 DEF HostsDistinct

-----------------------------------------------------------------------------
(* What dhcp_reply grants to a client of the link: the address it asked    *)
(* for, for the lease time from now.                                       *)
GrantsAsked(m, o) ==
    Granted(o.reply) => /\ m.type = "REQUEST" /\ o.reply.yiaddr = m.req
                        /\ o.reply.hw = m.hw /\ o.reply.clid = m.clid
                        /\ o.reply.until = now + LeaseTime

(* Nothing granted.                                                        *)
LEMMA NotGranted ==
  /\ \A d : ~Granted(Silent(d).reply)
  /\ \A d, m : ~Granted(Nak(d, m).reply)
  /\ \A d, m, a : ~Granted(Outcome(d, Packet("OFFER", m, a, now)).reply)
BY DEF Silent, Nak, Outcome, Packet, Granted

(* The REQUEST branch of dhcp_reply grants only the address asked for.     *)
LEMMA RequestGrantsAsked ==
  ASSUME NEW d, NEW m, m.type = "REQUEST", m.req # NoAddr, NEW clid, NEW lease,
         NEW cfg0, NEW cfg, NEW o \in Request(d, m, clid, lease, cfg0, cfg)
  PROVE  GrantsAsked(m, o)
<1>1. \A e, l, g : \A x \in Grant(e, m, clid, l, g, m.req) : GrantsAsked(m, x)
  <2>1. \A p, g : GrantsAsked(m, Ack(p, m, clid, g, m.req))
    BY DEF Ack, Outcome, Packet, GrantsAsked
  <2>2. \A e : GrantsAsked(m, Nak(e, m))
    BY NotGranted DEF GrantsAsked
  <2> QED BY <2>1, <2>2 DEF Grant
<1>2. \A e : GrantsAsked(m, Nak(e, m)) /\ GrantsAsked(m, Silent(e))
  BY NotGranted DEF GrantsAsked
<1>3. Wanted(m) = m.req
  BY DEF Wanted
<1> QED
  BY <1>1, <1>2, <1>3 DEF Request

(* So does dhcp_reply: to a DISCOVER it grants nothing.                    *)
LEMMA ReplyGrantsAsked ==
  ASSUME NEW d, NEW m, m.type \in {"DISCOVER", "REQUEST"},
         m.type = "REQUEST" => m.req # NoAddr, NEW o \in dhcp_reply(d, m)
  PROVE  GrantsAsked(m, o)
<1>1. ASSUME NEW lease, NEW x \in ReplyTo(d, m, lease) PROVE GrantsAsked(m, x)
  <2> DEFINE clid == EffClid(m, lease)
             cfg0 == find_config(m.hw, clid)
             cfg == find_config_by_name(cfg0, m.name)
  <2>1. CASE m.type = "DISCOVER"
    <3>1. x \in Discover(d, m, lease, cfg)
      BY <1>1, <2>1 DEF ReplyTo
    <3> QED BY <3>1, NotGranted DEF Discover, GrantsAsked
  <2>2. CASE m.type = "REQUEST"
    <3>1. x \in Request(d, m, clid, lease, cfg0, cfg)
      BY <1>1, <2>2 DEF ReplyTo
    <3> HIDE DEF clid, cfg0, cfg
    <3> QED BY <2>2, <3>1, RequestGrantsAsked
  <2> QED BY <2>1, <2>2
<1>2. \E lease : o \in ReplyTo(d, m, lease)
  BY DEF dhcp_reply
<1> QED
  BY <1>1, <1>2

-----------------------------------------------------------------------------
(* What was held as long as it says stays so, when the client asks for     *)
(* more and nothing is given up.                                           *)
LEMMA HeldStays ==
  ASSUME NEW c, NEW a, NEW u, HeldAs(c, a, u), asked[c] \subseteq asked'[c],
         now' = now, Only(c) /\ u >= now /\ Holds(c, a, u) => Holds(c, a, u)'
  PROVE  HeldAs(c, a, u)'
<1>1. Only(c)' => Only(c)
  BY DEF Only, HeldAs
<1> QED
  BY <1>1 DEF HeldAs

(* The packets and configurations of a step that leaves what is held as    *)
(* the clients on the link rely on it.                                     *)
LEMMA HeldFrame ==
  ASSUME NetTypes, AckInv, \A c \in Client : asked[c] \subseteq asked'[c], now' = now,
         \A c \in Client : \A a : \A u \in Nat :
            Only(c) /\ u >= now /\ Holds(c, a, u) => Holds(c, a, u)',
         NEW c \in Client
  PROVE  /\ \A p \in inbox[c] :
               p.type = "ACK" => p.hw \in Client /\ HeldAs(p.hw, p.yiaddr, p.until)'
         /\ conf[c] # NoConf /\ conf[c].by = "ACK" =>
               \A a, u : a = conf[c].addr /\ u = conf[c].until => HeldAs(c, a, u)'
<1>1. ASSUME NEW d \in Client, NEW a, NEW u \in Nat, HeldAs(d, a, u)
      PROVE  HeldAs(d, a, u)'
  BY <1>1, HeldStays
<1>2. ASSUME NEW p \in inbox[c], p.type = "ACK"
      PROVE  p.hw \in Client /\ HeldAs(p.hw, p.yiaddr, p.until)'
  <2>1. p.until \in Nat
    BY DEF NetTypes, Wire
  <2> QED BY <1>1, <1>2, <2>1 DEF AckInv, PacketsHeld
<1>3. ASSUME conf[c] # NoConf, conf[c].by = "ACK", NEW a, NEW u,
             a = conf[c].addr, u = conf[c].until
      PROVE  HeldAs(c, a, u)'
  <2>1. u \in Nat
    BY <1>3 DEF NetTypes, Conf
  <2> QED BY <1>1, <1>3, <2>1 DEF AckInv, ConfsHeld
<1> QED
  BY <1>2, <1>3

(* A client's request is noted before the server can see it.               *)
LEMMA AsksGrow ==
  ASSUME NetTypes, AckInv, NEW c \in Client, NEW msg \in LinkMsg, msg.hw = c,
         Sends(c, msg), Asks(c)
  PROVE  AsksNoted' /\ \A e \in Client : asked[e] \subseteq asked'[e]
<1> DEFINE new == {m.req : m \in {x \in toServer' \ toServer :
                                    x.type = "REQUEST" /\ x.hw = c}}
<1>1. \A m \in toServer' \ toServer : m = msg
  BY DEF Sends
<1>2. new = {} \/ new = {msg.req}
  BY <1>1
<1>3. \A m \in toServer' \ toServer :
         m.type = "REQUEST" => m.hw = c /\ m.req \in new
  BY <1>1
<1>4. asked' = [asked EXCEPT ![c] = @ \cup new]
  BY DEF Asks
<1> HIDE DEF new
<1>5. \A e \in Client : asked'[e] = IF e = c THEN asked[c] \cup new ELSE asked[e]
  BY <1>4 DEF NetTypes
<1>6. IsFiniteSet(asked[c] \cup new)
  <2>1. IsFiniteSet(asked[c])
    BY DEF AckInv, AsksNoted
  <2>2. CASE new = {}
    BY <2>1, <2>2
  <2>3. CASE new = {msg.req}
    BY <2>1, <2>3, FS_AddElement
  <2> QED BY <1>2, <2>2, <2>3
<1>7. ASSUME NEW e \in Client PROVE IsFiniteSet(asked'[e])
  <2>1. IsFiniteSet(asked[e])
    BY DEF AckInv, AsksNoted
  <2> QED BY <1>5, <1>6, <2>1
<1>8. \A m \in toServer' : m \in LinkMsg /\ m.hw \in Client
  BY AsksTypes DEF LinkMsg
<1>9. ASSUME NEW m \in toServer', m.type = "REQUEST"
      PROVE  m.req \in asked'[m.hw]
  <2>1. CASE m \in toServer
    BY <1>5, <1>8, <1>9, <2>1 DEF AckInv, AsksNoted
  <2>2. CASE m \notin toServer
    BY <1>3, <1>5, <1>9, <2>2
  <2> QED BY <2>1, <2>2
<1> QED
  BY <1>5, <1>7, <1>9 DEF AsksNoted

(* The server is left alone.                                               *)
LEMMA AckQuiet ==
  ASSUME NetTypes, AckInv, UNCHANGED vars, AsksNoted',
         \A e \in Client : asked[e] \subseteq asked'[e]
  PROVE  /\ ReplyNoted'
         /\ now' = now
         /\ \A e \in Client : \A a : \A u \in Nat :
               Only(e) /\ u >= now /\ Holds(e, a, u) => Holds(e, a, u)'
<1>1. UNCHANGED <<reply, now, held>>
  BY DEF vars, serverVars
<1> QED
  BY <1>1 DEF AckInv, ReplyNoted, Holds, Granted

(* A client that sends nothing.                                            *)
LEMMA AsksSame ==
  ASSUME NetTypes, AckInv, NEW c \in Client, toServer' = toServer, Asks(c)
  PROVE  AsksNoted' /\ asked' = asked
<1>1. {m.req : m \in {x \in toServer' \ toServer :
                        x.type = "REQUEST" /\ x.hw = c}} = {}
  OBVIOUS
<1>2. asked' = [asked EXCEPT ![c] = @ \cup {}]
  BY <1>1 DEF Asks
<1>3. asked' = asked
  BY <1>2 DEF NetTypes
<1> QED
  BY <1>3 DEF AckInv, AsksNoted

(* A client starts, retransmits, gives up or fails.                        *)
LEMMA AckClientStep ==
  ASSUME NetTypes, AckInv, NEW c \in Client, ClientStep(c)
  PROVE  AckInv'
<1>1. AsksNoted' /\ \A e \in Client : asked[e] \subseteq asked'[e]
  <2>1. CASE Start(c)
    <3> DEFINE msg == Transmission(c, "selecting", xid[c], info[c])
    <3>1. msg \in LinkMsg /\ msg.hw = c
      BY TransmissionType DEF NetTypes, XidOK
    <3>2. Sends(c, msg)
      BY <2>1 DEF Start, Send, Sends
    <3> HIDE DEF msg
    <3> QED BY <3>1, <3>2, AsksGrow DEF ClientStep
  <2>2. CASE Retransmit(c)
    <3> DEFINE msg == Transmission(c, cstate[c], xid[c], info[c])
    <3>1. msg \in LinkMsg /\ msg.hw = c
      BY <2>2, TransmissionType DEF NetTypes, XidOK, Retransmit, Running
    <3>2. Sends(c, msg)
      BY <2>2 DEF Retransmit, Send, Sends
    <3> HIDE DEF msg
    <3> QED BY <3>1, <3>2, AsksGrow DEF ClientStep
  <2>3. CASE StartFails(c) \/ GiveUp(c) \/ IoError(c)
    <3>1. toServer' = toServer
      BY <2>3 DEF StartFails, GiveUp, IoError
    <3> QED BY <3>1, AsksSame DEF ClientStep
  <2> QED BY <2>1, <2>2, <2>3 DEF ClientStep
<1>2. /\ ReplyNoted' /\ now' = now
      /\ \A e \in Client : \A a : \A u \in Nat :
            Only(e) /\ u >= now /\ Holds(e, a, u) => Holds(e, a, u)'
  BY <1>1, AckQuiet DEF ClientStep
<1>3. \A e \in Client : inbox'[e] \subseteq inbox[e]
  BY DEF ClientStep, Start, Retransmit, StartFails, GiveUp, IoError, NetTypes
<1>4. PacketsHeld'
  BY <1>1, <1>2, <1>3, HeldFrame DEF PacketsHeld
<1>5. ASSUME NEW e \in Client PROVE conf'[e] = conf[e] \/ conf'[e].by = "OFFER"
  BY DEF ClientStep, Start, Retransmit, StartFails, GiveUp, IoError, NetTypes
<1>6. ConfsHeld'
  BY <1>1, <1>2, <1>5, HeldFrame DEF ConfsHeld
<1> QED
  BY <1>1, <1>2, <1>4, <1>6 DEF AckInv

(* A client takes a packet: an ACK of its own configures it.               *)
LEMMA AckClientRecv ==
  ASSUME NetTypes, AckInv, NEW c \in Client, NEW p \in inbox[c], ClientRecv(c, p)
  PROVE  AckInv'
<1>1. p \in Wire /\ NetTypes'
  BY ClientRecvTypes DEF NetTypes
<1>2. Asks(c) /\ Take(c, p)
  BY DEF ClientRecv
<1>3. AsksNoted' /\ \A e \in Client : asked[e] \subseteq asked'[e]
  <2>1. CASE TakeOffer(c, p)
    <3> DEFINE msg == Transmission(c, "requesting", xid'[c], info'[c])
    <3>1. msg \in LinkMsg /\ msg.hw = c
      BY <1>1, TransmissionType DEF NetTypes, XidOK
    <3>2. Sends(c, msg)
      BY <2>1 DEF TakeOffer, Send, Sends
    <3> HIDE DEF msg
    <3> QED BY <1>2, <3>1, <3>2, AsksGrow
  <2>2. CASE TakeAck(c, p) \/ TakeNak(c, p) \/ Ignore(c, p)
    <3>1. toServer' = toServer
      BY <2>2 DEF TakeAck, TakeNak, Ignore
    <3> QED BY <1>2, <3>1, AsksSame
  <2> QED BY <1>2, <2>1, <2>2 DEF Take
<1>4. /\ ReplyNoted' /\ now' = now
      /\ \A e \in Client : \A a : \A u \in Nat :
            Only(e) /\ u >= now /\ Holds(e, a, u) => Holds(e, a, u)'
  BY <1>3, AckQuiet DEF ClientRecv
<1>5. \A e \in Client : inbox'[e] \subseteq inbox[e]
  BY DEF ClientRecv, NetTypes
<1>6. PacketsHeld'
  BY <1>3, <1>4, <1>5, HeldFrame DEF PacketsHeld
<1>7. ConfsHeld'
  <2> SUFFICES ASSUME NEW e \in Client, conf'[e] # NoConf, conf'[e].by = "ACK",
                      NEW a, NEW u, a = conf'[e].addr, u = conf'[e].until
               PROVE  HeldAs(e, a, u)'
    BY DEF ConfsHeld
  <2>1. CASE conf'[e] = conf[e]
    BY <1>3, <1>4, <2>1, HeldFrame
  <2>2. CASE conf'[e] # conf[e]
    <3>1. /\ TakeAck(c, p) /\ e = c /\ p.type = "ACK" /\ p.hw = c
          /\ conf'[e].addr = p.yiaddr /\ conf'[e].until = p.until
      BY <1>2, <2>2 DEF Take, TakeOffer, TakeAck, TakeNak, Ignore, NetTypes,
         is_valid_reply
    <3>2. HeldAs(p.hw, p.yiaddr, p.until)'
      BY <1>3, <1>4, <3>1, HeldFrame
    <3> QED BY <3>1, <3>2
  <2> QED BY <2>1, <2>2
<1> QED
  BY <1>3, <1>4, <1>6, <1>7 DEF AckInv

(* A message reaches the server, perhaps for the second time.  Its sender  *)
(* asks for what it has, so nothing it relies on is given up.              *)
LEMMA AckServerRecv ==
  ASSUME OneInterface, Inv, NetTypes, AckInv, NEW m \in toServer, ServerRecv(m)
  PROVE  AckInv'
<1> DEFINE r == Received(m)
<1>1. /\ r.hw = m.hw /\ m.hw \in Client /\ r.clid = NoClid /\ r.type = m.type
      /\ m.type \in {"DISCOVER", "REQUEST"}
      /\ m.type = "REQUEST" => r.req = m.req /\ m.req \in Addr
  BY ReceivedType DEF NetTypes
<1> HIDE DEF r
<1>2. /\ UNCHANGED <<conf, inbox, asked, now>> /\ toServer' \subseteq toServer
      /\ held' = {g \in held : ~Disowns(r, g)}
  BY DEF ServerRecv, Recv, clientVars, r
<1>3. m.type = "REQUEST" => m.req \in asked[m.hw]
  BY DEF AckInv, AsksNoted
<1>4. AsksNoted'
  BY <1>2 DEF AckInv, AsksNoted
<1>5. ReplyNoted'
  <2>1. PICK o \in dhcp_reply(lease_prune(db, {}, now), r) : reply' = o.reply
    BY DEF ServerRecv, Recv, r
  <2>2. GrantsAsked(r, o)
    BY <1>1, AddrAssumption, ReplyGrantsAsked
  <2> QED BY <1>1, <1>2, <1>3, <2>1, <2>2 DEF ReplyNoted, GrantsAsked
<1>6. ASSUME NEW c \in Client, NEW a, NEW u \in Nat, HeldAs(c, a, u), Only(c), u >= now,
             NEW g \in held, g.hw = c, g.clid = NoClid, g.addr = a, g.until >= u
      PROVE  g \in held'
  <2>1. SameHost(g, r) => m.hw = c
    BY <1>1, <1>6, HostIsDevice
  <2>2. m.hw = c /\ m.type = "REQUEST" => g.addr = r.req
    BY <1>1, <1>3, <1>6 DEF HeldAs, Only
  <2>3. g.until # 0
    <3>1. g.until \in Nat /\ now \in Nat \ {0}
      BY DEF Inv, TypeOK
    <3> QED BY <1>6, <3>1
  <2>4. ~Disowns(r, g)
    BY <1>1, <2>1, <2>2, <2>3 DEF Disowns
  <2> QED BY <1>2, <2>4
<1>7. ASSUME NEW c \in Client, NEW a, NEW u \in Nat, HeldAs(c, a, u) PROVE HeldAs(c, a, u)'
  <2>1. Only(c) /\ u >= now => Holds(c, a, u)'
    BY <1>6, <1>7 DEF HeldAs, Holds
  <2> QED BY <1>2, <1>7, <2>1 DEF HeldAs, Only
<1>8. PacketsHeld'
  <2>1. \A c \in Client : \A p \in inbox[c] : p.until \in Nat
    BY DEF NetTypes, Wire
  <2> QED BY <1>2, <1>7, <2>1 DEF AckInv, PacketsHeld
<1>9. ConfsHeld'
  <2>1. \A c \in Client : conf[c] # NoConf => conf[c].until \in Nat
    BY DEF NetTypes, Conf
  <2> QED BY <1>2, <1>7, <2>1 DEF AckInv, ConfsHeld
<1> QED
  BY <1>4, <1>5, <1>8, <1>9 DEF AckInv

(* The reply goes out.  An earlier grant that it replaces ran no longer.   *)
LEMMA AckServerSend ==
  ASSUME OneInterface, Inv, NetTypes, GrantInv, AckInv, ServerSend
  PROVE  AckInv'
<1>1. /\ UNCHANGED <<conf, toServer, asked, now>> /\ reply' = NoReply
      /\ held' = IF Granted(reply)
                 THEN {g \in held : ~Replaces(reply, g)} \cup {GrantOf(reply)}
                 ELSE held
  BY DEF ServerSend, Finish, clientVars
<1>2. AsksNoted' /\ ReplyNoted'
  BY <1>1 DEF AckInv, AsksNoted, ReplyNoted, Granted
<1>3. ASSUME Granted(reply)
      PROVE  /\ reply.hw \in Client /\ reply.clid = NoClid
             /\ reply.yiaddr \in Addr /\ reply.yiaddr \in asked[reply.hw]
             /\ reply.until = now + LeaseTime /\ GrantOf(reply) \in held'
             /\ GrantOf(reply).hw = reply.hw /\ GrantOf(reply).clid = NoClid
             /\ GrantOf(reply).addr = reply.yiaddr
             /\ GrantOf(reply).until = reply.until
  BY <1>1, <1>3 DEF AckInv, ReplyNoted, Inv, ReplyOK, GrantOf
<1>4. ASSUME NEW c \in Client, NEW a, NEW u \in Nat, Holds(c, a, u) PROVE Holds(c, a, u)'
  <2>1. PICK g \in held : g.hw = c /\ g.clid = NoClid /\ g.addr = a /\ g.until >= u
    BY <1>4 DEF Holds
  <2>2. CASE g \in held'
    BY <2>1, <2>2 DEF Holds
  <2>3. CASE g \notin held'
    <3>1. Granted(reply) /\ Replaces(reply, g)
      BY <1>1, <2>1, <2>3
    <3>2. reply.yiaddr = a /\ reply.hw = c
      BY <1>3, <2>1, <3>1, HostIsDevice DEF Replaces
    <3>3. reply.until >= g.until
      <4>1. /\ g.until \in Nat /\ now \in Nat /\ LeaseTime \in Nat
            /\ g.until = 0 \/ g.until <= now + LeaseTime
        BY TimeAssumption DEF Inv, TypeOK, GrantInv, HoldersOK, Current
      <4> QED BY <1>3, <3>1, <4>1
    <3>4. reply.until >= u
      <4>1. g.until \in Nat /\ reply.until \in Nat
        BY <1>3, <3>1, TimeAssumption DEF Inv, TypeOK
      <4> QED BY <2>1, <3>3, <4>1
    <3> QED BY <1>3, <3>1, <3>2, <3>4 DEF Holds
  <2> QED BY <2>2, <2>3
<1>5. /\ \A c \in Client : asked[c] \subseteq asked'[c]
      /\ now' = now
      /\ \A c \in Client : \A a : \A u \in Nat :
            Only(c) /\ u >= now /\ Holds(c, a, u) => Holds(c, a, u)'
  BY <1>1, <1>4
<1>6. ConfsHeld'
  BY <1>1, <1>5, HeldFrame DEF ConfsHeld
<1>7. PacketsHeld'
  <2> SUFFICES ASSUME NEW c \in Client, NEW p \in inbox'[c], p.type = "ACK"
               PROVE  p.hw \in Client /\ HeldAs(p.hw, p.yiaddr, p.until)'
    BY DEF PacketsHeld
  <2>1. CASE p \in inbox[c]
    BY <1>5, <2>1, HeldFrame
  <2>2. CASE p \notin inbox[c]
    <3>1. reply # NoReply /\ p = OnWire(reply)
      BY <2>2 DEF ServerSend
    <3>2. reply \in Reply
      BY <3>1 DEF Inv, TypeOK
    <3>3. Granted(reply) /\ p.hw = reply.hw /\ p.until = reply.until
      BY <3>1, <3>2, OnWireType DEF Granted
    <3>4. p.yiaddr = reply.yiaddr
      BY <1>3, <3>1, <3>2, <3>3, OnWireType, AddrAssumption
    <3>5. GrantOf(reply).until >= p.until
      BY <1>3, <3>3, TimeAssumption DEF Inv, TypeOK
    <3>6. Holds(p.hw, p.yiaddr, p.until)'
      BY <1>3, <3>3, <3>4, <3>5 DEF Holds
    <3> QED BY <1>1, <1>3, <3>3, <3>4, <3>6 DEF HeldAs
  <2> QED BY <2>1, <2>2
<1> QED
  BY <1>2, <1>6, <1>7 DEF AckInv

(* Time passes: what has run out is no longer relied on.                   *)
LEMMA AckTick ==
  ASSUME Inv, NetTypes, GrantInv, AckInv, Tick, UNCHANGED <<clientVars, netVars>>
  PROVE  AckInv'
<1>1. /\ UNCHANGED <<conf, toServer, inbox, asked, reply>> /\ now' = now + 1
      /\ held' = {g \in held : g.until = 0 \/ g.until > now}
      /\ pc \in {"idle", "down"} /\ now \in Nat
  BY DEF Tick, clientVars, netVars, Inv, TypeOK
<1>2. ~Granted(reply)
  BY <1>1 DEF GrantInv, QuietOK, Granted
<1>3. AsksNoted' /\ ReplyNoted'
  BY <1>1, <1>2 DEF AckInv, AsksNoted, ReplyNoted, Granted
<1>4. ASSUME NEW c \in Client, NEW a, NEW u \in Nat, HeldAs(c, a, u)
      PROVE  HeldAs(c, a, u)'
  <2> SUFFICES ASSUME Only(c), u >= now + 1 PROVE Holds(c, a, u)'
    BY <1>1, <1>4 DEF HeldAs, Only
  <2>1. PICK g \in held : g.hw = c /\ g.clid = NoClid /\ g.addr = a /\ g.until >= u
    BY <1>1, <1>4 DEF HeldAs, Holds
  <2>2. g.until \in Nat
    BY DEF Inv, TypeOK
  <2>3. g \in held'
    BY <1>1, <2>1, <2>2
  <2> QED BY <2>1, <2>3 DEF Holds
<1>5. PacketsHeld'
  <2> SUFFICES ASSUME NEW c \in Client, NEW p \in inbox[c], p.type = "ACK"
               PROVE  p.hw \in Client /\ HeldAs(p.hw, p.yiaddr, p.until)'
    BY <1>1 DEF PacketsHeld
  <2>1. p.until \in Nat
    BY DEF NetTypes, Wire
  <2>2. p.hw \in Client /\ HeldAs(p.hw, p.yiaddr, p.until)
    BY DEF AckInv, PacketsHeld
  <2> QED BY <1>4, <2>1, <2>2
<1>6. ConfsHeld'
  <2> SUFFICES ASSUME NEW c \in Client, conf[c] # NoConf, conf[c].by = "ACK",
                      NEW a, NEW u, a = conf[c].addr, u = conf[c].until
               PROVE  HeldAs(c, a, u)'
    BY <1>1 DEF ConfsHeld
  <2>1. u \in Nat
    BY DEF NetTypes, Conf
  <2>2. HeldAs(c, a, u)
    BY DEF AckInv, ConfsHeld
  <2> QED BY <1>4, <2>1, <2>2
<1> QED
  BY <1>3, <1>5, <1>6 DEF AckInv

(* Anything else that the server does on its own.                          *)
LEMMA AckFrame ==
  ASSUME NetTypes, AckInv, UNCHANGED <<clientVars, netVars>>,
         UNCHANGED <<now, held>>, reply' \in {reply, NoReply}
  PROVE  AckInv'
<1>1. UNCHANGED <<conf, toServer, inbox, asked>>
  BY DEF clientVars, netVars
<1>2. AsksNoted' /\ ReplyNoted'
  BY <1>1 DEF AckInv, AsksNoted, ReplyNoted, Granted
<1>3. \A c \in Client : \A a, u : HeldAs(c, a, u) => HeldAs(c, a, u)'
  BY <1>1 DEF HeldAs, Only, Holds
<1>4. PacketsHeld' /\ ConfsHeld'
  BY <1>1, <1>3 DEF AckInv, PacketsHeld, ConfsHeld
<1> QED
  BY <1>2, <1>4 DEF AckInv

(* Every step on the link.                                                 *)
LEMMA AckNext ==
  ASSUME OneInterface
  PROVE  Inv /\ NetTypes /\ GrantInv /\ AckInv /\ [NetNext]_allVars => AckInv'
<1> SUFFICES ASSUME Inv, NetTypes, GrantInv, AckInv, [NetNext]_allVars PROVE AckInv'
  OBVIOUS
<1>1. ASSUME NEW m \in toServer, ServerRecv(m) PROVE AckInv'
  BY <1>1, AckServerRecv
<1>2. CASE ServerSend
  BY <1>2, AckServerSend
<1>3. CASE ServerStep
  <2>1. UNCHANGED <<clientVars, netVars>>
    BY <1>3 DEF ServerStep
  <2>2. CASE Tick
    BY <2>1, <2>2, AckTick
  <2>3. CASE ~Tick
    <3>1. UNCHANGED <<now, held>> /\ reply' \in {reply, NoReply}
      BY <1>3, <2>3 DEF ServerStep, Restart, Reload, UpdateFromConfigs, ConfigsDone,
         Ring, AlarmEvent, FileClean, Truncate, TruncateErr, WriteOk, WriteErr, Crash
    <3> QED BY <2>1, <3>1, AckFrame
  <2> QED BY <2>2, <2>3
<1>4. ASSUME NEW c \in Client, ClientStep(c) PROVE AckInv'
  BY <1>4, AckClientStep
<1>5. ASSUME NEW c \in Client, NEW p \in inbox[c], ClientRecv(c, p) PROVE AckInv'
  BY <1>5, AckClientRecv
<1>6. CASE UNCHANGED allVars
  BY <1>6, AckFrame DEF allVars, vars, serverVars
<1> QED
  BY <1>1, <1>2, <1>3, <1>4, <1>5, <1>6 DEF NetNext

(* Nobody has asked for anything yet.                                      *)
LEMMA AckInit == NetInit => AckInv
<1> SUFFICES ASSUME NetInit PROVE AckInv
  OBVIOUS
<1>1. AsksNoted
  BY FS_EmptySet DEF NetInit, ClientInit, AsksNoted
<1> QED
  BY <1>1 DEF NetInit, Init, ClientInit, AckInv, ReplyNoted, PacketsHeld, ConfsHeld,
     Granted

(* What an ACK told a client is held for it, in every reachable state.     *)
THEOREM AcksHeld ==
  ASSUME OneInterface PROVE NetSpec => [](Inv /\ NetTypes /\ GrantInv /\ AckInv)
<1>1. HostsDistinct
  BY DevicesDistinct
<1>2. Spec => []GrantInv
  BY <1>1, GrantsInvariant
<1>3. Inv /\ NetTypes /\ GrantInv /\ AckInv /\ [NetNext]_allVars => AckInv'
  BY AckNext
<1> QED
  BY <1>2, <1>3, AckInit, LinkTypes, LinkHasServer, PTL DEF NetSpec

(* do_dhcp on two devices never ends with an ACK for the same address that *)
(* is good for both at a time, in whatever order the link delivers and     *)
(* however often, across crashes of the server: while the lease file can   *)
(* be written and for devices that asked for one address only.             *)
THEOREM AcksExclusive ==
  ASSUME OneInterface PROVE NetSpec => [](~faulty => AckedExclusive)
<1>1. Inv /\ NetTypes /\ GrantInv /\ AckInv => (~faulty => AckedExclusive)
  <2> SUFFICES ASSUME GrantInv, AckInv, ~faulty, NEW c \in Client, NEW d \in Client,
                      Live(c), Live(d), conf[c].addr = conf[d].addr,
                      Cardinality(asked[c]) = 1, Cardinality(asked[d]) = 1
               PROVE  c = d
    BY DEF AckedExclusive
  <2>1. Only(c) /\ Only(d)
    BY OnlyOne DEF AckInv, AsksNoted
  <2>2. PICK g \in held : g.hw = c /\ g.addr = conf[c].addr
    BY <2>1 DEF Live, AckInv, ConfsHeld, HeldAs, Holds
  <2>3. PICK h \in held : h.hw = d /\ h.addr = conf[d].addr
    BY <2>1 DEF Live, AckInv, ConfsHeld, HeldAs, Holds
  <2> QED BY <2>2, <2>3 DEF GrantInv, GrantExclusive
<1> QED
  BY <1>1, AcksHeld, PTL

(* dhcp_reply and lease.c have, for every device that do_dhcp configured   *)
(* from an ACK, a lease of that address in the device's own name.          *)
THEOREM AcksBacked == ASSUME OneInterface PROVE NetSpec => []AckBacked
<1>1. Inv /\ NetTypes /\ GrantInv /\ AckInv => AckBacked
  <2> SUFFICES ASSUME GrantInv, AckInv, ~faulty, pc = "idle", NEW c \in Client,
                      Live(c), Cardinality(asked[c]) = 1
               PROVE  \E l \in db.leases : l.addr = conf[c].addr /\ l.hw = c
    BY DEF AckBacked
  <2>1. Only(c)
    BY OnlyOne DEF AckInv, AsksNoted
  <2>2. PICK g \in held : g.hw = c /\ g.clid = NoClid /\ g.addr = conf[c].addr
    BY <2>1 DEF Live, AckInv, ConfsHeld, HeldAs, Holds
  <2>3. PICK k \in Cores(db.leases) : Backs(k, g)
    BY <2>2 DEF GrantInv, DbBacks, BackedBy
  <2>4. PICK y \in Messages : y.hw = k.hw
    BY <2>3 DEF GrantInv, OwnersOK, AllOwn, OwnOK
  <2>5. SameHost(y, g)
    BY <2>3, <2>4 DEF Backs, HeldBy, Claims
  <2>6. k.hw = c
    BY <2>2, <2>4, <2>5, DevicesDistinct, HostIsDevice
  <2>7. PICK l \in db.leases : k = CoreOf(l)
    BY <2>3 DEF Cores
  <2> QED BY <2>2, <2>3, <2>6, <2>7 DEF Backs, CoreOf
<1> QED
  BY <1>1, AcksHeld, PTL
=============================================================================
