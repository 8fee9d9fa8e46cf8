------------------------------- MODULE DhcpNet -------------------------------
(***************************************************************************)
(* The DHCP clients of libnetutils and the DHCP server of dnsmasq on one   *)
(* broadcast link that loses, delays, reorders and duplicates packets.     *)
(***************************************************************************)
EXTENDS DhcpServer, DhcpClient

CONSTANTS
    MaxDups         \* bound on packets delivered twice

VARIABLES
    asked,     \* history: client |-> addresses it has requested
    dups       \* packets delivered twice so far

netVars == <<toServer, inbox, asked, dups>>
allVars == <<vars, clientVars, netVars>>

NetInit ==
    /\ Init /\ ClientInit
    /\ asked = [c \in Client |-> {}] /\ dups = 0

(* The server's view of what a client sends: no client identifier, no host *)
(* name, no ciaddr.                                                        *)
Received(m) ==
    [type |-> m.type, hw |-> m.hw, clid |-> NoClid, name |-> NoName,
     req |-> IF m.type = "REQUEST" THEN m.req ELSE NoAddr,
     sid |-> IF m.type = "REQUEST" THEN m.sid ELSE NoAddr,
     ciaddr |-> NoAddr, xid |-> m.xid]

(* The messages that the clients of the link send: each uses the           *)
(* transaction id it starts with and the one after it.                     *)
LinkXids == UNION {{StartXid[c], StartXid[c] + 1} : c \in Client}

LinkMsg == [type : {"DISCOVER"}, hw : Client, xid : LinkXids]
           \cup [type : {"REQUEST"}, hw : Client, xid : LinkXids,
                 req : Addr, sid : Addr]

LinkMessages == {Received(m) : m \in LinkMsg}

(* The server's clients are those of the link.                             *)
ASSUME NetAssumption ==
    /\ Client \subseteq HW /\ Zero \in Addr /\ StartXid \in [Client -> Nat]
    /\ Messages = LinkMessages

(* No dhcp-host line makes two of the devices one host.                    *)
OneInterface ==
    \A cfg \in Configs : \A c, d \in Client \cap cfg.macs : c = d

(* A packet leaves the link when it is delivered, or stays to be delivered *)
(* once more.  One that is never delivered is lost.                        *)
Dup == dups < MaxDups /\ dups' = dups + 1

ServerRecv(m) ==
    /\ Recv(Received(m))
    /\ \/ toServer' = toServer \ {m} /\ UNCHANGED dups
       \/ Dup /\ UNCHANGED toServer
    /\ UNCHANGED <<clientVars, inbox, asked>>

(* A yiaddr of NoAddr is 0.0.0.0 on the wire.                              *)
OnWire(r) == [type |-> r.type, hw |-> r.hw, xid |-> r.xid, sid |-> r.sid,
              yiaddr |-> IF r.yiaddr = NoAddr THEN Zero ELSE r.yiaddr,
              until |-> r.until]

(* The server's reply is broadcast as its last step; it reaches the        *)
(* clients that have a socket and still read from it.                      *)
ServerSend ==
    /\ Finish
    /\ inbox' = [c \in Client |->
                    IF reply # NoReply /\ Running(c) /\ sock[c] = "open"
                    THEN inbox[c] \cup {OnWire(reply)} ELSE inbox[c]]
    /\ UNCHANGED <<clientVars, toServer, asked, dups>>

ServerStep ==
    /\ \/ Restart \/ Reload \/ UpdateFromConfigs \/ ConfigsDone
       \/ Ring \/ AlarmEvent \/ FileClean \/ Truncate \/ TruncateErr
       \/ WriteOk \/ WriteErr \/ Crash \/ Tick
    /\ UNCHANGED <<clientVars, netVars>>

Asks(c) ==
    asked' = [asked EXCEPT ![c] =
                @ \cup {m.req : m \in {x \in toServer' \ toServer :
                                        x.type = "REQUEST" /\ x.hw = c}}]

ClientStep(c) ==
    /\ Start(c) \/ StartFails(c) \/ GiveUp(c) \/ Retransmit(c) \/ IoError(c)
    /\ Asks(c)
    /\ UNCHANGED <<vars, dups>>

(* What a client that has returned has not read is gone with its socket.   *)
ClientRecv(c, p) ==
    /\ Take(c, p)
    /\ \/ /\ inbox' = [inbox EXCEPT ![c] = IF cstate'[c] = "returned"
                                           THEN {} ELSE @ \ {p}]
          /\ UNCHANGED dups
       \/ Dup /\ cstate'[c] # "returned" /\ UNCHANGED inbox
    /\ Asks(c)
    /\ UNCHANGED vars

NetNext ==
    \/ \E m \in toServer : ServerRecv(m)
    \/ ServerSend \/ ServerStep
    \/ \E c \in Client : ClientStep(c) \/ \E p \in inbox[c] : ClientRecv(c, p)

NetSpec == NetInit /\ [][NetNext]_allVars

-----------------------------------------------------------------------------
(* Type correctness of the clients; the timeout stays between its bounds.  *)
NetTypeOK ==
    /\ cstate \in [Client -> {"off", "selecting", "requesting", "returned"}]
    /\ \A c \in Client : timeout[c] \in TimeoutInitial..TimeoutMax
    /\ sock \in [Client -> {"closed", "open", "bad"}]
    /\ \A c \in Client : info[c].ipaddr \in Addr

(* A device that gives up waiting for the acknowledgement and configures   *)
(* its interface "with offered parameters" (dhcp_init_ifc) uses parameters *)
(* that were offered to it.                                                *)
OfferWasMine ==
    \A c \in Client : conf[c] # NoConf /\ conf[c].by = "OFFER"
                      => conf[c].to = c

(* Two devices whose leases were acknowledged and have not run out never   *)
(* have the same address, as long as neither changed its mind: a client    *)
(* whose info was overwritten by another's reply asks for another address  *)
(* in the same transaction, and may then take the ACK of the first.        *)
Live(c) == conf[c] # NoConf /\ conf[c].by = "ACK" /\ conf[c].until >= now

AckedExclusive ==
    \A c, d \in Client :
        /\ Live(c) /\ Live(d) /\ conf[c].addr = conf[d].addr
        /\ Cardinality(asked[c]) = 1 /\ Cardinality(asked[d]) = 1
        => c = d

(* A device with an acknowledged lease has it in the server's database, in *)
(* its own name, also after the server has crashed and come back.          *)
AckBacked ==
    \A c \in Client :
        /\ Live(c) /\ Cardinality(asked[c]) = 1
        /\ pc = "idle" /\ ~faulty
        => \E l \in db.leases : l.addr = conf[c].addr /\ l.hw = c

(* do_dhcp returns.  poll's timeout starts anew with every packet, so this *)
(* rests on the link delivering finitely many; then a timeout fires.       *)
ClientFairness ==
    \A c \in Client : WF_allVars((GiveUp(c) \/ Retransmit(c)) /\ ClientStep(c))

FairNetSpec == NetSpec /\ ClientFairness

Returns ==
    \A c \in Client : cstate[c] = "selecting" ~> cstate[c] = "returned"
=============================================================================
