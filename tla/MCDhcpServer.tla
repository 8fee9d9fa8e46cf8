---------------------------- MODULE MCDhcpServer ----------------------------
(***************************************************************************)
(* Small instances of DhcpServer for TLC.  Addresses are numbers: 1 is the *)
(* server, 2 and 3 are the dynamic range, 4 is reserved by a dhcp-host     *)
(* line, 9 is off the subnet.                                              *)
(***************************************************************************)
EXTENDS DhcpServer

CONSTANTS h1, h2, h3, c1, n1, n2

MCAddr   == {1, 2, 3, 4, 9}
MCSubnet == {1, 2, 3, 4}
MCPool   == {2, 3}

MCHostsName == [a \in MCAddr |-> IF a = 3 THEN n2 ELSE NoName]
NoHosts     == [a \in MCAddr |-> NoName]

(* One host with two interfaces, h1 and h2, one name and one address.      *)
Docked == [macs |-> {h1, h2}, clid |-> NoClid, name |-> n1, addr |-> 4]

MCConfigs == {Docked}

Base(hw, clid) ==
    [type |-> "DISCOVER", hw |-> hw, clid |-> clid, name |-> NoName,
     req |-> NoAddr, sid |-> NoAddr, ciaddr |-> NoAddr, xid |-> 0]

Discovers(x)  == {[x EXCEPT !.req = a] : a \in {NoAddr, 2, 4, 9}}
Selects(x, n) == {[x EXCEPT !.type = "REQUEST", !.req = a, !.sid = 1,
                            !.name = n] : a \in {2, 3, 4, 9}}
Reboots(x)    == {[x EXCEPT !.type = "REQUEST", !.req = a] : a \in {2, 3}}
Renews(x)     == {[x EXCEPT !.type = "REQUEST", !.ciaddr = a] : a \in {2, 3}}
OtherServer(x) == {[x EXCEPT !.type = "REQUEST", !.req = 2, !.sid = 9]}
Declines(x)   == {[x EXCEPT !.type = "DECLINE", !.req = a, !.sid = 1] :
                    a \in {2, 4}}
Releases(x)   == {[x EXCEPT !.type = "RELEASE", !.ciaddr = a, !.sid = 1] :
                    a \in {2, 3}}
                 \cup {[x EXCEPT !.type = "RELEASE", !.ciaddr = 2, !.req = 2, !.sid = 1]}
Informs(x)    == {[x EXCEPT !.type = "INFORM", !.ciaddr = 2, !.req = a] :
                    a \in {NoAddr, 2}}
Bootps(x)     == {[x EXCEPT !.type = "BOOTP"]}

All(x, n) == Discovers(x) \cup Selects(x, n) \cup Reboots(x) \cup Renews(x)
             \cup OtherServer(x) \cup Declines(x) \cup Releases(x)
             \cup Informs(x)

(* Everything three clients can send: h1 with and without its client id,   *)
(* its sibling interface h2, and a stranger h3 that claims the name n1.    *)
FullMessages ==
    All(Base(h1, c1), NoName)
    \cup UNION {Selects(x, NoName) \cup Declines(x) :
                  x \in {Base(h1, NoClid), Base(h2, NoClid)}}
    \cup All(Base(h3, NoClid), n1) \cup Bootps(Base(h3, NoClid))

(* What it takes to grant, renew, move and give up leases.                 *)
GrantMessages ==
    UNION {Selects(x, NoName) \cup Renews(x) \cup Releases(x) :
             x \in {Base(h1, c1), Base(h3, NoClid)}}
    \cup Bootps(Base(h3, NoClid))

(* The clients of these instances can be told apart, as the theorems about *)
(* grants assume.                                                          *)
ASSUME MessagesDistinct == HostsDistinct
=============================================================================
