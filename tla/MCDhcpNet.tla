------------------------------ MODULE MCDhcpNet ------------------------------
(***************************************************************************)
(* Two devices and one server on a link, for TLC.  a0 is 0.0.0.0, a1 is    *)
(* the server, a2 and a3 can be leased.                                    *)
(***************************************************************************)
EXTENDS DhcpNet, TLC

CONSTANTS h1, h2, a0, a1, a2, a3

MCAddr  == {a0, a1, a2, a3}
MCSubnet == {a1, a2, a3}
MCPool == {a2, a3}
NoHosts == [a \in MCAddr |-> NoName]
(* Nothing tells the devices apart.                                        *)
Devices == Permutations({h1, h2})

(* Both devices were started in the same millisecond.                      *)
SameXid == [c \in Client |-> 7]

(* The devices are hosts of their own, as the theorems about ACKs assume.  *)
ASSUME DevicesApart == OneInterface
=============================================================================
