------------------------------- MODULE LeaseDb -------------------------------
(***************************************************************************)
(* The lease database of dnsmasq (src/external/dnsmasq/src/lease.c): the   *)
(* linked list `leases`, the quota `leases_left` and the two dirty flags,  *)
(* as one record, and one operator per function of lease.c that changes    *)
(* or searches it.                                                         *)
(*                                                                         *)
(* The list is a set of lease records.  Where the code returns the first   *)
(* match of the list, the operator returns the set of matches and its      *)
(* caller picks any of them.  Nothing here makes addresses, client ids or  *)
(* names unique: that the callers keep them unique is what is proved.      *)
(***************************************************************************)
EXTENDS Integers, FiniteSets

CONSTANTS
    Addr,           \* IPv4 addresses a client may name
    HW,             \* hardware addresses (chaddr)
    ClId, NoClid,   \* client identifiers, and "no client identifier option"
    Names, NoName,  \* host names, and "no host name" (the "*" of the file)
    DhcpMax         \* daemon->dhcp_max (--dhcp-lease-max)

ASSUME DhcpMaxAssumption == DhcpMax \in Nat
ASSUME NullAssumption == NoClid \notin ClId /\ NoName \notin Names

(* A lease.  expires = 0 means the lease never expires.                    *)
Lease == [addr : Addr, hw : HW, clid : ClId \cup {NoClid},
          expires : Nat, name : Names \cup {NoName}, auth : BOOLEAN]

(* The statics of lease.c.                                                 *)
Db == [leases : SUBSET Lease, leases_left : Int,
       file_dirty : BOOLEAN, dns_dirty : BOOLEAN]

EmptyDb == [leases |-> {}, leases_left |-> DhcpMax,
            file_dirty |-> FALSE, dns_dirty |-> FALSE]

-----------------------------------------------------------------------------
(* lease_find_by_client: by client identifier when the message carries     *)
(* one, else by hardware address among the leases where one side has no    *)
(* client identifier.                                                      *)
FindByClid(d, clid) ==
    {l \in d.leases : clid # NoClid /\ l.clid = clid}

FindByHw(d, hw, clid) ==
    {l \in d.leases : (l.clid = NoClid \/ clid = NoClid) /\ l.hw = hw}

(* Seeded fault: the search by client identifier is left out.              *)
find_by_hw_only(d, hw, clid) == FindByHw(d, hw, clid)

lease_find_by_client(d, hw, clid) ==
    IF FindByClid(d, clid) # {} THEN FindByClid(d, clid)
                                ELSE FindByHw(d, hw, clid)

lease_find_by_addr(d, a) == {l \in d.leases : l.addr = a}

-----------------------------------------------------------------------------
(* Seeded fault: a lease is expired in its last second.                    *)
ExpiredEarly(l, now) == l.expires # 0 /\ now >= l.expires

Expired(l, now) == l.expires # 0 /\ now > l.expires

(* Seeded faults: the quota is not given back; a name that goes away does  *)
(* not mark the name cache.                                                *)
prune_no_quota(d, target, now) ==
    LET gone == {l \in d.leases : Expired(l, now) \/ l \in target}
    IN  [d EXCEPT !.leases = @ \ gone, !.file_dirty = @ \/ gone # {},
                  !.dns_dirty = @ \/ \E l \in gone : l.name # NoName]

prune_no_dns(d, target, now) ==
    LET gone == {l \in d.leases : Expired(l, now) \/ l \in target}
    IN  [d EXCEPT !.leases = @ \ gone,
                  !.leases_left = @ + Cardinality(gone),
                  !.file_dirty = @ \/ gone # {}]

(* lease_prune(target, now): expired leases and the target leave the list. *)
lease_prune(d, target, now) ==
    LET gone == {l \in d.leases : Expired(l, now) \/ l \in target}
    IN  [leases      |-> d.leases \ gone,
         leases_left |-> d.leases_left + Cardinality(gone),
         file_dirty  |-> d.file_dirty \/ gone # {},
         dns_dirty   |-> d.dns_dirty \/ \E l \in gone : l.name # NoName]

-----------------------------------------------------------------------------
(* A lease under construction or being updated: the database and the lease *)
(* in it that the code's `lease` pointer refers to.  Put is an assignment  *)
(* through that pointer; fd and dd tell which dirty flags it sets.         *)
Put(d, old, new, fd, dd) ==
    [leases      |-> (d.leases \ {old}) \cup {new},
     leases_left |-> d.leases_left,
     file_dirty  |-> d.file_dirty \/ fd,
     dns_dirty   |-> d.dns_dirty \/ dd]

(* lease_allocate: only when leases_left is not zero.  The hardware        *)
(* address is still to be set by the caller (hwaddr_len 256 in the code),  *)
(* so the caller's first lease_set_hwaddr always marks the file dirty.     *)
lease_allocate(d, a, hw) ==
    LET l == [addr |-> a, hw |-> hw, clid |-> NoClid,
              expires |-> 1, name |-> NoName, auth |-> FALSE]
    IN  [lease |-> l,
         db |-> [leases      |-> d.leases \cup {l},
                 leases_left |-> d.leases_left - 1,
                 file_dirty  |-> TRUE,
                 dns_dirty   |-> d.dns_dirty]]

(* lease_set_hwaddr: a missing client identifier leaves the old one.       *)
lease_set_hwaddr(p, hw, clid) ==
    LET l == [p.lease EXCEPT !.hw = hw,
                             !.clid = IF clid # NoClid THEN clid ELSE @]
    IN  [lease |-> l, db |-> Put(p.db, p.lease, l, l # p.lease, FALSE)]

(* lease_set_expires, with exp already converted (0 for 0xffffffff).       *)
lease_set_expires(p, exp) ==
    LET l == [p.lease EXCEPT !.expires = exp]
    IN  [lease |-> l, db |-> Put(p.db, p.lease, l, l # p.lease, l # p.lease)]

(* kill_name: the lease loses its host name.                               *)
kill_name(l) == [l EXCEPT !.name = NoName]

(* lease_set_hostname: the name is taken away from the first lease that    *)
(* has it, unless that one has it on authority and the caller has none.    *)
Rival(d, name) == CHOOSE l \in d.leases : l.name = name

HasRival(d, name) == \E l \in d.leases : l.name = name

(* Seeded fault: the rival keeps the name.                                 *)
ShareName(p, name, auth) ==
    LET l == [p.lease EXCEPT !.name = name, !.auth = auth]
    IN  [lease |-> l, db |-> Put(p.db, p.lease, l, TRUE, TRUE)]

TakeName(p, name, auth) ==
    LET rival == Rival(p.db, name)
        d     == IF HasRival(p.db, name)
                 THEN Put(p.db, rival, kill_name(rival), TRUE, TRUE)
                 ELSE p.db
        l     == [p.lease EXCEPT !.name = name, !.auth = auth]
    IN  [lease |-> l, db |-> Put(d, p.lease, l, TRUE, TRUE)]

(* Seeded fault: auth_name of the rival is not looked at.                  *)
set_hostname_no_auth(p, name, auth) ==
    IF p.lease.name = name
    THEN LET l == [p.lease EXCEPT !.auth = auth]
         IN  [lease |-> l, db |-> Put(p.db, p.lease, l, FALSE, FALSE)]
    ELSE TakeName(p, name, auth)

lease_set_hostname(p, name, auth) ==
    IF p.lease.name = name
    THEN LET l == [p.lease EXCEPT !.auth = auth]
         IN  [lease |-> l, db |-> Put(p.db, p.lease, l, FALSE, FALSE)]
    ELSE IF HasRival(p.db, name) /\ Rival(p.db, name).auth /\ ~auth
    THEN p
    ELSE TakeName(p, name, auth)

(* What lease_update_file writes of the leases: the file does not say      *)
(* which names are authoritative.                                          *)
Stored(leases) == {[l EXCEPT !.auth = FALSE] : l \in leases}

(* What lease_update_dns puts in the name cache.                           *)
DnsView(d) == {[name |-> l.name, addr |-> l.addr] :
                 l \in {x \in d.leases : x.name # NoName}}

(* next_event of lease_update_file: Grace (10 s) after the first expiry.   *)
NextExpiry(d, grace) ==
    LET times == {l.expires + grace : l \in {x \in d.leases : x.expires # 0}}
    IN  IF times = {} THEN 0
        ELSE CHOOSE t \in times : \A u \in times : t <= u
=============================================================================
