-------------------------- MODULE DhcpServerProofs --------------------------
(***************************************************************************)
(* What the DHCP server keeps, for every set of addresses, clients,        *)
(* configuration lines and messages and every bound: a lease database in   *)
(* order (types, one lease per address, client and name, an exact quota),  *)
(* a lease file and a name cache that are what the dirty flags say they    *)
(* are, the grants of its clients, the retry of a failed rewrite, and the  *)
(* names that leases have on authority.                                    *)
(*                                                                         *)
(* First what every branch of dhcp_reply does to the database and its      *)
(* names, and the inductive invariant, one step per action.  Then, over    *)
(* that invariant, what every branch does to the grants, the retry and the *)
(* names.                                                                  *)
(***************************************************************************)
EXTENDS DhcpServer, LeaseDbProofs

AnyClid == ClId \cup {NoClid}
AnyAddr == Addr \cup {NoAddr}
Host == [name : Names \cup {NoName}, auth : BOOLEAN]

(* The part of the state that dhcp_reply reads besides the leases.         *)
Env == declined \in [Configs -> Nat] /\ now \in Nat

(* A database that lease_prune has just gone over.                         *)
Pruned(d) == DbOK(d) /\ \A l \in d.leases : ~Expired(l, now)

-----------------------------------------------------------------------------
(* The lease found for a message keeps its place under lease_prune.        *)
LEMMA PruneAgain ==
  ASSUME NEW d, Pruned(d), NEW target
  PROVE  LET e == lease_prune(d, target, now)
         IN  /\ Pruned(e) /\ Honest(d, e)
             /\ \A l \in d.leases : l \notin target => l \in e.leases
<1>1. DbOK(lease_prune(d, target, now))
      /\ lease_prune(d, target, now).leases \subseteq d.leases
  BY PruneOK DEF Pruned
<1>2. Honest(d, lease_prune(d, target, now))
  BY PruneHonest DEF Pruned, DbOK
<1>3. \A l \in d.leases :
         l \notin target => l \in lease_prune(d, target, now).leases
  BY DEF Pruned, lease_prune
<1> QED
  BY <1>1, <1>2, <1>3 DEF Pruned

(* The lease_prune that opens every event leaves no expired lease.         *)
LEMMA PruneFresh ==
  ASSUME NEW d, DbOK(d)
  PROVE  Pruned(lease_prune(d, {}, now)) /\ Honest(d, lease_prune(d, {}, now))
<1>1. \A l \in lease_prune(d, {}, now).leases : ~Expired(l, now)
  BY DEF lease_prune
<1> QED
  BY <1>1, PruneOK, PruneHonest DEF Pruned, DbOK

(* The client identifier clid is nobody's but that of the leases in lease. *)
NoOther(d, l, clid) == \A k \in d.leases \ {l} : clid # NoClid => k.clid # clid

Owned(d, lease, clid) ==
    /\ \A l \in lease : NoOther(d, l, clid)
    /\ lease = {} => \A k \in d.leases : clid # NoClid => k.clid # clid

(* lease_find_by_client finds the lease that has the client's identifier,  *)
(* if there is one.                                                        *)
LEMMA FoundOwned ==
  ASSUME NEW d, DbOK(d), NEW m
  PROVE  LET found == lease_find_by_client(d, m.hw, m.clid)
         IN  /\ found = {} => Owned(d, {}, EffClid(m, {}))
             /\ \A l \in found : Owned(d, {l}, EffClid(m, {l}))
<1> DEFINE found == lease_find_by_client(d, m.hw, m.clid)
<1>1. ASSUME found = {} PROVE Owned(d, {}, EffClid(m, {}))
  <2>1. FindByClid(d, m.clid) = {}
    BY <1>1 DEF lease_find_by_client
  <2> QED BY <2>1 DEF Owned, EffClid, FindByClid
<1>2. ASSUME NEW l \in found PROVE NoOther(d, l, EffClid(m, {l}))
  <2>1. (CHOOSE x \in {l} : TRUE) = l
    OBVIOUS
  <2>2. CASE m.clid = NoClid
    <3>1. EffClid(m, {l}) = l.clid /\ l \in d.leases
      BY <2>1, <2>2 DEF EffClid, lease_find_by_client, FindByHw, FindByClid
    <3> QED BY <3>1 DEF NoOther, DbOK, Distinct, OnePerClid
  <2>3. CASE m.clid # NoClid /\ FindByClid(d, m.clid) # {}
    <3>1. EffClid(m, {l}) = l.clid /\ l \in d.leases
      BY <2>3 DEF EffClid, lease_find_by_client, FindByClid
    <3> QED BY <3>1 DEF NoOther, DbOK, Distinct, OnePerClid
  <2>4. CASE m.clid # NoClid /\ FindByClid(d, m.clid) = {}
    BY <2>4 DEF EffClid, FindByClid, NoOther
  <2> QED BY <2>2, <2>3, <2>4
<1> HIDE DEF found
<1>3. \A l \in found : Owned(d, {l}, EffClid(m, {l}))
  BY <1>2 DEF Owned
<1> QED
  BY <1>1, <1>3 DEF found

-----------------------------------------------------------------------------
(* What matters of a lease to the client that holds it: the address, the   *)
(* hardware address and client identifier it is found by, and its expiry.  *)
(* The host name and its authority do not matter.                          *)
CoreOf(l) == [addr |-> l.addr, hw |-> l.hw, clid |-> l.clid,
              expires |-> l.expires]

Cores(S) == {CoreOf(l) : l \in S}

(* What setting a field of a lease leaves of all the others.               *)
Others(p) == Cores(p.db.leases \ {p.lease})

(* One lease replaced by another with the same address.                    *)
LEMMA PutOthers ==
  ASSUME NEW p, PairOK(p), NEW new, new.addr = p.lease.addr,
         NEW fd \in BOOLEAN, NEW dd \in BOOLEAN
  PROVE  Others([lease |-> new, db |-> Put(p.db, p.lease, new, fd, dd)])
         = Others(p)
<1> DEFINE S == p.db.leases \ {p.lease}
<1>1. new \notin S
  BY DEF PairOK, DbOK, Distinct, OnePerAddr
<1>2. Put(p.db, p.lease, new, fd, dd).leases = S \cup {new}
  BY DEF Put
<1>3. (S \cup {new}) \ {new} = S
  BY <1>1
<1> QED
  BY <1>2, <1>3 DEF Others

(* A lease that loses its name keeps what matters.                         *)
LEMMA TakeNameOthers ==
  ASSUME NEW p, PairOK(p), NEW name \in Names, NEW auth \in BOOLEAN,
         p.lease.name # name
  PROVE  /\ Others(TakeName(p, name, auth)) = Others(p)
         /\ CoreOf(TakeName(p, name, auth).lease) = CoreOf(p.lease)
<1> DEFINE rival == Rival(p.db, name)
           d == IF HasRival(p.db, name)
                THEN Put(p.db, rival, kill_name(rival), TRUE, TRUE) ELSE p.db
           new == [p.lease EXCEPT !.name = name, !.auth = auth]
<1>1. p.lease \in Lease /\ p.db \in Db /\ p.lease \in p.db.leases
  BY DEF PairOK, DbOK, Db
<1>2. new.addr = p.lease.addr /\ CoreOf(new) = CoreOf(p.lease)
  BY <1>1 DEF Lease, CoreOf
<1>3. TakeName(p, name, auth) =
        [lease |-> new, db |-> Put(d, p.lease, new, TRUE, TRUE)]
  BY DEF TakeName
<1>4. /\ Cores(d.leases \ {p.lease}) = Others(p)
      /\ \A l \in d.leases \ {p.lease} : l.addr # p.lease.addr
  <2>1. CASE ~HasRival(p.db, name)
    BY <1>1, <2>1 DEF Others, PairOK, DbOK, Distinct, OnePerAddr
  <2>2. CASE HasRival(p.db, name)
    <3>1. rival \in p.db.leases /\ rival.name = name
      BY <2>2 DEF HasRival, Rival
    <3>2. d.leases = (p.db.leases \ {rival}) \cup {kill_name(rival)}
      BY <2>2 DEF Put
    <3> HIDE DEF rival, d
    <3>3. rival \in Lease /\ rival # p.lease
      BY <1>1, <3>1 DEF Db
    <3>4. CoreOf(kill_name(rival)) = CoreOf(rival)
          /\ kill_name(rival).addr = rival.addr
      BY <3>3 DEF CoreOf, kill_name, Lease
    <3>5. rival.addr # p.lease.addr
      BY <1>1, <3>1, <3>3 DEF PairOK, DbOK, Distinct, OnePerAddr
    <3>6. \A l \in p.db.leases \ {p.lease} : l.addr # p.lease.addr
      BY <1>1 DEF PairOK, DbOK, Distinct, OnePerAddr
    <3> DEFINE S == p.db.leases \ {p.lease, rival}
    <3>7. /\ d.leases \ {p.lease} = S \cup {kill_name(rival)}
          /\ p.db.leases \ {p.lease} = S \cup {rival}
      BY <3>1, <3>2, <3>3, <3>4, <3>5
    <3> HIDE DEF S
    <3>8. Cores(S \cup {kill_name(rival)}) = Cores(S \cup {rival})
      BY <3>4 DEF Cores
    <3>9. \A l \in d.leases \ {p.lease} : l.addr # p.lease.addr
      BY <3>2, <3>4, <3>5, <3>6
    <3> QED BY <3>7, <3>8, <3>9 DEF Others
  <2> QED BY <2>1, <2>2
<1> HIDE DEF d, new
<1>5. Put(d, p.lease, new, TRUE, TRUE).leases \ {new} = d.leases \ {p.lease}
  <2>1. new \notin d.leases \ {p.lease}
    BY <1>2, <1>4
  <2> QED BY <2>1 DEF Put
<1> DEFINE e == Put(d, p.lease, new, TRUE, TRUE)
<1> HIDE DEF e
<1> DEFINE q == TakeName(p, name, auth)
<1>6. q = [lease |-> new, db |-> e] /\ e.leases \ {new} = d.leases \ {p.lease}
  BY <1>3, <1>5 DEF e
<1> HIDE DEF q
<1>7. q.lease = new /\ q.db = e
  BY <1>6
<1>8. Others(q) = Cores(d.leases \ {p.lease}) /\ CoreOf(q.lease) = CoreOf(p.lease)
  BY <1>2, <1>6, <1>7 DEF Others
<1> QED
  BY <1>4, <1>8 DEF q

(* lease_set_hostname changes nothing that matters to a client.            *)
LEMMA SetHostnameOthers ==
  ASSUME NEW p, PairOK(p), NEW name \in Names, NEW auth \in BOOLEAN
  PROVE  LET q == lease_set_hostname(p, name, auth)
         IN  Others(q) = Others(p) /\ CoreOf(q.lease) = CoreOf(p.lease)
<1> DEFINE new == [p.lease EXCEPT !.auth = auth]
<1>1. p.lease \in Lease
  BY DEF PairOK, DbOK, Db
<1>2. CASE p.lease.name = name
  <2>1. lease_set_hostname(p, name, auth) =
          [lease |-> new, db |-> Put(p.db, p.lease, new, FALSE, FALSE)]
    BY <1>2 DEF lease_set_hostname
  <2>2. new.addr = p.lease.addr /\ CoreOf(new) = CoreOf(p.lease)
    BY <1>1 DEF Lease, CoreOf
  <2> HIDE DEF new
  <2>3. Others([lease |-> new, db |-> Put(p.db, p.lease, new, FALSE, FALSE)])
        = Others(p)
    BY <2>2, PutOthers
  <2> QED BY <2>1, <2>2, <2>3
<1>3. CASE p.lease.name # name
  <2>1. \/ lease_set_hostname(p, name, auth) = p
        \/ lease_set_hostname(p, name, auth) = TakeName(p, name, auth)
    BY <1>3 DEF lease_set_hostname
  <2> QED BY <1>3, <2>1, TakeNameOthers
<1> QED
  BY <1>2, <1>3

(* The lease that Bind leaves behind.                                      *)
BoundCore(l, hw, clid, exp) ==
    [addr |-> l.addr, hw |-> hw, clid |-> IF clid # NoClid THEN clid ELSE l.clid,
     expires |-> exp]

(* Binding a lease to a client changes that lease and no other.            *)
LEMMA BindCores ==
  ASSUME NEW p, PairOK(p), NEW hw \in HW, NEW clid \in AnyClid,
         NoOther(p.db, p.lease, clid), NEW host \in Host, NEW exp \in Nat
  PROVE  Cores(Bind(p, hw, clid, host, exp).leases) =
           Others(p) \cup {BoundCore(p.lease, hw, clid, exp)}
<1> DEFINE p1 == lease_set_hwaddr(p, hw, clid)
           p2 == IF host.name # NoName
                 THEN lease_set_hostname(p1, host.name, host.auth) ELSE p1
           p3 == lease_set_expires(p2, exp)
           new1 == [p.lease EXCEPT !.hw = hw,
                                   !.clid = IF clid # NoClid THEN clid ELSE @]
<1>1. p.lease \in Lease
  BY DEF PairOK, DbOK, Db
<1>2. Kept(p, p1)
  BY SetHwaddrKept DEF AnyClid, NoOther
<1>3. p1 = [lease |-> new1, db |-> Put(p.db, p.lease, new1, new1 # p.lease, FALSE)]
  BY DEF lease_set_hwaddr
<1>4. /\ new1.addr = p.lease.addr /\ new1.hw = hw
      /\ new1.clid = IF clid # NoClid THEN clid ELSE p.lease.clid
  BY <1>1 DEF Lease
<1> HIDE DEF new1
<1>5. Others(p1) = Others(p) /\ p1.lease = new1
  <2>1. Others([lease |-> new1,
                db |-> Put(p.db, p.lease, new1, new1 # p.lease, FALSE)])
        = Others(p)
    BY <1>4, PutOthers
  <2> QED BY <1>3, <2>1
<1> HIDE DEF p1
<1>6. PairOK(p1)
  BY <1>2 DEF Kept
<1>7. PairOK(p2) /\ Others(p2) = Others(p1) /\ CoreOf(p2.lease) = CoreOf(p1.lease)
  <2>1. CASE host.name # NoName
    <3>1. host.name \in Names /\ host.auth \in BOOLEAN
      BY <2>1 DEF Host
    <3> DEFINE q == lease_set_hostname(p1, host.name, host.auth)
    <3>2. Kept(p1, q)
      BY <1>6, <3>1, SetHostnameKept
    <3>3. Others(q) = Others(p1) /\ CoreOf(q.lease) = CoreOf(p1.lease)
      BY <1>6, <3>1, SetHostnameOthers
    <3>4. p2 = q
      BY <2>1
    <3> HIDE DEF p2, q
    <3> QED BY <3>2, <3>3, <3>4 DEF Kept
  <2>2. CASE host.name = NoName
    BY <1>6, <2>2
  <2> QED BY <2>1, <2>2
<1>8. Bind(p, hw, clid, host, exp) = p3.db
  BY DEF Bind, p1
<1> HIDE DEF p2
<1> DEFINE new3 == [p2.lease EXCEPT !.expires = exp]
<1>9. p3 = [lease |-> new3, db |-> Put(p2.db, p2.lease, new3, new3 # p2.lease,
                                       new3 # p2.lease)]
  BY DEF lease_set_expires
<1>10. p2.lease \in Lease
  BY <1>7 DEF PairOK, DbOK, Db
<1>11. /\ new3.addr = p2.lease.addr /\ new3.hw = p2.lease.hw
       /\ new3.clid = p2.lease.clid /\ new3.expires = exp
  BY <1>10 DEF Lease
<1> HIDE DEF new3
<1>12. Others(p3) = Others(p2) /\ p3.lease = new3 /\ new3 \in p3.db.leases
  <2>1. Others([lease |-> new3,
                db |-> Put(p2.db, p2.lease, new3, new3 # p2.lease,
                           new3 # p2.lease)]) = Others(p2)
    BY <1>7, <1>11, PutOthers
  <2> QED BY <1>9, <2>1 DEF Put
<1> HIDE DEF p3
<1>13. CoreOf(new3) = BoundCore(p.lease, hw, clid, exp)
  <2>1. /\ p2.lease.addr = p1.lease.addr /\ p2.lease.hw = p1.lease.hw
        /\ p2.lease.clid = p1.lease.clid
    BY <1>7 DEF CoreOf
  <2> QED BY <1>4, <1>5, <1>11, <2>1 DEF CoreOf, BoundCore
<1>14. Cores(p3.db.leases) = Others(p3) \cup {CoreOf(new3)}
  BY <1>12 DEF Others, Cores
<1> QED
  BY <1>5, <1>7, <1>8, <1>12, <1>13, <1>14

(* The lease at hand, and all the others, of a database.                   *)
LEMMA OthersOf ==
  ASSUME NEW d, DbOK(d), NEW l \in d.leases
  PROVE  LET p == [lease |-> l, db |-> d]
         IN  /\ PairOK(p) /\ Others(p) \subseteq Cores(d.leases)
             /\ \A x \in Cores(d.leases) \ Others(p) : x = CoreOf(l)
<1> DEFINE p == [lease |-> l, db |-> d]
<1>1. p.lease = l /\ p.db = d
  OBVIOUS
<1> HIDE DEF p
<1>2. PairOK(p)
  BY <1>1 DEF PairOK
<1>3. Others(p) \subseteq Cores(d.leases)
  BY <1>1 DEF Others, Cores
<1>4. \A x \in Cores(d.leases) \ Others(p) : x = CoreOf(l)
  BY <1>1 DEF Others, Cores
<1> QED
  BY <1>2, <1>3, <1>4 DEF p

(* A new lease leaves the others as they were.                             *)
LEMMA OthersOfNew ==
  ASSUME NEW d, DbOK(d), NEW a \in Addr, NEW hw \in HW,
         lease_find_by_addr(d, a) = {}, d.leases_left # 0
  PROVE  LET p == lease_allocate(d, a, hw)
         IN  /\ PairOK(p) /\ Others(p) = Cores(d.leases)
             /\ p.db.leases = d.leases \cup {p.lease}
             /\ p.lease.addr = a /\ p.lease.clid = NoClid /\ p.lease.name = NoName
<1> DEFINE p == lease_allocate(d, a, hw)
<1>1. PairOK(p) /\ p.db.leases = d.leases \cup {p.lease}
  BY AllocateOK
<1>2. p.lease.addr = a /\ p.lease.clid = NoClid /\ p.lease.name = NoName
  BY DEF lease_allocate
<1> HIDE DEF p
<1>3. p.lease \notin d.leases
  BY <1>2 DEF lease_find_by_addr
<1>4. (d.leases \cup {p.lease}) \ {p.lease} = d.leases
  BY <1>3
<1> QED
  BY <1>1, <1>2, <1>4 DEF Others, p

-----------------------------------------------------------------------------
(* Host names.  What matters of a lease to lease_set_hostname.             *)
NameOf(l) == [addr |-> l.addr, name |-> l.name, auth |-> l.auth]

NamesOf(S) == {NameOf(l) : l \in S}

(* How names N become names M when at most the lease of address a is given *)
(* a name: the others keep theirs or lose it, and a name that somebody has *)
(* on authority goes to that lease on authority only.                      *)
RenameOK(N, a, k) ==
    \/ k.addr # a /\ \E x \in N : x.addr = k.addr /\ k.name \in {x.name, NoName}
    \/ /\ k.addr = a
       /\ \/ k.auth \/ k.name = NoName
          \/ \E x \in N : x.addr = a /\ x.name = k.name
          \/ \A x \in N : x.name = k.name => ~x.auth

RenamesAt(N, a, M) == \A k \in M : RenameOK(N, a, k)

(* The same after some leases are dropped first.                           *)
Renames(N, M) == \E K \in SUBSET N : \E a \in AnyAddr : RenamesAt(K, a, M)

(* Dropping leases gives nobody a name.                                    *)
LEMMA ShrinkRenames ==
  ASSUME NEW S \in SUBSET Lease, NEW T \in SUBSET S
  PROVE  Renames(NamesOf(S), NamesOf(T))
<1>1. NamesOf(T) \in SUBSET NamesOf(S)
  BY DEF NamesOf
<1>2. \A k \in NamesOf(T) : k.addr \in Addr
  BY DEF NamesOf, NameOf, Lease
<1>3. RenamesAt(NamesOf(T), NoAddr, NamesOf(T))
  BY <1>2, AddrAssumption DEF RenamesAt, RenameOK
<1>4. NoAddr \in AnyAddr
  BY DEF AnyAddr
<1> QED
  BY <1>1, <1>3, <1>4 DEF Renames

(* Leases that are dropped first do not matter.                            *)
LEMMA RenamesAfter ==
  ASSUME NEW N, NEW K \in SUBSET N, NEW M, Renames(K, M)
  PROVE  Renames(N, M)
<1>1. PICK J \in SUBSET K : \E a \in AnyAddr : RenamesAt(J, a, M)
  BY DEF Renames
<1>2. J \in SUBSET N
  BY <1>1
<1> QED
  BY <1>1, <1>2 DEF Renames

(* A new lease has no name.                                                *)
LEMMA RenamesNew ==
  ASSUME NEW N, NEW b, NEW a, b.addr = a, b.name = NoName, NEW M,
         RenamesAt(N \cup {b}, a, M)
  PROVE  RenamesAt(N, a, M)
<1> SUFFICES ASSUME NEW k \in M PROVE RenameOK(N, a, k)
  BY DEF RenamesAt
<1> QED
  BY DEF RenamesAt, RenameOK

(* lease_set_hostname names the lease at hand; its rival loses the name.   *)
LEMMA SetHostnameRenames ==
  ASSUME NEW p, PairOK(p), NEW name \in Names, NEW auth \in BOOLEAN
  PROVE  RenamesAt(NamesOf(p.db.leases), p.lease.addr,
                   NamesOf(lease_set_hostname(p, name, auth).db.leases))
<1> DEFINE q == lease_set_hostname(p, name, auth)
           a == p.lease.addr
           N == NamesOf(p.db.leases)
           M == NamesOf(q.db.leases)
<1>1. p.lease \in Lease /\ p.lease \in p.db.leases /\ p.db.leases \in SUBSET Lease
  BY DEF PairOK, DbOK, Db
<1>2. NameOf(p.lease) \in N
  BY <1>1 DEF NamesOf
<1>3. ASSUME NEW l \in p.db.leases \ {p.lease}
      PROVE  NameOf(l) \in N /\ NameOf(l).addr # a
  BY <1>1 DEF NamesOf, NameOf, PairOK, DbOK, Distinct, OnePerAddr
<1>4. CASE p.lease.name = name
  <2> DEFINE new == [p.lease EXCEPT !.auth = auth]
  <2>1. q = [lease |-> new, db |-> Put(p.db, p.lease, new, FALSE, FALSE)]
    BY <1>4 DEF lease_set_hostname
  <2>2. q.db.leases = (p.db.leases \ {p.lease}) \cup {new}
    BY <2>1 DEF Put
  <2>3. NameOf(new).addr = a /\ NameOf(new).name = NameOf(p.lease).name
    BY <1>1 DEF NameOf, Lease
  <2>4. NameOf(p.lease).addr = a
    BY DEF NameOf
  <2> HIDE DEF q, new, a, N
  <2>5. \A k \in M : k = NameOf(new) \/ \E l \in p.db.leases \ {p.lease} : k = NameOf(l)
    BY <2>2 DEF NamesOf
  <2> HIDE DEF M
  <2>6. RenamesAt(N, a, M)
    BY <1>2, <1>3, <2>3, <2>4, <2>5 DEF RenamesAt, RenameOK
  <2> QED BY <2>6 DEF q, a, N, M
<1>5. CASE p.lease.name # name /\ HasRival(p.db, name)
           /\ Rival(p.db, name).auth /\ ~auth
  <2>1. q = p
    BY <1>5 DEF lease_set_hostname
  <2>2. NameOf(p.lease).addr = a
    BY DEF NameOf
  <2>3. \A k \in N : k = NameOf(p.lease)
                     \/ \E l \in p.db.leases \ {p.lease} : k = NameOf(l)
    BY DEF NamesOf
  <2>4. M = N
    BY <2>1
  <2> HIDE DEF q, a, N, M
  <2>5. RenamesAt(N, a, M)
    BY <1>2, <1>3, <2>2, <2>3, <2>4 DEF RenamesAt, RenameOK
  <2> QED BY <2>5 DEF q, a, N, M
<1>6. CASE p.lease.name # name
           /\ ~(HasRival(p.db, name) /\ Rival(p.db, name).auth /\ ~auth)
  <2> DEFINE rival == Rival(p.db, name)
             new == [p.lease EXCEPT !.name = name, !.auth = auth]
             d == IF HasRival(p.db, name)
                  THEN Put(p.db, rival, kill_name(rival), TRUE, TRUE) ELSE p.db
             e == Put(d, p.lease, new, TRUE, TRUE)
  <2>1. q = [lease |-> new, db |-> e]
    BY <1>6 DEF lease_set_hostname, TakeName
  <2>2. q.db = e
    BY <2>1
  <2>3. e.leases = (d.leases \ {p.lease}) \cup {new}
    BY DEF Put
  <2>4. NameOf(new).addr = a /\ NameOf(new).name = name /\ NameOf(new).auth = auth
    BY <1>1 DEF NameOf, Lease
  <2>5. \A l \in d.leases \ {p.lease} :
           \/ l \in p.db.leases \ {p.lease}
           \/ HasRival(p.db, name) /\ l = kill_name(rival)
    BY DEF Put
  <2>6. ASSUME HasRival(p.db, name)
        PROVE  /\ rival \in p.db.leases \ {p.lease} /\ rival.name = name
               /\ NameOf(kill_name(rival)).addr = NameOf(rival).addr
               /\ NameOf(kill_name(rival)).name = NoName
               /\ \A x \in N : x.name = name => x = NameOf(rival)
    <3>1. rival \in p.db.leases /\ rival.name = name
      BY <2>6 DEF HasRival, Rival
    <3> HIDE DEF rival
    <3>2. rival \in p.db.leases \ {p.lease} /\ rival \in Lease
      BY <1>1, <1>6, <3>1
    <3>3. /\ NameOf(kill_name(rival)).addr = NameOf(rival).addr
          /\ NameOf(kill_name(rival)).name = NoName
      BY <3>2 DEF NameOf, kill_name, Lease
    <3>4. ASSUME NEW x \in N, x.name = name PROVE x = NameOf(rival)
      <4>1. PICK l \in p.db.leases : x = NameOf(l)
        BY <3>4 DEF NamesOf
      <4>2. l.name = rival.name /\ rival.name # NoName
        BY <3>1, <3>4, <4>1, NullAssumption DEF NameOf
      <4>3. l = rival
        BY <3>1, <4>1, <4>2 DEF PairOK, DbOK, Distinct, OnePerName
      <4> QED BY <4>1, <4>3
    <3> QED BY <3>1, <3>2, <3>3, <3>4
  <2>7. auth \/ \A x \in N : x.name = name => ~x.auth
    <3> SUFFICES ASSUME ~auth, NEW x \in N, x.name = name PROVE ~x.auth
      OBVIOUS
    <3>1. CASE HasRival(p.db, name)
      BY <1>6, <2>6, <3>1 DEF NameOf
    <3>2. CASE ~HasRival(p.db, name)
      BY <3>2 DEF HasRival, NamesOf, NameOf
    <3> QED BY <3>1, <3>2
  <2>8. \A k \in M : \/ k = NameOf(new)
                     \/ \E l \in p.db.leases \ {p.lease} : k = NameOf(l)
                     \/ HasRival(p.db, name) /\ k = NameOf(kill_name(rival))
    <3> HIDE DEF q, e, d, new, rival
    <3> QED BY <2>2, <2>3, <2>5 DEF NamesOf
  <2> HIDE DEF q, e, d, new, rival, a, N, M
  <2>9. RenamesAt(N, a, M)
    <3> SUFFICES ASSUME NEW k \in M PROVE RenameOK(N, a, k)
      BY DEF RenamesAt
    <3>1. CASE k = NameOf(new)
      BY <2>4, <2>7, <3>1 DEF RenameOK
    <3>2. CASE \E l \in p.db.leases \ {p.lease} : k = NameOf(l)
      BY <1>3, <3>2 DEF RenameOK
    <3>3. CASE HasRival(p.db, name) /\ k = NameOf(kill_name(rival))
      BY <1>3, <2>6, <3>3 DEF RenameOK
    <3> QED BY <2>8, <3>1, <3>2, <3>3
  <2> QED BY <2>9 DEF q, a, N, M
<1> QED
  BY <1>4, <1>5, <1>6

(* Setting a field that is not the name.                                   *)
LEMMA PutNames ==
  ASSUME NEW p, PairOK(p), NEW new, NameOf(new) = NameOf(p.lease),
         NEW fd \in BOOLEAN, NEW dd \in BOOLEAN
  PROVE  NamesOf(Put(p.db, p.lease, new, fd, dd).leases) = NamesOf(p.db.leases)
<1>1. p.lease \in p.db.leases
  BY DEF PairOK
<1>2. Put(p.db, p.lease, new, fd, dd).leases = (p.db.leases \ {p.lease}) \cup {new}
  BY DEF Put
<1> QED
  BY <1>1, <1>2 DEF NamesOf

(* Binding a lease to a client names that lease only.                      *)
LEMMA BindRenames ==
  ASSUME NEW p, PairOK(p), NEW hw \in HW, NEW clid \in AnyClid,
         NoOther(p.db, p.lease, clid), NEW host \in Host, NEW exp \in Nat
  PROVE  RenamesAt(NamesOf(p.db.leases), p.lease.addr,
                   NamesOf(Bind(p, hw, clid, host, exp).leases))
<1> DEFINE p1 == lease_set_hwaddr(p, hw, clid)
           p2 == IF host.name # NoName
                 THEN lease_set_hostname(p1, host.name, host.auth) ELSE p1
           p3 == lease_set_expires(p2, exp)
           new1 == [p.lease EXCEPT !.hw = hw,
                                   !.clid = IF clid # NoClid THEN clid ELSE @]
<1>1. p.lease \in Lease
  BY DEF PairOK, DbOK, Db
<1>2. Kept(p, p1)
  BY SetHwaddrKept DEF AnyClid, NoOther
<1>3. p1 = [lease |-> new1, db |-> Put(p.db, p.lease, new1, new1 # p.lease, FALSE)]
  BY DEF lease_set_hwaddr
<1>4. NameOf(new1) = NameOf(p.lease)
  BY <1>1 DEF Lease, NameOf
<1> HIDE DEF new1
<1>5. NamesOf(p1.db.leases) = NamesOf(p.db.leases)
  <2> DEFINE e == Put(p.db, p.lease, new1, new1 # p.lease, FALSE)
  <2>1. NamesOf(e.leases) = NamesOf(p.db.leases)
    BY <1>4, PutNames
  <2> HIDE DEF e
  <2>2. p1 = [lease |-> new1, db |-> e]
    BY <1>3 DEF e
  <2> HIDE DEF p1
  <2> QED BY <2>1, <2>2
<1> HIDE DEF p1
<1>6. PairOK(p1) /\ p1.lease.addr = p.lease.addr
  BY <1>2 DEF Kept
<1>7. /\ PairOK(p2)
      /\ RenamesAt(NamesOf(p1.db.leases), p1.lease.addr, NamesOf(p2.db.leases))
  <2>1. CASE host.name # NoName
    <3>1. host.name \in Names /\ host.auth \in BOOLEAN
      BY <2>1 DEF Host
    <3> DEFINE q == lease_set_hostname(p1, host.name, host.auth)
    <3>2. Kept(p1, q)
      BY <1>6, <3>1, SetHostnameKept
    <3>3. RenamesAt(NamesOf(p1.db.leases), p1.lease.addr, NamesOf(q.db.leases))
      BY <1>6, <3>1, SetHostnameRenames
    <3>4. p2 = q
      BY <2>1
    <3> HIDE DEF p2, q
    <3> QED BY <3>2, <3>3, <3>4 DEF Kept
  <2>2. CASE host.name = NoName
    <3>1. p2 = p1
      BY <2>2
    <3> HIDE DEF p2
    <3> QED BY <1>6, <3>1 DEF RenamesAt, RenameOK
  <2> QED BY <2>1, <2>2
<1>8. Bind(p, hw, clid, host, exp) = p3.db
  BY DEF Bind, p1
<1> HIDE DEF p2
<1> DEFINE new3 == [p2.lease EXCEPT !.expires = exp]
<1>9. p3 = [lease |-> new3, db |-> Put(p2.db, p2.lease, new3, new3 # p2.lease,
                                       new3 # p2.lease)]
  BY DEF lease_set_expires
<1>10. p2.lease \in Lease
  BY <1>7 DEF PairOK, DbOK, Db
<1>11. NameOf(new3) = NameOf(p2.lease)
  BY <1>10 DEF Lease, NameOf
<1> HIDE DEF new3
<1>12. NamesOf(p3.db.leases) = NamesOf(p2.db.leases)
  <2>1. NamesOf(Put(p2.db, p2.lease, new3, new3 # p2.lease, new3 # p2.lease).leases)
        = NamesOf(p2.db.leases)
    BY <1>7, <1>11, PutNames
  <2> QED BY <1>9, <2>1
<1> HIDE DEF p3
<1> QED
  BY <1>5, <1>6, <1>7, <1>8, <1>12

(* A name on authority does not go to another lease that is still there,   *)
(* other than on authority.                                                *)
LEMMA RenamesKeep ==
  ASSUME NEW S \in SUBSET Lease, Distinct(S), NEW T,
         Renames(NamesOf(S), NamesOf(T)),
         NEW l \in S, NEW k \in T, NEW j \in T,
         l.auth, l.name # NoName, k.name = l.name, k.addr # l.addr,
         j.addr = l.addr
  PROVE  k.auth
<1>1. PICK K \in SUBSET NamesOf(S) : \E a \in AnyAddr : RenamesAt(K, a, NamesOf(T))
  BY DEF Renames
<1>2. PICK a \in AnyAddr : RenamesAt(K, a, NamesOf(T))
  BY <1>1
<1>3. NameOf(k) \in NamesOf(T) /\ NameOf(j) \in NamesOf(T)
  BY DEF NamesOf
<1>4. /\ NameOf(k).addr = k.addr /\ NameOf(k).name = k.name /\ NameOf(k).auth = k.auth
      /\ NameOf(j).addr = j.addr
      /\ NameOf(l).addr = l.addr /\ NameOf(l).name = l.name /\ NameOf(l).auth = l.auth
  BY DEF NameOf
<1>5. \A x \in K : x.addr = l.addr \/ x.name = l.name => x = NameOf(l)
  <2> SUFFICES ASSUME NEW x \in K, x.addr = l.addr \/ x.name = l.name
               PROVE  x = NameOf(l)
    OBVIOUS
  <2>1. PICK y \in S : x = NameOf(y)
    BY <1>1 DEF NamesOf
  <2>2. y.addr = l.addr \/ y.name = l.name
    BY <2>1 DEF NameOf
  <2>3. y = l
    BY <2>2 DEF Distinct, OnePerAddr, OnePerName
  <2> QED BY <2>1, <2>3
<1>6. k.addr = a
  BY <1>2, <1>3, <1>4, <1>5 DEF RenamesAt, RenameOK
<1>7. NameOf(l) \in K
  BY <1>2, <1>3, <1>4, <1>5, <1>6 DEF RenamesAt, RenameOK
<1> QED
  BY <1>2, <1>3, <1>4, <1>5, <1>6, <1>7 DEF RenamesAt, RenameOK

-----------------------------------------------------------------------------
(* From database d to database e with honest dirty flags, and no name on   *)
(* authority given away.                                                   *)
Moves(d, e) == Honest(d, e) /\ Renames(NamesOf(d.leases), NamesOf(e.leases))

(* What may come out of dhcp_reply for a database d: a database in order   *)
(* without expired leases, and a well-formed packet.                       *)
OutcomeOK(d, o) ==
    /\ Pruned(o.db) /\ Moves(d, o.db)
    /\ o.declined \in [Configs -> Nat]
    /\ o.reply \in Reply \cup {NoReply}
    /\ Granted(o.reply) => o.reply.yiaddr \in Addr

(* Nothing happens, or leases are dropped.                                 *)
LEMMA ShrinkMoves ==
  ASSUME NEW d, DbOK(d), NEW e, Honest(d, e), e.leases \subseteq d.leases
  PROVE  Moves(d, e)
<1>1. d.leases \in SUBSET Lease /\ e.leases \in SUBSET d.leases
  BY DEF DbOK, Db
<1>2. Renames(NamesOf(d.leases), NamesOf(e.leases))
  BY <1>1, ShrinkRenames
<1> QED
  BY <1>2 DEF Moves

(* The database as it is.                                                  *)
LEMMA SelfMoves ==
  ASSUME NEW d, DbOK(d)
  PROVE  Moves(d, d)
BY ShrinkMoves DEF Honest

(* Leases are dropped, and then more happens.                              *)
LEMMA MovesAfter ==
  ASSUME NEW d, NEW e, NEW f, Honest(d, e), e.leases \subseteq d.leases,
         Moves(e, f)
  PROVE  Moves(d, f)
<1>1. Honest(d, f)
  BY HonestTrans DEF Moves
<1>2. NamesOf(e.leases) \in SUBSET NamesOf(d.leases)
  BY DEF NamesOf
<1>3. Renames(NamesOf(d.leases), NamesOf(f.leases))
  BY <1>2, RenamesAfter DEF Moves
<1> QED
  BY <1>1, <1>3 DEF Moves

(* lease_prune on a database that has been pruned: only the target goes.   *)
LEMMA PruneMoves ==
  ASSUME NEW d, Pruned(d), NEW target
  PROVE  LET e == lease_prune(d, target, now)
         IN  /\ Pruned(e) /\ Honest(d, e) /\ Moves(d, e)
             /\ e.leases \subseteq d.leases
             /\ \A l \in d.leases : l \notin target => l \in e.leases
<1> DEFINE e == lease_prune(d, target, now)
<1>1. /\ Pruned(e) /\ Honest(d, e)
      /\ \A l \in d.leases : l \notin target => l \in e.leases
  BY PruneAgain
<1>2. e.leases \subseteq d.leases
  BY DEF lease_prune
<1> HIDE DEF e
<1>3. Moves(d, e)
  BY <1>1, <1>2, ShrinkMoves DEF Pruned
<1> QED
  BY <1>1, <1>2, <1>3 DEF e

(* The lines that bind a lease to a client keep the database in order.     *)
LEMMA BindOK ==
  ASSUME NEW p, PairOK(p), NEW hw \in HW, NEW clid \in AnyClid,
         NoOther(p.db, p.lease, clid),
         NEW host \in Host, NEW exp \in Nat
  PROVE  DbOK(Bind(p, hw, clid, host, exp))
         /\ Honest(p.db, Bind(p, hw, clid, host, exp))
<1> DEFINE p1 == lease_set_hwaddr(p, hw, clid)
           p2 == IF host.name # NoName
                 THEN lease_set_hostname(p1, host.name, host.auth) ELSE p1
           p3 == lease_set_expires(p2, exp)
<1>1. Kept(p, p1)
  BY SetHwaddrKept DEF AnyClid, NoOther
<1> HIDE DEF p1
<1>2. Kept(p1, p2)
  <2>1. PairOK(p1)
    BY <1>1 DEF Kept
  <2>2. CASE host.name # NoName
    <3>1. host.name \in Names /\ host.auth \in BOOLEAN
      BY <2>2 DEF Host
    <3>2. Kept(p1, lease_set_hostname(p1, host.name, host.auth))
      BY <2>1, <3>1, SetHostnameKept
    <3> QED BY <2>2, <3>2
  <2>3. CASE host.name = NoName
    BY <2>1, <2>3 DEF Kept, Honest
  <2> QED BY <2>2, <2>3
<1>3. Bind(p, hw, clid, host, exp) = p3.db
  BY DEF Bind, p1
<1> HIDE DEF p2
<1>4. Kept(p2, p3)
  BY <1>2, SetExpiresKept DEF Kept
<1> HIDE DEF p3
<1>5. Kept(p, p3)
  BY <1>1, <1>2, <1>4, KeptTrans
<1> QED
  BY <1>3, <1>5 DEF Kept, PairOK

(* A lease of d, or a new one, bound to a client until a time to come.     *)
LEMMA BindMoves ==
  ASSUME Env, NEW d, Pruned(d), NEW p, PairOK(p), Honest(d, p.db),
         Others(p) \subseteq Cores(d.leases),
         \/ p.db.leases = d.leases
         \/ p.db.leases = d.leases \cup {p.lease} /\ p.lease.name = NoName,
         NEW hw \in HW, NEW clid \in AnyClid, NoOther(p.db, p.lease, clid),
         NEW host \in Host, NEW exp \in Nat, exp = 0 \/ now <= exp
  PROVE  Pruned(Bind(p, hw, clid, host, exp))
         /\ Moves(d, Bind(p, hw, clid, host, exp))
<1> DEFINE e == Bind(p, hw, clid, host, exp)
           a == p.lease.addr
           N == NamesOf(d.leases)
           M == NamesOf(e.leases)
<1>1. DbOK(e) /\ Honest(p.db, e)
  BY BindOK
<1>2. Cores(e.leases) = Others(p) \cup {BoundCore(p.lease, hw, clid, exp)}
  BY BindCores
<1>3. RenamesAt(NamesOf(p.db.leases), a, M)
  BY BindRenames
<1> HIDE DEF e
<1>4. ASSUME NEW k \in e.leases PROVE ~Expired(k, now)
  <2>1. CoreOf(k).expires = k.expires /\ CoreOf(k) \in Cores(e.leases)
    BY DEF CoreOf, Cores
  <2>2. CASE CoreOf(k) = BoundCore(p.lease, hw, clid, exp)
    <3>1. k.expires = exp
      BY <2>1, <2>2 DEF BoundCore
    <3> QED BY <3>1 DEF Expired, Env
  <2>3. CASE CoreOf(k) \in Cores(d.leases)
    <3>1. PICK l \in d.leases : CoreOf(k) = CoreOf(l)
      BY <2>3 DEF Cores
    <3>2. k.expires = l.expires
      BY <3>1 DEF CoreOf
    <3> QED BY <3>1, <3>2 DEF Pruned, Expired
  <2> QED BY <1>2, <2>1, <2>2, <2>3
<1>5. RenamesAt(N, a, M)
  <2>1. CASE p.db.leases = d.leases
    BY <1>3, <2>1
  <2>2. CASE p.db.leases = d.leases \cup {p.lease} /\ p.lease.name = NoName
    <3>1. NamesOf(p.db.leases) = N \cup {NameOf(p.lease)}
      BY <2>2 DEF NamesOf
    <3>2. NameOf(p.lease).addr = a /\ NameOf(p.lease).name = NoName
      BY <2>2 DEF NameOf
    <3> HIDE DEF N, M, a
    <3> QED BY <1>3, <3>1, <3>2, RenamesNew
  <2> QED BY <2>1, <2>2
<1>6. a \in AnyAddr
  BY DEF PairOK, DbOK, Db, Lease, AnyAddr
<1>7. Renames(N, M)
  BY <1>5, <1>6 DEF Renames
<1>8. Honest(d, e)
  BY <1>1, HonestTrans
<1> QED
  BY <1>1, <1>4, <1>7, <1>8 DEF Pruned, Moves, e

(* The reply packet is well formed and carries the address it is given.    *)
LEMMA PacketType ==
  ASSUME Env, NEW m \in Messages, NEW a \in AnyAddr, NEW until \in Nat,
         NEW type \in {"OFFER", "ACK", "NAK", "INFORMED", "BOOTP"}
  PROVE  /\ Packet(type, m, a, until) \in Reply
         /\ Packet(type, m, a, until).yiaddr = a
         /\ Packet(type, m, a, until).type = type
BY MessageAssumption DEF Packet, Reply, Message, AnyAddr

(* Sending nothing is always in order.                                     *)
LEMMA SilentOK ==
  ASSUME Env, NEW d, NEW e, Pruned(e), Moves(d, e)
  PROVE  OutcomeOK(d, Silent(e))
BY DEF OutcomeOK, Silent, Outcome, Env, Granted

(* A DHCPNAK grants nothing.                                               *)
LEMMA NakOK ==
  ASSUME Env, NEW d, NEW e, Pruned(e), Moves(d, e), NEW m \in Messages
  PROVE  OutcomeOK(d, Nak(e, m))
<1>1. Packet("NAK", m, NoAddr, now) \in Reply
      /\ Packet("NAK", m, NoAddr, now).type = "NAK"
  BY PacketType DEF AnyAddr, Env
<1> QED
  BY <1>1 DEF OutcomeOK, Nak, Outcome, Env, Granted

(* Any reply on a database in order, a grant being of a real address.      *)
LEMMA AnswerOK ==
  ASSUME Env, NEW d, NEW e, Pruned(e), Moves(d, e), NEW r \in Reply,
         r.yiaddr \in Addr \/ r.type \in {"OFFER", "NAK", "INFORMED"}
  PROVE  OutcomeOK(d, Outcome(e, r))
BY DEF OutcomeOK, Outcome, Env, Granted

-----------------------------------------------------------------------------
(* The lookups return what the configuration holds.                        *)
LEMMA FindConfigType ==
  ASSUME NEW hw, NEW clid
  PROVE  find_config(hw, clid) \in Configs \cup {NoConfig}
BY DEF find_config

(* The second lookup, by the name the client supplies, too.                *)
LEMMA FindByNameType ==
  ASSUME NEW cfg \in Configs \cup {NoConfig}, NEW name
  PROVE  find_config_by_name(cfg, name) \in Configs \cup {NoConfig}
BY DEF find_config_by_name

(* The address of a dhcp-host line is on the subnet.                       *)
LEMMA HasAddrType ==
  ASSUME NEW cfg \in Configs \cup {NoConfig}, HasAddr(cfg)
  PROVE  cfg \in Configs /\ cfg.addr \in Addr
BY ConfigAssumption, AddrAssumption DEF HasAddr, Config

(* The name of a dhcp-host line is a name.                                 *)
LEMMA HasNameType ==
  ASSUME NEW cfg \in Configs \cup {NoConfig}, HasName(cfg)
  PROVE  cfg \in Configs /\ cfg.name \in Names
BY ConfigAssumption DEF HasName, Config

(* The host name of an ACK or a BOOTP reply.                               *)
LEMMA HostNameType ==
  ASSUME NEW m \in Messages, NEW cfg \in Configs \cup {NoConfig}, NEW a \in Addr
  PROVE  HostName(m, cfg, a) \in Host /\ BootpHost(cfg) \in Host
<1>1. HasName(cfg) => cfg.name \in Names
  BY HasNameType
<1>2. HostsName[a] \in Names \cup {NoName} /\ m.name \in Names \cup {NoName}
  BY ConfigAssumption, MessageAssumption DEF Message
<1>3. BootpHost(cfg) \in Host
  BY <1>1 DEF BootpHost, Host
<1>4. HostName(m, cfg, a) \in Host
  <2>1. CASE HasName(cfg)
    BY <1>1, <2>1 DEF HostName, Host
  <2>2. CASE ~HasName(cfg) /\ HostsName[a] # NoName
    BY <1>2, <2>2 DEF HostName, Host
  <2>3. CASE ~HasName(cfg) /\ HostsName[a] = NoName
    BY <1>2, <2>3 DEF HostName, Host
  <2> QED BY <2>1, <2>2, <2>3
<1> QED
  BY <1>3, <1>4

(* A DHCPREQUEST that is granted: on the client's lease, on the one it     *)
(* takes over, or on a new lease of an address nobody has.                 *)
LEMMA GrantOK ==
  ASSUME Env, NEW d, Pruned(d), NEW m \in Messages, NEW clid \in AnyClid,
         NEW lease \in SUBSET d.leases, NEW cfg \in Configs \cup {NoConfig},
         NEW a \in Addr, Owned(d, lease, clid)
  PROVE  \A o \in Grant(d, m, clid, lease, cfg, a) : OutcomeOK(d, o)
<1> DEFINE host == HostName(m, cfg, a)
           until == now + LeaseTime
           old == IF lease # {} THEN lease ELSE lease_find_by_addr(d, a)
<1>1. m.hw \in HW /\ until \in Nat /\ now <= until /\ host \in Host
  <2>1. m.hw \in HW
    BY MessageAssumption DEF Message
  <2>2. until \in Nat /\ now <= until
    BY TimeAssumption DEF Env
  <2>3. host \in Host
    BY HostNameType
  <2> QED BY <2>1, <2>2, <2>3
<1>2. ASSUME NEW p, PairOK(p), Honest(d, p.db), NoOther(p.db, p.lease, clid),
             Others(p) \subseteq Cores(d.leases),
             \/ p.db.leases = d.leases
             \/ p.db.leases = d.leases \cup {p.lease} /\ p.lease.name = NoName
      PROVE  OutcomeOK(d, Ack(p, m, clid, cfg, a))
  <2> DEFINE e == Bind(p, m.hw, clid, host, until)
  <2>1. Pruned(e) /\ Moves(d, e)
    <3> HIDE DEF host, until
    <3> QED BY <1>1, <1>2, BindMoves
  <2>2. Packet("ACK", m, a, until) \in Reply
        /\ Packet("ACK", m, a, until).yiaddr = a
    <3> HIDE DEF until
    <3> QED BY <1>1, PacketType DEF AnyAddr
  <2>3. Ack(p, m, clid, cfg, a) = Outcome(e, Packet("ACK", m, a, until))
    BY DEF Ack
  <2> HIDE DEF e, until
  <2> QED BY <2>1, <2>2, <2>3, AnswerOK
<1>3. DbOK(d) /\ Honest(d, d) /\ Moves(d, d)
  BY SelfMoves DEF Honest, Pruned
<1>4. ASSUME NEW l \in old
      PROVE  OutcomeOK(d, Ack([lease |-> l, db |-> d], m, clid, cfg, a))
  <2>1. l \in d.leases
    BY DEF lease_find_by_addr
  <2>2. NoOther(d, l, clid)
    BY <2>1 DEF Owned, NoOther
  <2> DEFINE p == [lease |-> l, db |-> d]
  <2>3. PairOK(p) /\ Others(p) \subseteq Cores(d.leases)
    BY <1>3, <2>1, OthersOf
  <2>4. p.db = d /\ p.lease = l
    OBVIOUS
  <2> HIDE DEF p, old
  <2>5. OutcomeOK(d, Ack(p, m, clid, cfg, a))
    BY <1>2, <1>3, <2>2, <2>3, <2>4
  <2> QED BY <2>5 DEF p
<1>5. ASSUME old = {}, d.leases_left # 0
      PROVE  OutcomeOK(d, Ack(lease_allocate(d, a, m.hw), m, clid, cfg, a))
  <2>1. lease = {} /\ lease_find_by_addr(d, a) = {}
    BY <1>5
  <2> DEFINE p == lease_allocate(d, a, m.hw)
  <2>2. /\ PairOK(p) /\ Others(p) = Cores(d.leases)
        /\ p.db.leases = d.leases \cup {p.lease} /\ p.lease.name = NoName
    BY <1>1, <1>3, <1>5, <2>1, OthersOfNew
  <2>3. Honest(d, p.db)
    BY <1>3, AllocateHonest DEF DbOK
  <2> HIDE DEF p, old
  <2>4. NoOther(p.db, p.lease, clid)
    BY <2>1, <2>2 DEF Owned, NoOther
  <2>5. OutcomeOK(d, Ack(p, m, clid, cfg, a))
    BY <1>2, <2>2, <2>3, <2>4
  <2> QED BY <2>5 DEF p
<1>6. OutcomeOK(d, Nak(d, m))
  BY <1>3, NakOK
<1>7. Grant(d, m, clid, lease, cfg, a) =
        IF old # {} THEN {Ack([lease |-> l, db |-> d], m, clid, cfg, a) :
                            l \in old}
        ELSE IF d.leases_left = 0 THEN {Nak(d, m)}
        ELSE {Ack(lease_allocate(d, a, m.hw), m, clid, cfg, a)}
  BY DEF Grant
<1> HIDE DEF old
<1> QED
  BY <1>4, <1>5, <1>6, <1>7

(* The same for BOOTP; the caller has made sure that an address without a  *)
(* lease of this client has no lease at all.                               *)
LEMMA BootpGrantOK ==
  ASSUME Env, NEW d, Pruned(d), NEW m \in Messages,
         NEW lease \in SUBSET d.leases, NEW cfg \in Configs \cup {NoConfig},
         NEW a \in Addr, lease = {} => lease_find_by_addr(d, a) = {}
  PROVE  \A o \in BootpGrant(d, m, cfg, lease, a) : OutcomeOK(d, o)
<1>1. m.hw \in HW /\ BootpHost(cfg) \in Host
  BY MessageAssumption, HostNameType DEF Message
<1>2. ASSUME NEW p, PairOK(p), Honest(d, p.db),
             Others(p) \subseteq Cores(d.leases),
             \/ p.db.leases = d.leases
             \/ p.db.leases = d.leases \cup {p.lease} /\ p.lease.name = NoName
      PROVE  OutcomeOK(d, BootpBind(p, m, cfg, a))
  <2> DEFINE e == Bind(p, m.hw, NoClid, BootpHost(cfg), 0)
  <2>1. NoClid \in AnyClid /\ NoOther(p.db, p.lease, NoClid)
    BY DEF AnyClid, NoOther
  <2>2. Pruned(e) /\ Moves(d, e)
    BY <1>1, <1>2, <2>1, BindMoves
  <2>3. Packet("BOOTP", m, a, 0) \in Reply /\ Packet("BOOTP", m, a, 0).yiaddr = a
    BY PacketType DEF AnyAddr
  <2>4. BootpBind(p, m, cfg, a) = Outcome(e, Packet("BOOTP", m, a, 0))
    BY DEF BootpBind
  <2> HIDE DEF e
  <2> QED BY <2>2, <2>3, <2>4, AnswerOK
<1>3. DbOK(d) /\ Honest(d, d) /\ Moves(d, d)
  BY SelfMoves DEF Honest, Pruned
<1>4. ASSUME NEW l \in lease
      PROVE  OutcomeOK(d, BootpBind([lease |-> l, db |-> d], m, cfg, a))
  <2> DEFINE p == [lease |-> l, db |-> d]
  <2>1. PairOK(p) /\ Others(p) \subseteq Cores(d.leases)
    BY <1>3, OthersOf
  <2>2. p.db = d
    OBVIOUS
  <2> HIDE DEF p
  <2>3. OutcomeOK(d, BootpBind(p, m, cfg, a))
    BY <1>2, <1>3, <2>1, <2>2
  <2> QED BY <2>3 DEF p
<1>5. ASSUME lease = {}, d.leases_left # 0
      PROVE  OutcomeOK(d, BootpBind(lease_allocate(d, a, m.hw), m, cfg, a))
  <2> DEFINE p == lease_allocate(d, a, m.hw)
  <2>1. /\ PairOK(p) /\ Others(p) = Cores(d.leases)
        /\ p.db.leases = d.leases \cup {p.lease} /\ p.lease.name = NoName
    BY <1>1, <1>3, <1>5, OthersOfNew
  <2>2. Honest(d, p.db)
    BY <1>3, AllocateHonest DEF DbOK
  <2> HIDE DEF p
  <2>3. OutcomeOK(d, BootpBind(p, m, cfg, a))
    BY <1>2, <2>1, <2>2
  <2> QED BY <2>3 DEF p
<1>6. OutcomeOK(d, Silent(d))
  BY <1>3, SilentOK
<1> QED
  BY <1>4, <1>5, <1>6 DEF BootpGrant

-----------------------------------------------------------------------------
(* One lemma per message type.                                             *)
LEMMA DeclineOK ==
  ASSUME Env, NEW d, Pruned(d), NEW m \in Messages, NEW lease,
         NEW cfg \in Configs \cup {NoConfig}
  PROVE  OutcomeOK(d, Decline(d, m, lease, cfg))
<1>1. CASE m.sid # Router \/ m.req = NoAddr
  <2>1. Decline(d, m, lease, cfg) = Silent(d)
    BY <1>1 DEF Decline
  <2>2. DbOK(d) /\ Moves(d, d)
    BY SelfMoves DEF Pruned
  <2> QED BY <2>1, <2>2, SilentOK
<1>2. CASE ~(m.sid # Router \/ m.req = NoAddr)
  <2> DEFINE e == lease_prune(d, {l \in lease : l.addr = m.req}, now)
             dec == IF HasAddr(cfg) /\ cfg.addr = m.req
                    THEN [declined EXCEPT ![cfg] = now] ELSE declined
  <2>1. Decline(d, m, lease, cfg) =
          [db |-> e, declined |-> dec, reply |-> NoReply]
    BY <1>2 DEF Decline
  <2>2. Pruned(e) /\ Moves(d, e)
    BY PruneMoves
  <2>3. dec \in [Configs -> Nat]
    BY DEF Env
  <2> HIDE DEF e, dec
  <2> QED BY <2>1, <2>2, <2>3 DEF OutcomeOK, Granted
<1> QED
  BY <1>1, <1>2

(* DHCPRELEASE removes at most the lease that was found.                   *)
LEMMA ReleaseOK ==
  ASSUME Env, NEW d, Pruned(d), NEW m \in Messages, NEW lease
  PROVE  OutcomeOK(d, Release(d, m, lease))
<1>1. DbOK(d) /\ Moves(d, d)
  BY SelfMoves DEF Pruned
<1> DEFINE e == lease_prune(d, {l \in lease : l.addr = Ciaddr(m)}, now)
<1>2. Pruned(e) /\ Moves(d, e)
  BY PruneMoves
<1>3. Release(d, m, lease) = Silent(d) \/ Release(d, m, lease) = Silent(e)
  BY DEF Release
<1> HIDE DEF e
<1> QED
  BY <1>1, <1>2, <1>3, SilentOK

(* What DHCPDISCOVER may offer is an address, or none.                     *)
LEMMA OfferableType ==
  ASSUME Env, NEW d, Pruned(d), NEW m \in Messages,
         NEW lease \in SUBSET d.leases, NEW cfg \in Configs \cup {NoConfig}
  PROVE  Offerable(d, m, lease, cfg) \subseteq AnyAddr
<1>1. ConfUsable(d, lease, cfg) => cfg.addr \in Addr
  BY HasAddrType DEF ConfUsable
<1>2. \A l \in lease : l.addr \in Addr
  BY DEF Pruned, DbOK, Db, Lease
<1>3. m.req \in AnyAddr
  BY MessageAssumption DEF Message, AnyAddr
<1>4. address_allocate(d) \subseteq AnyAddr
  BY AddrAssumption DEF address_allocate, AnyAddr
<1> QED
  BY <1>1, <1>2, <1>3, <1>4 DEF Offerable, AnyAddr

(* DHCPDISCOVER changes no lease: an offer reserves nothing.               *)
LEMMA DiscoverOK ==
  ASSUME Env, NEW d, Pruned(d), NEW m \in Messages,
         NEW lease \in SUBSET d.leases, NEW cfg \in Configs \cup {NoConfig}
  PROVE  \A o \in Discover(d, m, lease, cfg) : OutcomeOK(d, o)
<1>1. DbOK(d) /\ Moves(d, d)
  BY SelfMoves DEF Pruned
<1>2. OutcomeOK(d, Silent(d))
  BY <1>1, SilentOK
<1>3. ASSUME NEW a \in Offerable(d, m, lease, cfg)
      PROVE  OutcomeOK(d, Outcome(d, Packet("OFFER", m, a, now)))
  <2>1. a \in AnyAddr
    BY OfferableType
  <2>2. Packet("OFFER", m, a, now) \in Reply
        /\ Packet("OFFER", m, a, now).type = "OFFER"
    BY <2>1, PacketType DEF Env
  <2> QED BY <1>1, <2>2, AnswerOK
<1> QED
  BY <1>2, <1>3 DEF Discover

(* DHCPINFORM changes no lease.                                            *)
LEMMA InformOK ==
  ASSUME Env, NEW d, Pruned(d), NEW m \in Messages
  PROVE  OutcomeOK(d, Inform(d, m))
<1>1. DbOK(d) /\ Moves(d, d)
  BY SelfMoves DEF Pruned
<1>2. Packet("INFORMED", m, NoAddr, now) \in Reply
      /\ Packet("INFORMED", m, NoAddr, now).type = "INFORMED"
  <2>1. NoAddr \in AnyAddr /\ now \in Nat
    BY DEF AnyAddr, Env
  <2> QED BY <2>1, PacketType
<1>3. OutcomeOK(d, Outcome(d, Packet("INFORMED", m, NoAddr, now)))
  BY <1>1, <1>2, AnswerOK
<1> QED
  BY <1>1, <1>3, SilentOK DEF Inform

(* A lease that is not given up survives the lease_prune of the request,   *)
(* so the lease that is then bound is still in the list.                   *)
LEMMA RequestOK ==
  ASSUME Env, NEW d, Pruned(d), NEW m \in Messages, NEW clid \in AnyClid,
         NEW lease \in SUBSET d.leases, NEW cfg0 \in Configs \cup {NoConfig},
         NEW cfg, Owned(d, lease, clid)
  PROVE  \A o \in Request(d, m, clid, lease, cfg0, cfg) : OutcomeOK(d, o)
<1> DEFINE a     == Wanted(m)
           moved == {l \in lease : l.addr # a}
           d1    == IF m.req # NoAddr THEN lease_prune(d, moved, now) ELSE d
           lease1 == IF m.req # NoAddr THEN lease \ moved ELSE lease
           quiet == \/ m.hw \in Ignored
                    \/ Selecting(m) /\ m.sid # Router /\ ~Authoritative
                    \/ InitReboot(m) /\ lease = {} /\ ~Authoritative
           no == \/ Selecting(m) /\ m.sid # Router
                 \/ InitReboot(m) /\ moved # {}
                 \/ m.req = NoAddr /\ (moved # {} \/ (lease = {} /\ ~Authoritative))
                 \/ Refused(d1, m, lease1, cfg, a)
<1>1. Request(d, m, clid, lease, cfg0, cfg) =
        IF quiet THEN {Silent(d)}
        ELSE IF no THEN {Nak(d1, m)} ELSE Grant(d1, m, clid, lease1, cfg0, a)
  BY DEF Request
<1>2. DbOK(d) /\ Moves(d, d)
  BY SelfMoves DEF Pruned
<1>3. /\ Pruned(d1) /\ Honest(d, d1) /\ Moves(d, d1)
      /\ d1.leases \subseteq d.leases /\ lease1 \subseteq d1.leases
  <2> HIDE DEF moved
  <2>1. CASE m.req = NoAddr
    BY <1>2, <2>1 DEF Moves
  <2>2. CASE m.req # NoAddr
    <3> DEFINE e == lease_prune(d, moved, now)
    <3>1. /\ Pruned(e) /\ Honest(d, e) /\ Moves(d, e) /\ e.leases \subseteq d.leases
          /\ \A l \in d.leases : l \notin moved => l \in e.leases
      BY PruneMoves
    <3>2. d1 = e /\ lease1 = lease \ moved
      BY <2>2
    <3> HIDE DEF e, d1, lease1
    <3> QED BY <3>1, <3>2
  <2> QED BY <2>1, <2>2
<1>4. Owned(d1, lease1, clid)
  <2> HIDE DEF moved
  <2>1. CASE m.req = NoAddr
    BY <2>1
  <2>2. CASE m.req # NoAddr
    <3> DEFINE e == lease_prune(d, moved, now)
    <3>1. e.leases \subseteq d.leases \ moved
      BY DEF lease_prune
    <3>2. d1 = e /\ lease1 = lease \ moved
      BY <2>2
    <3> HIDE DEF e, d1, lease1
    <3>3. \A l \in lease1 : NoOther(d1, l, clid)
      BY <3>1, <3>2 DEF Owned, NoOther
    <3>4. lease1 = {} => \A k \in d1.leases : clid # NoClid => k.clid # clid
      BY <3>1, <3>2 DEF Owned, NoOther
    <3> QED BY <3>3, <3>4 DEF Owned
  <2> QED BY <2>1, <2>2
<1>5. ~no => a \in Addr
  BY AddrAssumption DEF Refused, narrow_context
<1> HIDE DEF a, moved, d1, lease1, quiet, no
<1>6. OutcomeOK(d, Silent(d)) /\ OutcomeOK(d, Nak(d1, m))
  BY <1>2, <1>3, SilentOK, NakOK
<1>7. ASSUME ~no, NEW o \in Grant(d1, m, clid, lease1, cfg0, a)
      PROVE  OutcomeOK(d, o)
  <2>1. a \in Addr
    BY <1>5, <1>7
  <2>2. OutcomeOK(d1, o)
    BY <1>3, <1>7, <1>4, <2>1, GrantOK
  <2> QED BY <1>3, <2>2, MovesAfter DEF OutcomeOK
<1> QED
  BY <1>1, <1>6, <1>7

(* BOOTP: a nailed address is granted only when this hardware or nobody    *)
(* has it; otherwise the client's own address, or a free one.              *)
LEMMA BootpNailedOK ==
  ASSUME Env, NEW d, Pruned(d), NEW m \in Messages,
         NEW cfg \in Configs \cup {NoConfig}, HasAddr(cfg)
  PROVE  \A o \in BootpNailed(d, m, cfg) : OutcomeOK(d, o)
<1>1. DbOK(d) /\ Moves(d, d)
  BY SelfMoves DEF Pruned
<1>2. cfg.addr \in Addr
  BY HasAddrType
<1> DEFINE found == lease_find_by_addr(d, cfg.addr)
<1>3. found \in SUBSET d.leases
  BY DEF lease_find_by_addr
<1>4. \A o \in BootpGrant(d, m, cfg, found, cfg.addr) : OutcomeOK(d, o)
  BY <1>1, <1>2, <1>3, BootpGrantOK
<1>5. OutcomeOK(d, Silent(d))
  BY <1>1, SilentOK
<1> QED
  BY <1>4, <1>5 DEF BootpNailed

(* A BOOTP client without a nailed address.                                *)
LEMMA BootpFreeOK ==
  ASSUME Env, NEW d, Pruned(d), NEW m \in Messages,
         NEW cfg \in Configs \cup {NoConfig}, NEW lease \in SUBSET d.leases
  PROVE  \A o \in BootpFree(d, m, cfg, lease) : OutcomeOK(d, o)
<1> DEFINE stale == {l \in lease : ~address_available(l.addr)}
           d1    == lease_prune(d, stale, now)
           keep  == lease \ stale
           addrs == IF keep # {} THEN {l.addr : l \in keep}
                                 ELSE address_allocate(d1)
<1>1. BootpFree(d, m, cfg, lease) =
        IF ~BootpDynamic THEN {Silent(d1)}
        ELSE UNION {IF a = NoAddr THEN {Silent(d1)}
                    ELSE BootpGrant(d1, m, cfg, keep, a) : a \in addrs}
  BY DEF BootpFree
<1>2. /\ Pruned(d1) /\ Honest(d, d1) /\ Moves(d, d1)
      /\ d1.leases \subseteq d.leases /\ keep \in SUBSET d1.leases
  <2> HIDE DEF stale
  <2>1. /\ Pruned(d1) /\ Honest(d, d1) /\ Moves(d, d1)
        /\ d1.leases \subseteq d.leases
        /\ \A l \in d.leases : l \notin stale => l \in d1.leases
    BY PruneMoves
  <2> HIDE DEF d1
  <2> QED BY <2>1
<1>3. ASSUME NEW a \in addrs, a # NoAddr
      PROVE  a \in Addr /\ (keep = {} => lease_find_by_addr(d1, a) = {})
  <2> HIDE DEF d1
  <2>1. CASE keep # {}
    <3> HIDE DEF keep
    <3>1. a \in {l.addr : l \in keep}
      BY <2>1, <1>3
    <3> QED BY <1>2, <2>1, <3>1 DEF Pruned, DbOK, Db, Lease
  <2>2. CASE keep = {}
    <3>1. a \in address_allocate(d1)
      BY <2>2, <1>3
    <3> HIDE DEF keep, addrs
    <3> QED BY <1>3, <2>2, <3>1, AddrAssumption DEF address_allocate
  <2> QED BY <2>1, <2>2
<1> HIDE DEF stale, d1, keep, addrs
<1>4. OutcomeOK(d, Silent(d1))
  BY <1>2, SilentOK
<1>5. ASSUME NEW a \in addrs, a # NoAddr, NEW o \in BootpGrant(d1, m, cfg, keep, a)
      PROVE  OutcomeOK(d, o)
  <2>1. a \in Addr /\ (keep = {} => lease_find_by_addr(d1, a) = {})
    BY <1>3, <1>5
  <2>2. OutcomeOK(d1, o)
    BY <1>2, <1>5, <2>1, BootpGrantOK
  <2> QED BY <1>2, <2>2, MovesAfter DEF OutcomeOK
<1> QED
  BY <1>1, <1>4, <1>5

(* The whole BOOTP branch.                                                 *)
LEMMA BootpOK ==
  ASSUME Env, NEW d, Pruned(d), NEW m \in Messages,
         NEW cfg \in Configs \cup {NoConfig}
  PROVE  \A o \in Bootp(d, m, cfg) : OutcomeOK(d, o)
<1>1. DbOK(d) /\ Moves(d, d)
  BY SelfMoves DEF Pruned
<1>2. OutcomeOK(d, Silent(d))
  BY <1>1, SilentOK
<1> DEFINE found == lease_find_by_client(d, m.hw, NoClid)
<1>3. found \subseteq d.leases
  BY DEF lease_find_by_client, FindByClid, FindByHw
<1>4. Bootp(d, m, cfg) =
        IF m.hw \in Ignored THEN {Silent(d)}
        ELSE IF HasAddr(cfg) THEN BootpNailed(d, m, cfg)
        ELSE IF found = {} THEN BootpFree(d, m, cfg, {})
        ELSE UNION {BootpFree(d, m, cfg, {l}) : l \in found}
  BY DEF Bootp
<1> HIDE DEF found
<1>5. \A o \in BootpFree(d, m, cfg, {}) : OutcomeOK(d, o)
  BY BootpFreeOK
<1>6. \A l \in found : \A o \in BootpFree(d, m, cfg, {l}) : OutcomeOK(d, o)
  <2> TAKE l \in found
  <2>1. {l} \in SUBSET d.leases
    BY <1>3
  <2> QED BY <2>1, BootpFreeOK
<1>7. HasAddr(cfg) => \A o \in BootpNailed(d, m, cfg) : OutcomeOK(d, o)
  BY BootpNailedOK
<1> DEFINE U == UNION {BootpFree(d, m, cfg, {l}) : l \in found}
<1>8. \A o \in U : OutcomeOK(d, o)
  BY <1>6, Zenon
<1> HIDE DEF U
<1>9. \/ Bootp(d, m, cfg) = {Silent(d)}
      \/ HasAddr(cfg) /\ Bootp(d, m, cfg) = BootpNailed(d, m, cfg)
      \/ Bootp(d, m, cfg) = BootpFree(d, m, cfg, {})
      \/ Bootp(d, m, cfg) = U
  BY <1>4, Zenon DEF U
<1> QED
  BY <1>2, <1>5, <1>7, <1>8, <1>9

(* dhcp_reply once the lease of the client has been looked up.             *)
LEMMA ReplyToOK ==
  ASSUME Env, NEW d, Pruned(d), NEW m \in Messages, NEW lease \in SUBSET d.leases,
         m.type # "BOOTP" => Owned(d, lease, EffClid(m, lease))
  PROVE  \A o \in ReplyTo(d, m, lease) : OutcomeOK(d, o)
<1> DEFINE clid == EffClid(m, lease)
           cfg0 == find_config(m.hw, clid)
           cfg  == find_config_by_name(cfg0, m.name)
           cfgB == find_config(m.hw, NoClid)
<1>1. clid \in AnyClid
  BY MessageAssumption DEF EffClid, AnyClid, Message, Pruned, DbOK, Db, Lease
<1>2. cfg0 \in Configs \cup {NoConfig} /\ cfgB \in Configs \cup {NoConfig}
  BY FindConfigType
<1>3. cfg \in Configs \cup {NoConfig}
  BY <1>2, FindByNameType
<1>4. m.type \in Type
  BY MessageAssumption DEF Message
<1>5. m.type = "REQUEST" => Owned(d, lease, clid)
  OBVIOUS
<1> DEFINE R == ReplyTo(d, m, lease)
<1>6. /\ m.type = "DISCOVER" => R = Discover(d, m, lease, cfg)
      /\ m.type = "REQUEST"  => R = Request(d, m, clid, lease, cfg0, cfg)
      /\ m.type = "DECLINE"  => R = {Decline(d, m, lease, cfg)}
      /\ m.type = "RELEASE"  => R = {Release(d, m, lease)}
      /\ m.type = "INFORM"   => R = {Inform(d, m)}
      /\ m.type = "BOOTP"    => R = Bootp(d, m, cfgB)
  BY DEF ReplyTo
<1> HIDE DEF clid, cfg0, cfg, cfgB, R
<1>7. CASE m.type = "DISCOVER"
  BY <1>3, <1>6, <1>7, DiscoverOK DEF R
<1>8. CASE m.type = "REQUEST"
  BY <1>1, <1>2, <1>6, <1>8, <1>5, RequestOK DEF R
<1>9. CASE m.type = "DECLINE"
  BY <1>3, <1>6, <1>9, DeclineOK DEF R
<1>10. CASE m.type = "RELEASE"
  BY <1>6, <1>10, ReleaseOK DEF R
<1>11. CASE m.type = "INFORM"
  BY <1>6, <1>11, InformOK DEF R
<1>12. CASE m.type = "BOOTP"
  BY <1>2, <1>6, <1>12, BootpOK DEF R
<1> QED
  BY <1>4, <1>7, <1>8, <1>9, <1>10, <1>11, <1>12 DEF Type

(* Whatever dhcp_reply does with a message on a freshly pruned database    *)
(* leaves the database in order.                                           *)
LEMMA DhcpReplyOK ==
  ASSUME Env, NEW d, Pruned(d), NEW m \in Messages
  PROVE  \A o \in dhcp_reply(d, m) : OutcomeOK(d, o)
<1> DEFINE found == lease_find_by_client(d, m.hw, m.clid)
<1>1. found \subseteq d.leases
  BY DEF lease_find_by_client, FindByClid, FindByHw
<1>2. dhcp_reply(d, m) = IF m.type = "BOOTP" \/ found = {} THEN ReplyTo(d, m, {})
                         ELSE UNION {ReplyTo(d, m, {l}) : l \in found}
  BY DEF dhcp_reply
<1>3. /\ found = {} => Owned(d, {}, EffClid(m, {}))
      /\ \A l \in found : Owned(d, {l}, EffClid(m, {l}))
  BY FoundOwned DEF Pruned
<1> HIDE DEF found
<1>4. m.type = "BOOTP" \/ found = {} => \A o \in ReplyTo(d, m, {}) : OutcomeOK(d, o)
  BY <1>3, ReplyToOK
<1>5. \A l \in found : \A o \in ReplyTo(d, m, {l}) : OutcomeOK(d, o)
  <2> TAKE l \in found
  <2>1. {l} \in SUBSET d.leases
    BY <1>1
  <2> QED BY <1>3, <2>1, ReplyToOK
<1> DEFINE U == UNION {ReplyTo(d, m, {l}) : l \in found}
<1>6. \A o \in U : OutcomeOK(d, o)
  BY <1>5, Zenon
<1> HIDE DEF U
<1>7. \/ (m.type = "BOOTP" \/ found = {}) /\ dhcp_reply(d, m) = ReplyTo(d, m, {})
      \/ dhcp_reply(d, m) = U
  BY <1>2, Zenon DEF U
<1> QED
  BY <1>4, <1>6, <1>7

-----------------------------------------------------------------------------
(* The inductive invariant.  UniqueAddress and QuotaExact say nothing of   *)
(* the file, but the database of a restarted server is read from it;       *)
(* FileCurrent and DnsCurrent speak of the idle server, but what they say  *)
(* is built up over the steps of an event.                                 *)
FileOK == /\ IsFiniteSet(file) /\ Distinct(file)
          /\ Cardinality(file) <= DhcpMax /\ \A l \in file : ~l.auth

ReplyOK == Granted(reply) => reply.yiaddr \in Addr

FileInv == /\ pc \notin {"down", "rewrite"} /\ ~db.file_dirty =>
                file = Stored(db.leases)
           /\ pc = "rewrite" => db.file_dirty

DnsInv == pc # "down" /\ ~db.dns_dirty => dns = DnsView(db)

Inv == TypeOK /\ DbOK(db) /\ FileOK /\ ReplyOK /\ FileInv /\ DnsInv

(* The server starts with no lease and an empty file.                      *)
LEMMA InitInv == Init => Inv
<1> SUFFICES ASSUME Init PROVE Inv
  OBVIOUS
<1>1. DbOK(db)
  BY EmptyDbOK DEF Init
<1>2. TypeOK
  <2>1. db \in Db
    BY <1>1 DEF DbOK
  <2>2. declined \in [Configs -> Nat] /\ rung \in BOOLEAN /\ faulty \in BOOLEAN
    BY DEF Init
  <2> QED BY <2>1, <2>2 DEF Init, TypeOK, PC
<1>3. FileOK
  BY FS_EmptySet, DhcpMaxAssumption
     DEF Init, FileOK, Distinct, OnePerAddr, OnePerClid, OnePerName
<1> QED
  BY <1>1, <1>2, <1>3 DEF Init, Inv, ReplyOK, FileInv, DnsInv, Granted

(* Steps that leave the disk alone and change the database honestly.       *)
LEMMA HonestStep ==
  ASSUME Inv, Honest(db, db'), UNCHANGED <<file, dns>>,
         pc \notin {"down", "rewrite"}, pc' \notin {"down", "rewrite"}
  PROVE  FileInv' /\ DnsInv' /\ FileOK'
<1>1. FileOK'
  BY DEF Inv, FileOK
<1>2. FileInv'
  BY DEF Inv, FileInv, Honest
<1>3. DnsInv'
  BY DEF Inv, DnsInv, Honest
<1> QED
  BY <1>1, <1>2, <1>3

(* Part of what lease_update_file writes is a file that can be read back.  *)
LEMMA PartOK ==
  ASSUME DbOK(db), NEW part \in SUBSET Stored(db.leases)
  PROVE  /\ part \subseteq Lease /\ IsFiniteSet(part) /\ Distinct(part)
         /\ Cardinality(part) <= DhcpMax /\ \A l \in part : ~l.auth
<1>1. /\ IsFiniteSet(Stored(db.leases)) /\ Distinct(Stored(db.leases))
      /\ Stored(db.leases) \subseteq Lease
      /\ Cardinality(Stored(db.leases)) <= DhcpMax
      /\ \A l \in Stored(db.leases) : ~l.auth
  BY StoredOK
<1>2. /\ IsFiniteSet(part) /\ Cardinality(part) <= Cardinality(Stored(db.leases))
      /\ Cardinality(part) \in Nat /\ Cardinality(Stored(db.leases)) \in Nat
  BY <1>1, FS_Subset, FS_CardinalityType
<1> QED
  BY <1>1, <1>2, DhcpMaxAssumption
     DEF Distinct, OnePerAddr, OnePerClid, OnePerName

(* The alarm that is armed is a time or 0.                                 *)
LEMMA NextAlarmType ==
  ASSUME TypeOK, NEW err
  PROVE  NextAlarm(err) \in Nat
<1> DEFINE exp == NextExpiry(db, Grace)
<1>1. exp \in Nat
  BY NextExpiryType, TimeAssumption DEF TypeOK
<1> HIDE DEF exp
<1>2. now + LeaseRetry \in Nat /\ alarm \in Nat
  BY TimeAssumption DEF TypeOK
<1> QED
  BY <1>1, <1>2 DEF NextAlarm, exp

(* A dirty flag that is reset leaves the rest of the database alone.       *)
LEMMA CleanFlag ==
  ASSUME DbOK(db)
  PROVE  /\ DbOK([db EXCEPT !.file_dirty = FALSE])
         /\ [db EXCEPT !.file_dirty = FALSE].leases = db.leases
         /\ ~[db EXCEPT !.file_dirty = FALSE].file_dirty
         /\ [db EXCEPT !.file_dirty = FALSE].dns_dirty = db.dns_dirty
         /\ DbOK([db EXCEPT !.dns_dirty = FALSE])
         /\ [db EXCEPT !.dns_dirty = FALSE].leases = db.leases
         /\ ~[db EXCEPT !.dns_dirty = FALSE].dns_dirty
         /\ [db EXCEPT !.dns_dirty = FALSE].file_dirty = db.file_dirty
BY DEF DbOK, Db

(* lease_init rebuilds a database in order from the file.                  *)
LEMMA RestartInv == ASSUME Inv, Restart PROVE Inv'
<1> DEFINE d == [leases |-> file, leases_left |-> DhcpMax - Cardinality(file),
                 file_dirty |-> FALSE, dns_dirty |-> FALSE]
           e == lease_prune(d, {}, now)
<1>1. DbOK(d)
  <2>1. Cardinality(file) \in Nat
    BY FS_CardinalityType DEF Inv, FileOK
  <2> QED
    BY <2>1, DhcpMaxAssumption DEF Inv, FileOK, TypeOK, DbOK, Db
<1>2. DbOK(e) /\ Honest(d, e)
  <2> HIDE DEF d
  <2> QED BY <1>1, PruneOK, PruneHonest DEF DbOK
<1>3. db' = [e EXCEPT !.dns_dirty = TRUE]
  BY DEF Restart, lease_init
<1>4. d.leases = file
  OBVIOUS
<1> HIDE DEF d, e
<1>5. /\ DbOK(db') /\ db'.leases = e.leases
      /\ db'.file_dirty = e.file_dirty /\ db'.dns_dirty = TRUE
  BY <1>2, <1>3 DEF DbOK, Db
<1>6. Stored(file) = file
  <2>1. \A l \in file : [l EXCEPT !.auth = FALSE] = l
    BY DEF Inv, TypeOK, Lease, FileOK
  <2> QED BY <2>1 DEF Stored
<1>7. FileInv' /\ DnsInv'
  BY <1>2, <1>4, <1>5, <1>6 DEF Restart, FileInv, DnsInv, Honest
<1>8. TypeOK'
  <2>1. todo' \subseteq Addr
    <3>1. todo' = {l.addr : l \in db'.leases}
      BY DEF Restart
    <3> QED BY <1>5, <3>1 DEF DbOK, Db, Lease
  <2> QED BY <1>5, <2>1 DEF Restart, Inv, TypeOK, PC, counters, DbOK
<1>9. FileOK' /\ ReplyOK'
  BY DEF Restart, Inv, FileOK, ReplyOK
<1> QED
  BY <1>5, <1>7, <1>8, <1>9 DEF Inv

(* SIGHUP changes no lease.                                                *)
LEMMA ReloadInv == ASSUME Inv, Reload PROVE Inv'
<1>1. TypeOK'
  BY DEF Inv, Reload, TypeOK, PC, Db, Lease
<1>2. Honest(db, db')
  BY DEF Reload, Honest
<1>3. FileInv' /\ DnsInv' /\ FileOK'
  BY <1>2, HonestStep DEF Reload
<1>4. DbOK(db') /\ ReplyOK'
  BY DEF Inv, Reload, ReplyOK
<1> QED
  BY <1>1, <1>3, <1>4 DEF Inv

(* lease_update_from_configs renames one lease.                            *)
LEMMA UpdateFromConfigsInv == ASSUME Inv, UpdateFromConfigs PROVE Inv'
<1> PICK l \in {x \in db.leases : x.addr \in todo} :
      /\ todo' = todo \ {l.addr}
      /\ db' = IF ConfiguredName(l) = NoName THEN db
               ELSE lease_set_hostname([lease |-> l, db |-> db],
                                       ConfiguredName(l), TRUE).db
  BY DEF UpdateFromConfigs
<1>1. DbOK(db') /\ Honest(db, db')
  <2>1. CASE ConfiguredName(l) = NoName
    BY <2>1 DEF Inv, Honest
  <2>2. CASE ConfiguredName(l) # NoName
    <3> DEFINE p == [lease |-> l, db |-> db]
               cfg == find_config(l.hw, l.clid)
    <3>1. PairOK(p) /\ p.db = db
      BY DEF PairOK, Inv
    <3>2. ConfiguredName(l) \in Names
      <4>1. cfg \in Configs \cup {NoConfig}
        BY FindConfigType
      <4>2. HasName(cfg) => cfg.name \in Names
        BY <4>1, HasNameType
      <4>3. HostsName[l.addr] \in Names \cup {NoName}
        BY ConfigAssumption DEF Inv, TypeOK, Db, Lease
      <4> QED BY <2>2, <4>2, <4>3 DEF ConfiguredName
    <3>3. db' = lease_set_hostname(p, ConfiguredName(l), TRUE).db
      BY <2>2
    <3> HIDE DEF p
    <3>4. Kept(p, lease_set_hostname(p, ConfiguredName(l), TRUE))
      BY <3>1, <3>2, SetHostnameKept
    <3> QED BY <3>1, <3>3, <3>4 DEF Kept, PairOK
  <2> QED BY <2>1, <2>2
<1>2. FileInv' /\ DnsInv' /\ FileOK'
  BY <1>1, HonestStep DEF UpdateFromConfigs
<1>3. TypeOK' /\ ReplyOK'
  BY <1>1 DEF UpdateFromConfigs, Inv, TypeOK, DbOK, ReplyOK, counters
<1> QED
  BY <1>1, <1>2, <1>3 DEF Inv

(* lease_update_from_configs ends.                                         *)
LEMMA ConfigsDoneInv == ASSUME Inv, ConfigsDone PROVE Inv'
<1>1. Honest(db, db')
  BY DEF ConfigsDone, Honest
<1>2. FileInv' /\ DnsInv' /\ FileOK'
  BY <1>1, HonestStep DEF ConfigsDone
<1>3. TypeOK' /\ ReplyOK' /\ DbOK(db')
  BY DEF ConfigsDone, Inv, TypeOK, PC, ReplyOK, counters
<1> QED
  BY <1>2, <1>3 DEF Inv

(* A packet: lease_prune, then dhcp_reply.                                 *)
LEMMA RecvInv == ASSUME Inv, NEW m \in Messages, Recv(m) PROVE Inv'
<1> DEFINE d == lease_prune(db, {}, now)
<1>1. Pruned(d) /\ Honest(db, d)
  BY PruneFresh DEF Inv
<1> HIDE DEF d
<1>2. PICK o \in dhcp_reply(d, m) :
        db' = o.db /\ declined' = o.declined /\ reply' = o.reply
  BY DEF Recv, d
<1>3. OutcomeOK(d, o)
  <2>1. Env
    BY DEF Inv, TypeOK, Env
  <2> QED BY <1>1, <2>1, DhcpReplyOK
<1>4. DbOK(db') /\ Honest(db, db')
  BY <1>1, <1>2, <1>3, HonestTrans DEF OutcomeOK, Pruned, Moves
<1>5. FileInv' /\ DnsInv' /\ FileOK'
  BY <1>4, HonestStep DEF Recv
<1>6. ReplyOK' /\ declined' \in [Configs -> Nat] /\ reply' \in Reply \cup {NoReply}
  <2>1. ReplyOK'
    BY <1>2, <1>3 DEF OutcomeOK, ReplyOK, Granted
  <2> QED BY <1>2, <1>3, <2>1 DEF OutcomeOK
<1>7. TypeOK'
  BY <1>4, <1>6 DEF Recv, Inv, TypeOK, PC, DbOK, counters
<1> QED
  BY <1>4, <1>5, <1>6, <1>7 DEF Inv

(* The timer rings.                                                        *)
LEMMA RingInv == ASSUME Inv, Ring PROVE Inv'
BY DEF Ring, Inv, TypeOK, PC, FileOK, ReplyOK, FileInv, DnsInv, counters

(* EVENT_ALARM prunes and leaves the name cache to its dirty flag.         *)
LEMMA AlarmEventInv == ASSUME Inv, AlarmEvent PROVE Inv'
<1> DEFINE d == lease_prune(db, {}, now)
<1>1. DbOK(d) /\ Honest(db, d)
  BY PruneFresh DEF Inv, Pruned
<1> HIDE DEF d
<1>2. db' = d
  BY DEF AlarmEvent, d
<1>3. FileInv' /\ DnsInv' /\ FileOK'
  BY <1>1, <1>2, HonestStep DEF AlarmEvent
<1>4. TypeOK' /\ ReplyOK'
  BY <1>1, <1>2 DEF AlarmEvent, Inv, TypeOK, PC, DbOK, ReplyOK, counters
<1> QED
  BY <1>1, <1>2, <1>3, <1>4 DEF Inv

(* lease_update_file with nothing to write.                                *)
LEMMA FileCleanInv == ASSUME Inv, FileClean PROVE Inv'
<1>1. alarm' \in Nat
  BY NextAlarmType DEF FileClean, Inv
<1>2. Honest(db, db')
  BY DEF FileClean, Honest
<1>3. FileInv' /\ DnsInv' /\ FileOK'
  BY <1>2, HonestStep DEF FileClean
<1>4. TypeOK' /\ ReplyOK' /\ DbOK(db')
  BY <1>1 DEF FileClean, Inv, TypeOK, PC, ReplyOK, counters
<1> QED
  BY <1>3, <1>4 DEF Inv

(* The file is empty while file_dirty is still set.                        *)
LEMMA TruncateInv == ASSUME Inv, Truncate PROVE Inv'
<1>1. FileOK'
  BY FS_EmptySet, DhcpMaxAssumption
     DEF Truncate, FileOK, Distinct, OnePerAddr, OnePerClid, OnePerName
<1>2. TypeOK' /\ ReplyOK' /\ DbOK(db')
  BY DEF Truncate, Inv, TypeOK, PC, ReplyOK, counters
<1>3. FileInv' /\ DnsInv'
  BY DEF Truncate, Inv, FileInv, DnsInv
<1> QED
  BY <1>1, <1>2, <1>3 DEF Inv

(* A rewrite that fails before it starts leaves file_dirty set.            *)
LEMMA TruncateErrInv == ASSUME Inv, TruncateErr PROVE Inv'
<1>1. alarm' \in Nat
  BY NextAlarmType DEF TruncateErr, Inv
<1>2. faulty' \in BOOLEAN
  BY Zenon DEF TruncateErr
<1>3. writeErrs' \in Nat
  BY DEF TruncateErr, Inv, TypeOK
<1>4. TypeOK'
  BY <1>1, <1>2, <1>3 DEF TruncateErr, Inv, TypeOK, PC
<1>5. ReplyOK' /\ DbOK(db') /\ FileOK'
  BY DEF TruncateErr, Inv, ReplyOK, FileOK
<1>6. FileInv' /\ DnsInv'
  BY DEF TruncateErr, Inv, FileInv, DnsInv
<1> QED
  BY <1>4, <1>5, <1>6 DEF Inv

(* After a rewrite the file holds what is in memory.                       *)
LEMMA WriteOkInv == ASSUME Inv, WriteOk PROVE Inv'
<1>1. DbOK(db)
  BY DEF Inv
<1>2. /\ DbOK(db') /\ db'.leases = db.leases /\ db'.dns_dirty = db.dns_dirty
  BY <1>1, CleanFlag DEF WriteOk
<1>3. file' \subseteq Lease /\ FileOK'
  <2>1. file' \in SUBSET Stored(db.leases)
    BY DEF WriteOk
  <2> QED BY <1>1, <2>1, PartOK DEF FileOK
<1>4. alarm' \in Nat
  BY NextAlarmType DEF WriteOk, Inv
<1>5. TypeOK' /\ ReplyOK'
  BY <1>2, <1>3, <1>4 DEF WriteOk, Inv, TypeOK, PC, DbOK, ReplyOK, counters
<1>6. FileInv' /\ DnsInv'
  BY <1>2 DEF WriteOk, Inv, FileInv, DnsInv, DnsView
<1> QED
  BY <1>2, <1>3, <1>5, <1>6 DEF Inv

(* After a failed rewrite file_dirty is still set.                         *)
LEMMA WriteErrInv == ASSUME Inv, WriteErr PROVE Inv'
<1>1. DbOK(db)
  BY DEF Inv
<1>2. PICK part \in SUBSET Stored(db.leases) : file' = part
  BY DEF WriteErr
<1>3. file' \subseteq Lease /\ FileOK'
  BY <1>1, <1>2, PartOK DEF FileOK
<1>4. alarm' \in Nat
  BY NextAlarmType DEF WriteErr, Inv
<1>5. TypeOK' /\ ReplyOK' /\ DbOK(db')
  <2>1. faulty' \in BOOLEAN
    BY Zenon DEF WriteErr
  <2>2. writeErrs' \in Nat
    BY DEF WriteErr, Inv, TypeOK
  <2>3. TypeOK'
    BY <1>3, <1>4, <2>1, <2>2 DEF WriteErr, Inv, TypeOK, PC
  <2> QED BY <2>3 DEF WriteErr, Inv, ReplyOK
<1>6. FileInv' /\ DnsInv'
  <2>1. db' = db /\ dns' = dns /\ db.file_dirty /\ pc = "rewrite" /\ pc' = "send"
    BY DEF WriteErr, Inv, FileInv
  <2>2. DnsInv'
    BY <2>1 DEF Inv, DnsInv
  <2> QED BY <2>1, <2>2 DEF FileInv
<1> QED
  BY <1>3, <1>5, <1>6 DEF Inv

(* lease_update_dns, and the reply that makes a grant.                     *)
LEMMA FinishInv == ASSUME Inv, Finish PROVE Inv'
<1>1. DbOK(db)
  BY DEF Inv
<1>2. /\ DbOK(db') /\ db'.leases = db.leases /\ db'.file_dirty = db.file_dirty
      /\ DnsInv' /\ dns' \subseteq [name : Names, addr : Addr]
  <2>1. CASE job # "alarm" /\ db.dns_dirty
    <3>1. dns' = DnsView(db) /\ db' = [db EXCEPT !.dns_dirty = FALSE]
      BY <2>1 DEF Finish
    <3>2. DbOK(db') /\ db'.leases = db.leases /\ db'.file_dirty = db.file_dirty
      BY <1>1, <3>1, CleanFlag
    <3>3. DnsInv'
      BY <3>1, <3>2 DEF DnsInv, DnsView
    <3>4. dns' \subseteq [name : Names, addr : Addr]
      BY <1>1, <3>1 DEF DnsView, DbOK, Db, Lease
    <3> QED BY <3>2, <3>3, <3>4
  <2>2. CASE ~(job # "alarm" /\ db.dns_dirty)
    BY <1>1, <2>2 DEF Finish, Inv, DnsInv, TypeOK
  <2> QED BY <2>1, <2>2
<1>3. held' \subseteq [hw : HW, clid : ClId \cup {NoClid}, addr : Addr, until : Nat]
  <2>1. CASE Granted(reply)
    <3>1. reply \in Reply /\ reply.yiaddr \in Addr
      BY <2>1 DEF Inv, TypeOK, ReplyOK, Granted
    <3>2. GrantOf(reply) \in
            [hw : HW, clid : ClId \cup {NoClid}, addr : Addr, until : Nat]
      BY <3>1 DEF GrantOf, Reply
    <3> QED BY <2>1, <3>2 DEF Finish, Inv, TypeOK
  <2>2. CASE ~Granted(reply)
    BY <2>2 DEF Finish, Inv, TypeOK
  <2> QED BY <2>1, <2>2
<1>4. TypeOK' /\ ReplyOK'
  BY <1>2, <1>3 DEF Finish, Inv, TypeOK, PC, DbOK, ReplyOK, Granted, counters
<1>5. FileInv' /\ FileOK'
  <2>1. FileInv'
    BY <1>2 DEF Finish, Inv, FileInv
  <2> QED BY <2>1 DEF Finish, Inv, FileOK
<1> QED
  BY <1>2, <1>4, <1>5 DEF Inv

(* A crash leaves a file that can be read back.                            *)
LEMMA CrashInv == ASSUME Inv, Crash PROVE Inv'
<1>1. DbOK(db')
  BY EmptyDbOK DEF Crash
<1>2. file' \subseteq Lease /\ FileOK'
  <2>1. CASE pc = "rewrite"
    <3>1. PICK part \in SUBSET Stored(db.leases) : file' = part
      BY <2>1 DEF Crash
    <3> QED BY <3>1, PartOK DEF FileOK, Inv
  <2>2. CASE pc # "rewrite"
    BY <2>2 DEF Crash, FileOK, Inv, TypeOK
  <2> QED BY <2>1, <2>2
<1>3. /\ declined' \in [Configs -> Nat] /\ rung' \in BOOLEAN
      /\ faulty' \in BOOLEAN /\ crashes' \in Nat
  <2>1. rung' \in BOOLEAN /\ faulty' \in BOOLEAN
    BY Zenon DEF Crash
  <2>2. declined' \in [Configs -> Nat] /\ crashes' \in Nat
    BY DEF Crash, Inv, TypeOK
  <2> QED BY <2>1, <2>2
<1>4. TypeOK'
  BY <1>1, <1>2, <1>3 DEF Crash, Inv, TypeOK, PC, DbOK
<1>5. ReplyOK' /\ FileInv' /\ DnsInv'
  BY DEF Crash, ReplyOK, FileInv, DnsInv, Granted
<1> QED
  BY <1>1, <1>2, <1>4, <1>5 DEF Inv

(* Time passes.                                                            *)
LEMMA TickInv == ASSUME Inv, Tick PROVE Inv'
<1>1. TypeOK'
  BY DEF Tick, Inv, TypeOK, counters
<1>2. DbOK(db') /\ FileOK' /\ ReplyOK' /\ FileInv' /\ DnsInv'
  BY DEF Tick, Inv, FileOK, ReplyOK, FileInv, DnsInv
<1> QED
  BY <1>1, <1>2 DEF Inv

-----------------------------------------------------------------------------
(* Every step of the server keeps the invariant.                           *)
LEMMA NextInv == Inv /\ [Next]_vars => Inv'
<1> SUFFICES ASSUME Inv, [Next]_vars PROVE Inv'
  OBVIOUS
<1>1. CASE Restart          BY <1>1, RestartInv
<1>2. CASE Reload           BY <1>2, ReloadInv
<1>3. CASE UpdateFromConfigs BY <1>3, UpdateFromConfigsInv
<1>4. CASE ConfigsDone      BY <1>4, ConfigsDoneInv
<1>5. CASE Ring             BY <1>5, RingInv
<1>6. CASE AlarmEvent       BY <1>6, AlarmEventInv
<1>7. CASE FileClean        BY <1>7, FileCleanInv
<1>8. CASE Truncate         BY <1>8, TruncateInv
<1>9. CASE WriteOk          BY <1>9, WriteOkInv
<1>10. CASE WriteErr        BY <1>10, WriteErrInv
<1>11. CASE Finish          BY <1>11, FinishInv
<1>12. CASE Crash           BY <1>12, CrashInv
<1>13. CASE Tick            BY <1>13, TickInv
<1>14. ASSUME NEW m \in Messages, Recv(m) PROVE Inv'
  BY <1>14, RecvInv
<1>15. CASE TruncateErr     BY <1>15, TruncateErrInv
<1>16. CASE UNCHANGED vars
  BY <1>16 DEF vars, serverVars, Inv, TypeOK, FileOK, ReplyOK, FileInv, DnsInv
<1> QED
  BY <1>1, <1>2, <1>3, <1>4, <1>5, <1>6, <1>7, <1>8, <1>9, <1>10, <1>11,
     <1>12, <1>13, <1>14, <1>15, <1>16 DEF Next, Server

(* The invariant holds in every reachable state.                           *)
THEOREM InvAlways == Spec => []Inv
  BY InitInv, NextInv, PTL DEF Spec

(* The variables of the server keep their types, whatever its clients send *)
(* and whenever it crashes or fails to write the lease file.               *)
THEOREM TypeCorrect == Spec => []TypeOK
<1>1. Inv => TypeOK
  BY DEF Inv
<1> QED
  BY <1>1, InvAlways, PTL

(* dhcp_reply and lease_init never give two leases the same address.       *)
THEOREM AddressesUnique == Spec => []UniqueAddress
<1>1. Inv => UniqueAddress
  BY DEF Inv, DbOK, Distinct, OnePerAddr, UniqueAddress
<1> QED
  BY <1>1, InvAlways, PTL

(* A client identifier never has two leases: lease_find_by_client finds    *)
(* the lease of a client that has one, and a client that moves to another  *)
(* address loses its old lease first.                                      *)
THEOREM ClientsUnique == Spec => []UniqueClient
<1>1. Inv => UniqueClient
  BY DEF Inv, DbOK, Distinct, OnePerClid, UniqueClient
<1> QED
  BY <1>1, InvAlways, PTL

(* A host name never has two leases: lease_set_hostname takes it from the  *)
(* one lease that had it.                                                  *)
THEOREM NamesUnique == Spec => []UniqueName
<1>1. Inv => UniqueName
  BY DEF Inv, DbOK, Distinct, OnePerName, UniqueName
<1> QED
  BY <1>1, InvAlways, PTL

(* The quota is exact and is never overdrawn: leases_left in lease.c is    *)
(* what is left of dhcp_max, also after a lease file has been read back.   *)
THEOREM QuotaKept == Spec => []QuotaExact
<1>1. Inv => QuotaExact
  BY DEF Inv, DbOK, QuotaExact
<1> QED
  BY <1>1, InvAlways, PTL

(* Every change of a lease that the file records sets file_dirty, so a     *)
(* clean server has its leases on disk.                                    *)
THEOREM FileKeptCurrent == Spec => []FileCurrent
<1>1. Inv => FileCurrent
  BY DEF Inv, FileInv, FileCurrent
<1> QED
  BY <1>1, InvAlways, PTL

(* Every change of a name or an address of a named lease sets dns_dirty,   *)
(* so a clean server answers name queries from its leases.                 *)
THEOREM DnsKeptCurrent == Spec => []DnsCurrent
<1>1. Inv => DnsCurrent
  BY DEF Inv, DnsInv, DnsCurrent
<1> QED
  BY <1>1, InvAlways, PTL
-----------------------------------------------------------------------------
(* Grants.  First who may be given a lease.                                *)
(* w, a message, a reply or a grant, names a client that sends messages.   *)
Sender(w) == \E x \in Messages : x.hw = w.hw /\ x.clid = w.clid

(* The clients that lease_find_by_client may give the lease to are all the *)
(* host of w.                                                              *)
HeldBy(l, w) == \A x \in Messages : Claims(x, l) => SameHost(x, w)

(* A client identifier that some client uses.                              *)
Used(clid) == clid = NoClid \/ \E z \in Messages : z.clid = clid

(* A lease belongs to the host whose hardware address it carries.          *)
OwnOK(l) == Used(l.clid) /\ \E y \in Messages : y.hw = l.hw /\ HeldBy(l, y)

(* Being the same host is symmetric, and on the clients it is transitive.  *)
LEMMA SameHostSym ==
  ASSUME NEW x, NEW y, SameHost(x, y)
  PROVE  SameHost(y, x)
BY DEF SameHost, SameClient

(* It depends on the hardware address and the client identifier only.      *)
LEMMA SameHostAs ==
  ASSUME NEW x, NEW y, NEW w, x.hw = w.hw, x.clid = w.clid
  PROVE  SameHost(x, y) <=> SameHost(w, y)
BY DEF SameHost, SameClient, Matches

(* Transitivity, for whatever names a client.                              *)
LEMMA SameHostTrans ==
  ASSUME HostsDistinct, NEW u, NEW v, NEW w, Sender(u), Sender(v), Sender(w),
         SameHost(u, v), SameHost(v, w)
  PROVE  SameHost(u, w)
<1>1. PICK x \in Messages : x.hw = u.hw /\ x.clid = u.clid
  BY DEF Sender
<1>2. PICK y \in Messages : y.hw = v.hw /\ y.clid = v.clid
  BY DEF Sender
<1>3. PICK z \in Messages : z.hw = w.hw /\ z.clid = w.clid
  BY DEF Sender
<1>4. SameHost(x, y)
  <2>1. SameHost(x, v)
    BY <1>1, SameHostAs
  <2>2. SameHost(y, x)
    BY <1>2, <2>1, SameHostSym, SameHostAs
  <2> QED BY <2>2, SameHostSym
<1>5. SameHost(y, z)
  <2>1. SameHost(y, w)
    BY <1>2, SameHostAs
  <2>2. SameHost(z, y)
    BY <1>3, <2>1, SameHostSym, SameHostAs
  <2> QED BY <2>2, SameHostSym
<1>6. SameHost(x, z)
  BY <1>1, <1>2, <1>3, <1>4, <1>5 DEF HostsDistinct
<1>7. SameHost(u, z)
  BY <1>1, <1>6, SameHostAs
<1>8. SameHost(w, u)
  BY <1>3, <1>7, SameHostSym, SameHostAs
<1> QED
  BY <1>8, SameHostSym

(* A lease of one client is a lease of every client of the same host.      *)
LEMMA HeldTrans ==
  ASSUME HostsDistinct, NEW l, NEW v, NEW w, Sender(v), Sender(w),
         HeldBy(l, v), SameHost(v, w)
  PROVE  HeldBy(l, w)
<1> SUFFICES ASSUME NEW x \in Messages, Claims(x, l) PROVE SameHost(x, w)
  BY DEF HeldBy
<1>1. Sender(x)
  BY DEF Sender
<1>2. SameHost(x, v)
  BY DEF HeldBy
<1> QED
  BY <1>1, <1>2, SameHostTrans

(* Two clients that hold the same lease are the same host.                 *)
LEMMA HeldSame ==
  ASSUME HostsDistinct, NEW l, OwnOK(l), NEW v, NEW w, Sender(v), Sender(w),
         HeldBy(l, v), HeldBy(l, w)
  PROVE  SameHost(v, w)
<1>1. PICK y \in Messages : y.hw = l.hw
  BY DEF OwnOK
<1>2. SameHost(y, v) /\ SameHost(y, w) /\ Sender(y)
  BY <1>1 DEF HeldBy, Claims, Sender
<1>3. SameHost(v, y)
  BY <1>2, SameHostSym
<1> QED
  BY <1>2, <1>3, SameHostTrans

(* A client holds the lease it is found to have.                           *)
LEMMA ClaimedHeld ==
  ASSUME HostsDistinct, NEW l, OwnOK(l), NEW m \in Messages, Claims(m, l)
  PROVE  HeldBy(l, m)
<1>1. PICK y \in Messages : y.hw = l.hw /\ HeldBy(l, y)
  BY DEF OwnOK
<1>2. SameHost(m, y) /\ Sender(m) /\ Sender(y)
  BY <1>1 DEF HeldBy, Sender
<1>3. SameHost(y, m)
  BY <1>2, SameHostSym
<1> QED
  BY <1>1, <1>2, <1>3, HeldTrans

(* A client of a configured host holds the leases of its interfaces.       *)
LEMMA TakenHeld ==
  ASSUME HostsDistinct, NEW l, OwnOK(l), NEW m \in Messages,
         NEW c \in Configs, l.hw \in c.macs,
         NEW z \in Messages, Matches(c, z), SameHost(z, m)
  PROVE  HeldBy(l, m)
<1>1. PICK y \in Messages : y.hw = l.hw /\ HeldBy(l, y)
  BY DEF OwnOK
<1>2. SameHost(y, z) /\ Sender(m) /\ Sender(y) /\ Sender(z)
  BY <1>1 DEF SameHost, Matches, Sender
<1>3. SameHost(y, m)
  BY <1>2, SameHostTrans
<1> QED
  BY <1>1, <1>2, <1>3, HeldTrans

-----------------------------------------------------------------------------
(* What dhcp_reply may do for message m to the leases C and what it may    *)
(* promise, E being the leases that come out of it.  A lease that comes in *)
(* is the sender's; a lease that goes was the sender's, who gives it up or *)
(* has it renewed; an ACK is backed by a lease.                            *)
GivesUp(m, a) ==
    \/ m.type = "DECLINE" /\ a = m.req
    \/ m.type = "RELEASE" /\ a = Ciaddr(m)
    \/ m.type = "REQUEST" /\ m.req # NoAddr /\ a # m.req
    \/ m.type = "BOOTP"

HasLease(E, m, a, exp) ==
    \E k \in E : k.addr = a /\ HeldBy(k, m) /\ k.expires = exp

AddsOwn(C, E, m) ==
    \A k \in E : k \in C \/ (k.hw = m.hw /\ HeldBy(k, m) /\ Used(k.clid))

LosesOwn(C, E, m) ==
    \A l \in C : \/ l \in E
                 \/ HeldBy(l, m) /\ GivesUp(m, l.addr)
                 \/ HeldBy(l, m) /\ m.type = "REQUEST"
                    /\ HasLease(E, m, l.addr, now + LeaseTime)

Promises(E, m, r) ==
    Granted(r) => /\ r.hw = m.hw /\ r.clid = m.clid
                  /\ r.until \in {0, now + LeaseTime}
                  /\ HasLease(E, m, r.yiaddr, r.until)

Keeps(C, m, o) ==
    LET E == Cores(o.db.leases)
    IN  AddsOwn(C, E, m) /\ LosesOwn(C, E, m) /\ Promises(E, m, o.reply)

AllOwn(C) == \A l \in C : OwnOK(l)

(* Leases that the sender gives up go.                                     *)
Drops(C, D, m) ==
    D \subseteq C /\ \A l \in C \ D : HeldBy(l, m) /\ GivesUp(m, l.addr)

(* Nothing is granted and no lease changes.                                *)
LEMMA SameKeeps ==
  ASSUME NEW d, NEW m, NEW o, o.db = d, ~Granted(o.reply)
  PROVE  Keeps(Cores(d.leases), m, o)
BY DEF Keeps, AddsOwn, LosesOwn, Promises

(* Leases that are given up first do not matter.                           *)
LEMMA DropKeeps ==
  ASSUME NEW C, NEW D, NEW m, Drops(C, D, m), NEW o, Keeps(D, m, o)
  PROVE  Keeps(C, m, o)
<1> DEFINE E == Cores(o.db.leases)
<1>1. AddsOwn(D, E, m) /\ LosesOwn(D, E, m) /\ Promises(E, m, o.reply)
  BY DEF Keeps
<1> HIDE DEF E
<1>2. AddsOwn(C, E, m)
  BY <1>1 DEF AddsOwn, Drops
<1>3. LosesOwn(C, E, m)
  BY <1>1 DEF LosesOwn, Drops
<1> QED
  BY <1>1, <1>2, <1>3 DEF Keeps, E

(* lease_prune of leases that the sender gives up.                         *)
LEMMA PruneDrops ==
  ASSUME NEW d, Pruned(d), NEW m, NEW target,
         \A l \in target : HeldBy(CoreOf(l), m) /\ GivesUp(m, l.addr)
  PROVE  Drops(Cores(d.leases), Cores(lease_prune(d, target, now).leases), m)
<1> DEFINE e == lease_prune(d, target, now)
<1>1. /\ e.leases \subseteq d.leases
      /\ \A l \in d.leases : l \notin target => l \in e.leases
  BY PruneAgain DEF lease_prune
<1> HIDE DEF e
<1>2. Cores(e.leases) \subseteq Cores(d.leases)
  BY <1>1 DEF Cores
<1>3. ASSUME NEW c \in Cores(d.leases) \ Cores(e.leases)
      PROVE  HeldBy(c, m) /\ GivesUp(m, c.addr)
  <2>1. PICK l \in d.leases : c = CoreOf(l)
    BY <1>3 DEF Cores
  <2>2. l \in target
    BY <1>1, <1>3, <2>1 DEF Cores
  <2>3. c.addr = l.addr
    BY <2>1 DEF CoreOf
  <2> QED BY <2>1, <2>2, <2>3
<1> QED
  BY <1>2, <1>3 DEF Drops, e

(* The client identifier clid, if there is one, is used by m's host only.  *)
ClidOwn(clid, m) ==
    \A x \in Messages : x.clid # NoClid /\ x.clid = clid => SameHost(x, m)

(* So is the message's own, and that of a lease that the sender holds.     *)
LEMMA ClidOwnOK ==
  ASSUME NEW m
  PROVE  /\ ClidOwn(m.clid, m) /\ ClidOwn(NoClid, m)
         /\ \A l : HeldBy(CoreOf(l), m) => ClidOwn(l.clid, m)
<1>1. ClidOwn(m.clid, m) /\ ClidOwn(NoClid, m)
  BY DEF ClidOwn, SameHost, SameClient
<1>2. ASSUME NEW l, HeldBy(CoreOf(l), m) PROVE ClidOwn(l.clid, m)
  BY <1>2 DEF ClidOwn, HeldBy, Claims, CoreOf
<1> QED
  BY <1>1, <1>2

(* The lease that Bind leaves behind is the sender's.                      *)
LEMMA BoundHeld ==
  ASSUME HostsDistinct, NEW m \in Messages, NEW l, NEW clid, NEW exp,
         ClidOwn(clid, m), ClidOwn(l.clid, m)
  PROVE  HeldBy(BoundCore(l, m.hw, clid, exp), m)
<1> DEFINE k == BoundCore(l, m.hw, clid, exp)
<1>1. k.hw = m.hw /\ k.clid \in {clid, l.clid}
  BY DEF BoundCore
<1> HIDE DEF k
<1>2. ASSUME NEW x \in Messages, Claims(x, k) PROVE SameHost(x, m)
  BY <1>1, <1>2 DEF Claims, HostsDistinct, ClidOwn
<1> QED
  BY <1>2 DEF HeldBy, k

(* A lease is bound to the sender, who held it already or has it new.      *)
LEMMA BindKeeps ==
  ASSUME Env, HostsDistinct, NEW C, NEW m \in Messages, NEW p, PairOK(p),
         NEW clid \in AnyClid, NoOther(p.db, p.lease, clid), NEW host \in Host,
         NEW exp \in {0, now + LeaseTime},
         Others(p) \subseteq C,
         \A x \in C \ Others(p) : x = CoreOf(p.lease) /\ HeldBy(x, m),
         ClidOwn(clid, m), ClidOwn(p.lease.clid, m),
         Used(clid), Used(p.lease.clid),
         (m.type = "REQUEST" /\ exp = now + LeaseTime) \/ m.type = "BOOTP",
         NEW r, r.hw = m.hw, r.clid = m.clid, r.yiaddr = p.lease.addr,
         r.until = exp
  PROVE  Keeps(C, m, Outcome(Bind(p, m.hw, clid, host, exp), r))
<1> DEFINE k == BoundCore(p.lease, m.hw, clid, exp)
           e == Bind(p, m.hw, clid, host, exp)
           E == Cores(e.leases)
<1>1. m.hw \in HW /\ exp \in Nat
  BY MessageAssumption, TimeAssumption DEF Message, Env
<1>2. E = Others(p) \cup {k}
  BY <1>1, BindCores
<1>3. HeldBy(k, m)
  BY BoundHeld
<1>4. k.addr = p.lease.addr /\ k.hw = m.hw /\ k.expires = exp /\ Used(k.clid)
  BY DEF BoundCore
<1> HIDE DEF k, E
<1>5. HasLease(E, m, p.lease.addr, exp)
  BY <1>2, <1>3, <1>4 DEF HasLease
<1>6. AddsOwn(C, E, m)
  BY <1>2, <1>3, <1>4 DEF AddsOwn
<1>7. LosesOwn(C, E, m)
  <2> SUFFICES ASSUME NEW x \in C, x \notin E
               PROVE  /\ HeldBy(x, m)
                      /\ \/ GivesUp(m, x.addr)
                         \/ m.type = "REQUEST"
                            /\ HasLease(E, m, x.addr, now + LeaseTime)
    BY DEF LosesOwn
  <2>1. x = CoreOf(p.lease) /\ HeldBy(x, m)
    BY <1>2
  <2>2. x.addr = p.lease.addr
    BY <2>1 DEF CoreOf
  <2> QED BY <1>5, <2>1, <2>2 DEF GivesUp
<1>8. Promises(E, m, r)
  BY <1>5 DEF Promises
<1> DEFINE o == Outcome(e, r)
<1>9. o.db = e /\ o.reply = r
  BY DEF Outcome
<1> HIDE DEF o, e
<1>10. Keeps(C, m, o)
  BY <1>6, <1>7, <1>8, <1>9 DEF Keeps, E
<1> QED
  BY <1>10 DEF o, e

-----------------------------------------------------------------------------
(* The leases in the set are the sender's.                                 *)
Theirs(lease, m) ==
    \A l \in lease : HeldBy(CoreOf(l), m) /\ Used(l.clid)

(* A DHCPREQUEST that is granted.                                          *)
LEMMA GrantKeeps ==
  ASSUME Env, HostsDistinct, NEW d, DbOK(d), NEW m \in Messages,
         m.type = "REQUEST", NEW clid \in AnyClid, ClidOwn(clid, m), Used(clid),
         NEW lease \in SUBSET d.leases, NEW cfg \in Configs \cup {NoConfig},
         NEW a \in Addr, Owned(d, lease, clid),
         Theirs(lease, m), \A l \in lease : l.addr = a,
         lease = {} => Theirs(lease_find_by_addr(d, a), m)
  PROVE  \A o \in Grant(d, m, clid, lease, cfg, a) : Keeps(Cores(d.leases), m, o)
<1> DEFINE host == HostName(m, cfg, a)
           until == now + LeaseTime
           C == Cores(d.leases)
           old == IF lease # {} THEN lease ELSE lease_find_by_addr(d, a)
<1>1. m.hw \in HW /\ host \in Host
  BY MessageAssumption, HostNameType DEF Message
<1>2. ASSUME NEW p, PairOK(p), NoOther(p.db, p.lease, clid),
             Others(p) \subseteq C, p.lease.addr = a,
             ClidOwn(p.lease.clid, m), Used(p.lease.clid),
             \A x \in C \ Others(p) : x = CoreOf(p.lease) /\ HeldBy(x, m)
      PROVE  Keeps(C, m, Ack(p, m, clid, cfg, a))
  <2> DEFINE r == Packet("ACK", m, a, until)
  <2>1. r.hw = m.hw /\ r.clid = m.clid /\ r.yiaddr = p.lease.addr /\ r.until = until
    BY <1>2 DEF Packet
  <2>2. Ack(p, m, clid, cfg, a) = Outcome(Bind(p, m.hw, clid, host, until), r)
    BY DEF Ack
  <2>3. until \in {0, now + LeaseTime}
    OBVIOUS
  <2> HIDE DEF host, r, C
  <2>4. Keeps(C, m, Outcome(Bind(p, m.hw, clid, host, until), r))
    BY <1>1, <1>2, <2>1, <2>3, BindKeeps
  <2> QED BY <2>2, <2>4
<1> HIDE DEF C
<1>3. ASSUME NEW l \in old
      PROVE  Keeps(C, m, Ack([lease |-> l, db |-> d], m, clid, cfg, a))
  <2>1. l \in d.leases /\ l.addr = a /\ HeldBy(CoreOf(l), m) /\ Used(l.clid)
    BY DEF lease_find_by_addr, Theirs
  <2>2. NoOther(d, l, clid)
    BY <2>1 DEF Owned, NoOther
  <2> DEFINE p == [lease |-> l, db |-> d]
  <2>3. /\ PairOK(p) /\ Others(p) \subseteq C
        /\ \A x \in C \ Others(p) : x = CoreOf(l)
    BY <2>1, OthersOf DEF C
  <2>4. p.lease = l /\ p.db = d
    OBVIOUS
  <2>5. ClidOwn(l.clid, m)
    BY <2>1, ClidOwnOK
  <2> HIDE DEF p, old
  <2>6. Keeps(C, m, Ack(p, m, clid, cfg, a))
    BY <1>2, <2>1, <2>2, <2>3, <2>4, <2>5
  <2> QED BY <2>6 DEF p
<1>4. ASSUME old = {}, d.leases_left # 0
      PROVE  Keeps(C, m, Ack(lease_allocate(d, a, m.hw), m, clid, cfg, a))
  <2>1. lease = {} /\ lease_find_by_addr(d, a) = {}
    BY <1>4
  <2> DEFINE p == lease_allocate(d, a, m.hw)
  <2>2. /\ PairOK(p) /\ Others(p) = C /\ p.db.leases = d.leases \cup {p.lease}
        /\ p.lease.addr = a /\ p.lease.clid = NoClid
    BY <1>1, <1>4, <2>1, OthersOfNew DEF C
  <2> HIDE DEF p, old
  <2>3. NoOther(p.db, p.lease, clid)
    BY <2>1, <2>2 DEF Owned, NoOther
  <2>4. ClidOwn(p.lease.clid, m) /\ Used(p.lease.clid)
    BY <2>2, ClidOwnOK DEF Used
  <2>5. Keeps(C, m, Ack(p, m, clid, cfg, a))
    BY <1>2, <2>2, <2>3, <2>4
  <2> QED BY <2>5 DEF p
<1>5. Keeps(C, m, Nak(d, m))
  <2>1. Nak(d, m).db = d /\ ~Granted(Nak(d, m).reply)
    BY DEF Nak, Outcome, Packet, Granted
  <2> QED BY <2>1, SameKeeps DEF C
<1>6. Grant(d, m, clid, lease, cfg, a) =
        IF old # {} THEN {Ack([lease |-> l, db |-> d], m, clid, cfg, a) :
                            l \in old}
        ELSE IF d.leases_left = 0 THEN {Nak(d, m)}
        ELSE {Ack(lease_allocate(d, a, m.hw), m, clid, cfg, a)}
  BY DEF Grant
<1> HIDE DEF old
<1>7. \A o \in Grant(d, m, clid, lease, cfg, a) : Keeps(C, m, o)
  BY <1>3, <1>4, <1>5, <1>6
<1> QED
  BY <1>7 DEF C

(* A BOOTP reply.                                                          *)
LEMMA BootpGrantKeeps ==
  ASSUME Env, HostsDistinct, NEW d, DbOK(d), NEW m \in Messages,
         m.type = "BOOTP", NEW lease \in SUBSET d.leases,
         NEW cfg \in Configs \cup {NoConfig}, NEW a \in Addr,
         lease = {} => lease_find_by_addr(d, a) = {},
         Theirs(lease, m), \A l \in lease : l.addr = a
  PROVE  \A o \in BootpGrant(d, m, cfg, lease, a) : Keeps(Cores(d.leases), m, o)
<1> DEFINE C == Cores(d.leases)
           host == BootpHost(cfg)
<1>1. m.hw \in HW /\ host \in Host
  BY MessageAssumption, HostNameType DEF Message
<1>2. ASSUME NEW p, PairOK(p), Others(p) \subseteq C, p.lease.addr = a,
             ClidOwn(p.lease.clid, m), Used(p.lease.clid),
             \A x \in C \ Others(p) : x = CoreOf(p.lease) /\ HeldBy(x, m)
      PROVE  Keeps(C, m, BootpBind(p, m, cfg, a))
  <2> DEFINE r == Packet("BOOTP", m, a, 0)
  <2>1. r.hw = m.hw /\ r.clid = m.clid /\ r.yiaddr = p.lease.addr /\ r.until = 0
    BY <1>2 DEF Packet
  <2>2. BootpBind(p, m, cfg, a) = Outcome(Bind(p, m.hw, NoClid, host, 0), r)
    BY DEF BootpBind
  <2>3. /\ NoClid \in AnyClid /\ NoOther(p.db, p.lease, NoClid)
        /\ ClidOwn(NoClid, m) /\ Used(NoClid)
    BY ClidOwnOK DEF AnyClid, NoOther, Used
  <2>4. 0 \in {0, now + LeaseTime}
    OBVIOUS
  <2> HIDE DEF host, r, C
  <2>5. Keeps(C, m, Outcome(Bind(p, m.hw, NoClid, host, 0), r))
    BY <1>1, <1>2, <2>1, <2>3, <2>4, BindKeeps
  <2> QED BY <2>2, <2>5
<1> HIDE DEF C
<1>3. ASSUME NEW l \in lease
      PROVE  Keeps(C, m, BootpBind([lease |-> l, db |-> d], m, cfg, a))
  <2>1. l \in d.leases /\ l.addr = a /\ HeldBy(CoreOf(l), m) /\ Used(l.clid)
    BY DEF Theirs
  <2> DEFINE p == [lease |-> l, db |-> d]
  <2>2. /\ PairOK(p) /\ Others(p) \subseteq C
        /\ \A x \in C \ Others(p) : x = CoreOf(l)
    BY <2>1, OthersOf DEF C
  <2>3. p.lease = l /\ ClidOwn(l.clid, m)
    BY <2>1, ClidOwnOK
  <2> HIDE DEF p
  <2>4. Keeps(C, m, BootpBind(p, m, cfg, a))
    BY <1>2, <2>1, <2>2, <2>3
  <2> QED BY <2>4 DEF p
<1>4. ASSUME lease = {}, d.leases_left # 0
      PROVE  Keeps(C, m, BootpBind(lease_allocate(d, a, m.hw), m, cfg, a))
  <2> DEFINE p == lease_allocate(d, a, m.hw)
  <2>1. /\ PairOK(p) /\ Others(p) = C
        /\ p.lease.addr = a /\ p.lease.clid = NoClid
    BY <1>1, <1>4, OthersOfNew DEF C
  <2> HIDE DEF p
  <2>2. ClidOwn(p.lease.clid, m) /\ Used(p.lease.clid)
    BY <2>1, ClidOwnOK DEF Used
  <2>3. Keeps(C, m, BootpBind(p, m, cfg, a))
    BY <1>2, <2>1, <2>2
  <2> QED BY <2>3 DEF p
<1>5. Keeps(C, m, Silent(d))
  <2>1. Silent(d).db = d /\ ~Granted(Silent(d).reply)
    BY DEF Silent, Outcome, Granted
  <2> QED BY <2>1, SameKeeps DEF C
<1>6. \A o \in BootpGrant(d, m, cfg, lease, a) : Keeps(C, m, o)
  BY <1>3, <1>4, <1>5 DEF BootpGrant
<1> QED
  BY <1>6 DEF C

(* DHCPDECLINE and DHCPRELEASE: at most the sender's own lease goes.       *)
LEMMA GiveUpKeeps ==
  ASSUME NEW d, Pruned(d), NEW m, NEW lease, Theirs(lease, m), NEW cfg
  PROVE  /\ m.type = "DECLINE" =>
              Keeps(Cores(d.leases), m, Decline(d, m, lease, cfg))
         /\ m.type = "RELEASE" =>
              Keeps(Cores(d.leases), m, Release(d, m, lease))
<1>1. Keeps(Cores(d.leases), m, Silent(d))
  <2>1. Silent(d).db = d /\ ~Granted(Silent(d).reply)
    BY DEF Silent, Outcome, Granted
  <2> QED BY <2>1, SameKeeps
<1>2. ASSUME NEW a, GivesUp(m, a), NEW o, ~Granted(o.reply),
             o.db = lease_prune(d, {l \in lease : l.addr = a}, now)
      PROVE  Keeps(Cores(d.leases), m, o)
  <2> DEFINE target == {l \in lease : l.addr = a}
             e == lease_prune(d, target, now)
  <2>1. \A l \in target : HeldBy(CoreOf(l), m) /\ GivesUp(m, l.addr)
    BY <1>2 DEF Theirs
  <2> HIDE DEF target
  <2>2. Drops(Cores(d.leases), Cores(e.leases), m)
    BY <2>1, PruneDrops
  <2>3. o.db = e
    BY <1>2 DEF target
  <2> HIDE DEF e
  <2>4. Keeps(Cores(e.leases), m, o)
    BY <1>2, <2>3, SameKeeps
  <2> QED BY <2>2, <2>4, DropKeeps
<1>3. ASSUME m.type = "DECLINE"
      PROVE  Keeps(Cores(d.leases), m, Decline(d, m, lease, cfg))
  <2> DEFINE o == Decline(d, m, lease, cfg)
  <2>1. CASE m.sid # Router \/ m.req = NoAddr
    BY <1>1, <2>1 DEF Decline
  <2>2. CASE ~(m.sid # Router \/ m.req = NoAddr)
    <3>1. /\ o.db = lease_prune(d, {l \in lease : l.addr = m.req}, now)
          /\ ~Granted(o.reply)
      BY <2>2 DEF Decline, Granted
    <3>2. GivesUp(m, m.req)
      BY <1>3 DEF GivesUp
    <3> HIDE DEF o
    <3>3. Keeps(Cores(d.leases), m, o)
      BY <1>2, <3>1, <3>2
    <3> QED BY <3>3 DEF o
  <2> QED BY <2>1, <2>2
<1>4. ASSUME m.type = "RELEASE"
      PROVE  Keeps(Cores(d.leases), m, Release(d, m, lease))
  <2> DEFINE e == lease_prune(d, {l \in lease : l.addr = Ciaddr(m)}, now)
  <2>1. Silent(e).db = e /\ ~Granted(Silent(e).reply) /\ GivesUp(m, Ciaddr(m))
    BY <1>4 DEF Silent, Outcome, Granted, GivesUp
  <2>2. Keeps(Cores(d.leases), m, Silent(e))
    BY <1>2, <2>1
  <2>3. Release(d, m, lease) \in {Silent(d), Silent(e)}
    BY DEF Release
  <2> QED BY <1>1, <2>2, <2>3
<1> QED
  BY <1>3, <1>4

(* DHCPDISCOVER and DHCPINFORM promise nothing.                            *)
LEMMA AskKeeps ==
  ASSUME NEW d, NEW m, NEW lease, NEW cfg
  PROVE  /\ \A o \in Discover(d, m, lease, cfg) : Keeps(Cores(d.leases), m, o)
         /\ Keeps(Cores(d.leases), m, Inform(d, m))
<1>1. Keeps(Cores(d.leases), m, Silent(d))
  <2>1. Silent(d).db = d /\ ~Granted(Silent(d).reply)
    BY DEF Silent, Outcome, Granted
  <2> QED BY <2>1, SameKeeps
<1>2. ASSUME NEW type \in {"OFFER", "INFORMED"}, NEW a
      PROVE  Keeps(Cores(d.leases), m, Outcome(d, Packet(type, m, a, now)))
  <2> DEFINE o == Outcome(d, Packet(type, m, a, now))
  <2>1. o.db = d /\ ~Granted(o.reply)
    BY DEF Outcome, Packet, Granted
  <2> HIDE DEF o
  <2>2. Keeps(Cores(d.leases), m, o)
    BY <2>1, SameKeeps
  <2> QED BY <2>2 DEF o
<1>3. \A o \in Discover(d, m, lease, cfg) : Keeps(Cores(d.leases), m, o)
  BY <1>1, <1>2 DEF Discover
<1> QED
  BY <1>1, <1>2, <1>3 DEF Inform

(* The dhcp-host line under which the sender may take a lease over: its    *)
(* hardware addresses are those of the sender's host.                      *)
CfgOwn(cfg, m) ==
    (\E h : config_has_mac(cfg, h)) =>
        cfg \in Configs /\ \E z \in Messages : Matches(cfg, z) /\ SameHost(z, m)

(* find_config finds the line of the sender's host, even by the client     *)
(* identifier of a lease that the sender has; a line found by name only    *)
(* has no hardware address.                                                *)
LEMMA FindCfgOwn ==
  ASSUME HostsDistinct, NEW m \in Messages, NEW clid, ClidOwn(clid, m), Used(clid)
  PROVE  CfgOwn(find_config_by_name(find_config(m.hw, clid), m.name), m)
<1> DEFINE cfg0 == find_config(m.hw, clid)
           cfg == find_config_by_name(cfg0, m.name)
<1>1. cfg = cfg0 \/ cfg.macs = {}
  BY DEF find_config_by_name
<1>2. \/ cfg0 = NoConfig
      \/ cfg0 \in Configs /\ m.hw \in cfg0.macs
      \/ cfg0 \in Configs /\ clid # NoClid /\ cfg0.clid = clid
  BY DEF find_config
<1> SUFFICES CfgOwn(cfg, m)
  OBVIOUS
<1> HIDE DEF cfg0, cfg
<1>3. CASE cfg.macs = {} \/ cfg = NoConfig
  BY <1>3 DEF CfgOwn, config_has_mac
<1>4. CASE cfg = cfg0 /\ cfg0 \in Configs /\ m.hw \in cfg0.macs
  BY <1>4 DEF CfgOwn, Matches, HostsDistinct
<1>5. CASE cfg = cfg0 /\ cfg0 \in Configs /\ clid # NoClid /\ cfg0.clid = clid
  <2>1. PICK z \in Messages : z.clid = clid
    BY <1>5 DEF Used
  <2>2. Matches(cfg, z) /\ SameHost(z, m)
    BY <1>5, <2>1 DEF Matches, ClidOwn
  <2> QED BY <1>5, <2>2 DEF CfgOwn
<1> QED
  BY <1>1, <1>2, <1>3, <1>4, <1>5

(* DHCPREQUEST: a client that moves gives its lease up, and an address in  *)
(* use goes only to the host that has it.                                  *)
LEMMA RequestKeeps ==
  ASSUME Env, HostsDistinct, NEW d, Pruned(d), AllOwn(Cores(d.leases)),
         NEW m \in Messages, m.type = "REQUEST",
         NEW clid \in AnyClid, ClidOwn(clid, m), Used(clid),
         NEW lease \in SUBSET d.leases, NEW cfg0 \in Configs \cup {NoConfig},
         NEW cfg, CfgOwn(cfg, m), Owned(d, lease, clid), Theirs(lease, m)
  PROVE  \A o \in Request(d, m, clid, lease, cfg0, cfg) :
            Keeps(Cores(d.leases), m, o)
<1> DEFINE a     == Wanted(m)
           moved == {l \in lease : l.addr # a}
           d1    == IF m.req # NoAddr THEN lease_prune(d, moved, now) ELSE d
           lease1 == IF m.req # NoAddr THEN lease \ moved ELSE lease
           quiet == \/ m.hw \in Ignored
                    \/ Selecting(m) /\ m.sid # Router /\ ~Authoritative
                    \/ InitReboot(m) /\ lease = {} /\ ~Authoritative
           no == \/ Selecting(m) /\ m.sid # Router
                 \/ InitReboot(m) /\ moved # {}
                 \/ m.req = NoAddr /\ (moved # {} \/ (lease = {} /\ ~Authoritative))
                 \/ Refused(d1, m, lease1, cfg, a)
           C == Cores(d.leases)
           D == Cores(d1.leases)
<1>1. Request(d, m, clid, lease, cfg0, cfg) =
        IF quiet THEN {Silent(d)}
        ELSE IF no THEN {Nak(d1, m)} ELSE Grant(d1, m, clid, lease1, cfg0, a)
  BY DEF Request
<1>2. /\ DbOK(d1) /\ lease1 \subseteq d1.leases /\ Owned(d1, lease1, clid)
      /\ d1.leases \subseteq d.leases /\ Drops(C, D, m)
  <2>1. \A l \in moved : HeldBy(CoreOf(l), m) /\ (m.req # NoAddr => GivesUp(m, l.addr))
    BY DEF Theirs, GivesUp, Wanted
  <2> HIDE DEF moved
  <2>2. CASE m.req = NoAddr
    BY <2>2 DEF Pruned, Drops
  <2>3. CASE m.req # NoAddr
    <3> DEFINE e == lease_prune(d, moved, now)
    <3>1. DbOK(e) /\ \A l \in d.leases : l \notin moved => l \in e.leases
      BY PruneAgain DEF Pruned
    <3>2. e.leases \subseteq d.leases \ moved
      BY DEF lease_prune
    <3>3. Drops(C, Cores(e.leases), m)
      BY <2>1, <2>3, PruneDrops
    <3>4. d1 = e /\ lease1 = lease \ moved
      BY <2>3
    <3> HIDE DEF e, d1, lease1, C
    <3>5. Owned(d1, lease1, clid)
      BY <3>2, <3>4 DEF Owned, NoOther
    <3> QED BY <3>1, <3>2, <3>3, <3>4, <3>5
  <2> QED BY <2>2, <2>3
<1>3. ASSUME ~no
      PROVE  /\ a \in Addr /\ \A l \in lease1 : l.addr = a
             /\ lease1 = {} => \A l \in lease_find_by_addr(d1, a) :
                                  config_has_mac(cfg, l.hw)
  <2>1. a \in Addr
    BY <1>3, AddrAssumption DEF Refused, narrow_context
  <2>2. \A l \in lease1 : l.addr = a
    BY <1>3
  <2>3. lease1 = {} => \A l \in lease_find_by_addr(d1, a) :
                          config_has_mac(cfg, l.hw)
    BY <1>3 DEF Refused
  <2> QED BY <2>1, <2>2, <2>3
<1>4. Theirs(lease1, m)
  BY DEF Theirs
<1> HIDE DEF a, moved, d1, lease1, quiet, no
<1>5. ASSUME ~no, lease1 = {} PROVE Theirs(lease_find_by_addr(d1, a), m)
  <2> SUFFICES ASSUME NEW l \in lease_find_by_addr(d1, a)
               PROVE  HeldBy(CoreOf(l), m) /\ Used(l.clid)
    BY DEF Theirs
  <2>1. config_has_mac(cfg, l.hw) /\ l \in d.leases
    BY <1>2, <1>3, <1>5 DEF lease_find_by_addr
  <2>2. OwnOK(CoreOf(l)) /\ CoreOf(l).hw = l.hw /\ CoreOf(l).clid = l.clid
    BY <2>1 DEF AllOwn, Cores, CoreOf
  <2>3. cfg \in Configs /\ l.hw \in cfg.macs
    BY <2>1 DEF CfgOwn, config_has_mac
  <2>4. PICK z \in Messages : Matches(cfg, z) /\ SameHost(z, m)
    BY <2>1 DEF CfgOwn
  <2>5. HeldBy(CoreOf(l), m)
    BY <2>2, <2>3, <2>4, TakenHeld
  <2> QED BY <2>2, <2>5 DEF OwnOK
<1>6. ASSUME ~no, NEW o \in Grant(d1, m, clid, lease1, cfg0, a)
      PROVE  Keeps(C, m, o)
  <2>1. Keeps(D, m, o)
    BY <1>2, <1>3, <1>4, <1>5, <1>6, GrantKeeps DEF D
  <2> HIDE DEF C, D
  <2> QED BY <1>2, <2>1, DropKeeps
<1>7. Keeps(C, m, Silent(d))
  <2>1. Silent(d).db = d /\ ~Granted(Silent(d).reply)
    BY DEF Silent, Outcome, Granted
  <2> QED BY <2>1, SameKeeps
<1>8. Keeps(C, m, Nak(d1, m))
  <2>1. Nak(d1, m).db = d1 /\ ~Granted(Nak(d1, m).reply)
    BY DEF Nak, Outcome, Packet, Granted
  <2>2. Keeps(D, m, Nak(d1, m))
    BY <2>1, SameKeeps DEF D
  <2> HIDE DEF C, D
  <2> QED BY <1>2, <2>2, DropKeeps
<1> QED
  BY <1>1, <1>6, <1>7, <1>8

(* BOOTP with a nailed address: only this hardware or nobody has it.       *)
LEMMA BootpNailedKeeps ==
  ASSUME Env, HostsDistinct, NEW d, Pruned(d), AllOwn(Cores(d.leases)),
         NEW m \in Messages, m.type = "BOOTP",
         NEW cfg \in Configs \cup {NoConfig}, HasAddr(cfg)
  PROVE  \A o \in BootpNailed(d, m, cfg) : Keeps(Cores(d.leases), m, o)
<1> DEFINE found == lease_find_by_addr(d, cfg.addr)
<1>1. cfg.addr \in Addr /\ DbOK(d)
  BY HasAddrType DEF Pruned
<1>2. found \in SUBSET d.leases /\ \A l \in found : l.addr = cfg.addr
  BY DEF lease_find_by_addr
<1>3. Keeps(Cores(d.leases), m, Silent(d))
  <2>1. Silent(d).db = d /\ ~Granted(Silent(d).reply)
    BY DEF Silent, Outcome, Granted
  <2> QED BY <2>1, SameKeeps
<1>4. ASSUME \A l \in found : l.hw = m.hw
      PROVE  \A o \in BootpGrant(d, m, cfg, found, cfg.addr) :
                Keeps(Cores(d.leases), m, o)
  <2>1. Theirs(found, m)
    <3> SUFFICES ASSUME NEW l \in found
                 PROVE  HeldBy(CoreOf(l), m) /\ Used(l.clid)
      BY DEF Theirs
    <3>1. OwnOK(CoreOf(l)) /\ CoreOf(l).hw = l.hw /\ CoreOf(l).clid = l.clid
      BY <1>2 DEF AllOwn, Cores, CoreOf
    <3>2. Claims(m, CoreOf(l))
      BY <1>4, <3>1 DEF Claims
    <3> QED BY <3>1, <3>2, ClaimedHeld DEF OwnOK
  <2>2. found = {} => lease_find_by_addr(d, cfg.addr) = {}
    OBVIOUS
  <2> HIDE DEF found
  <2> QED BY <1>1, <1>2, <2>1, <2>2, BootpGrantKeeps
<1> QED
  BY <1>3, <1>4 DEF BootpNailed

(* BOOTP without a nailed address, the client having at most one lease.    *)
LEMMA BootpFreeKeeps ==
  ASSUME Env, HostsDistinct, NEW d, Pruned(d),
         NEW m \in Messages, m.type = "BOOTP",
         NEW cfg \in Configs \cup {NoConfig}, NEW lease \in SUBSET d.leases,
         \A x, y \in lease : x = y, Theirs(lease, m)
  PROVE  \A o \in BootpFree(d, m, cfg, lease) : Keeps(Cores(d.leases), m, o)
<1> DEFINE stale == {l \in lease : ~address_available(l.addr)}
           d1    == lease_prune(d, stale, now)
           keep  == lease \ stale
           addrs == IF keep # {} THEN {l.addr : l \in keep}
                                 ELSE address_allocate(d1)
           C == Cores(d.leases)
           D == Cores(d1.leases)
<1>1. BootpFree(d, m, cfg, lease) =
        IF ~BootpDynamic THEN {Silent(d1)}
        ELSE UNION {IF a = NoAddr THEN {Silent(d1)}
                    ELSE BootpGrant(d1, m, cfg, keep, a) : a \in addrs}
  BY DEF BootpFree
<1>2. DbOK(d1) /\ keep \in SUBSET d1.leases /\ Drops(C, D, m)
  <2>1. \A l \in stale : HeldBy(CoreOf(l), m) /\ GivesUp(m, l.addr)
    BY DEF Theirs, GivesUp
  <2> HIDE DEF stale
  <2>2. DbOK(d1) /\ \A l \in d.leases : l \notin stale => l \in d1.leases
    BY PruneAgain DEF Pruned
  <2>3. Drops(C, D, m)
    BY <2>1, PruneDrops
  <2> HIDE DEF d1, C, D
  <2> QED BY <2>2, <2>3
<1>3. Theirs(keep, m)
  BY DEF Theirs
<1>4. ASSUME NEW a \in addrs, a # NoAddr
      PROVE  /\ a \in Addr /\ \A l \in keep : l.addr = a
             /\ keep = {} => lease_find_by_addr(d1, a) = {}
  <2> HIDE DEF d1
  <2>1. CASE keep # {}
    <3>0. \A x, y \in keep : x = y
      OBVIOUS
    <3> HIDE DEF keep
    <3>1. a \in {l.addr : l \in keep}
      BY <2>1, <1>4
    <3> QED BY <1>2, <2>1, <3>0, <3>1 DEF DbOK, Db, Lease
  <2>2. CASE keep = {}
    <3>1. a \in address_allocate(d1)
      BY <2>2, <1>4
    <3> HIDE DEF keep, addrs
    <3> QED BY <1>4, <2>2, <3>1, AddrAssumption DEF address_allocate
  <2> QED BY <2>1, <2>2
<1> HIDE DEF stale, d1, keep, addrs
<1>5. Keeps(C, m, Silent(d1))
  <2>1. Silent(d1).db = d1 /\ ~Granted(Silent(d1).reply)
    BY DEF Silent, Outcome, Granted
  <2>2. Keeps(D, m, Silent(d1))
    BY <2>1, SameKeeps DEF D
  <2> HIDE DEF C, D
  <2> QED BY <1>2, <2>2, DropKeeps
<1>6. ASSUME NEW a \in addrs, a # NoAddr, NEW o \in BootpGrant(d1, m, cfg, keep, a)
      PROVE  Keeps(C, m, o)
  <2>1. /\ a \in Addr /\ \A l \in keep : l.addr = a
        /\ keep = {} => lease_find_by_addr(d1, a) = {}
    BY <1>4, <1>6
  <2>2. Keeps(D, m, o)
    BY <1>2, <1>3, <1>6, <2>1, BootpGrantKeeps DEF D
  <2> HIDE DEF C, D
  <2> QED BY <1>2, <2>2, DropKeeps
<1> HIDE DEF C
<1>7. \A o \in BootpFree(d, m, cfg, lease) : Keeps(C, m, o)
  BY <1>1, <1>5, <1>6
<1> QED
  BY <1>7 DEF C

(* The lease that is found for a client is the client's.                   *)
LEMMA FoundTheirs ==
  ASSUME HostsDistinct, NEW d, AllOwn(Cores(d.leases)), NEW m \in Messages,
         NEW clid \in {m.clid, NoClid}
  PROVE  /\ lease_find_by_client(d, m.hw, clid) \subseteq d.leases
         /\ Theirs(lease_find_by_client(d, m.hw, clid), m)
<1> DEFINE found == lease_find_by_client(d, m.hw, clid)
<1>1. /\ found \subseteq d.leases
      /\ \A l \in found : l.hw = m.hw \/ (m.clid # NoClid /\ l.clid = m.clid)
  BY DEF lease_find_by_client, FindByClid, FindByHw
<1> HIDE DEF found
<1>2. ASSUME NEW l \in found PROVE HeldBy(CoreOf(l), m) /\ Used(l.clid)
  <2>1. OwnOK(CoreOf(l)) /\ CoreOf(l).hw = l.hw /\ CoreOf(l).clid = l.clid
    BY <1>1 DEF AllOwn, Cores, CoreOf
  <2>2. Claims(m, CoreOf(l))
    BY <1>1, <2>1 DEF Claims
  <2> QED BY <2>1, <2>2, ClaimedHeld DEF OwnOK
<1>3. Theirs(found, m)
  BY <1>2 DEF Theirs
<1> QED
  BY <1>1, <1>3 DEF found

(* The whole BOOTP branch.                                                 *)
LEMMA BootpKeeps ==
  ASSUME Env, HostsDistinct, NEW d, Pruned(d), AllOwn(Cores(d.leases)),
         NEW m \in Messages, m.type = "BOOTP",
         NEW cfg \in Configs \cup {NoConfig}
  PROVE  \A o \in Bootp(d, m, cfg) : Keeps(Cores(d.leases), m, o)
<1> DEFINE found == lease_find_by_client(d, m.hw, NoClid)
           C == Cores(d.leases)
           U == UNION {BootpFree(d, m, cfg, {l}) : l \in found}
<1>1. found \subseteq d.leases /\ Theirs(found, m)
  BY FoundTheirs
<1>2. Keeps(C, m, Silent(d))
  <2>1. Silent(d).db = d /\ ~Granted(Silent(d).reply)
    BY DEF Silent, Outcome, Granted
  <2> QED BY <2>1, SameKeeps
<1>3. \/ Bootp(d, m, cfg) = {Silent(d)}
      \/ HasAddr(cfg) /\ Bootp(d, m, cfg) = BootpNailed(d, m, cfg)
      \/ Bootp(d, m, cfg) = BootpFree(d, m, cfg, {})
      \/ Bootp(d, m, cfg) = U
  BY Zenon DEF Bootp
<1> HIDE DEF found
<1>4. \A o \in BootpFree(d, m, cfg, {}) : Keeps(C, m, o)
  BY BootpFreeKeeps DEF Theirs
<1>5. \A l \in found : \A o \in BootpFree(d, m, cfg, {l}) : Keeps(C, m, o)
  <2> TAKE l \in found
  <2>1. {l} \in SUBSET d.leases /\ Theirs({l}, m) /\ \A x, y \in {l} : x = y
    BY <1>1 DEF Theirs
  <2> QED BY <2>1, BootpFreeKeeps
<1>6. HasAddr(cfg) => \A o \in BootpNailed(d, m, cfg) : Keeps(C, m, o)
  BY BootpNailedKeeps
<1> HIDE DEF C
<1>7. \A o \in U : Keeps(C, m, o)
  BY <1>5, Zenon
<1> HIDE DEF U
<1>8. \A o \in Bootp(d, m, cfg) : Keeps(C, m, o)
  BY <1>2, <1>3, <1>4, <1>6, <1>7
<1> QED
  BY <1>8 DEF C

(* dhcp_reply once the lease of the client has been looked up.             *)
LEMMA ReplyToKeeps ==
  ASSUME Env, HostsDistinct, NEW d, Pruned(d), AllOwn(Cores(d.leases)),
         NEW m \in Messages, NEW lease \in SUBSET d.leases, Theirs(lease, m),
         m.type # "BOOTP" => Owned(d, lease, EffClid(m, lease))
  PROVE  \A o \in ReplyTo(d, m, lease) : Keeps(Cores(d.leases), m, o)
<1> DEFINE clid == EffClid(m, lease)
           cfg0 == find_config(m.hw, clid)
           cfg  == find_config_by_name(cfg0, m.name)
           cfgB == find_config(m.hw, NoClid)
<1>1. clid \in AnyClid
  BY MessageAssumption DEF EffClid, AnyClid, Message, Pruned, DbOK, Db, Lease
<1>2. ClidOwn(clid, m) /\ Used(clid)
  <2>1. ClidOwn(m.clid, m) /\ Used(m.clid)
    BY ClidOwnOK DEF Used
  <2>2. CASE m.clid = NoClid /\ lease # {}
    <3>1. PICK l \in lease : clid = l.clid
      BY <2>2 DEF EffClid
    <3>2. HeldBy(CoreOf(l), m) /\ Used(l.clid)
      BY <3>1 DEF Theirs
    <3> QED BY <3>1, <3>2, ClidOwnOK
  <2>3. CASE ~(m.clid = NoClid /\ lease # {})
    BY <2>1, <2>3 DEF EffClid
  <2> QED BY <2>2, <2>3
<1>3. cfg0 \in Configs \cup {NoConfig} /\ cfgB \in Configs \cup {NoConfig}
  BY FindConfigType
<1>4. CfgOwn(cfg, m)
  <2> HIDE DEF clid
  <2> QED BY <1>2, FindCfgOwn
<1>5. m.type \in Type
  BY MessageAssumption DEF Message
<1>6. m.type = "REQUEST" => Owned(d, lease, clid)
  OBVIOUS
<1> DEFINE R == ReplyTo(d, m, lease)
           C == Cores(d.leases)
<1>7. /\ m.type = "DISCOVER" => R = Discover(d, m, lease, cfg)
      /\ m.type = "REQUEST"  => R = Request(d, m, clid, lease, cfg0, cfg)
      /\ m.type = "DECLINE"  => R = {Decline(d, m, lease, cfg)}
      /\ m.type = "RELEASE"  => R = {Release(d, m, lease)}
      /\ m.type = "INFORM"   => R = {Inform(d, m)}
      /\ m.type = "BOOTP"    => R = Bootp(d, m, cfgB)
  BY DEF ReplyTo
<1> HIDE DEF clid, cfg0, cfg, cfgB, R
<1>8. m.type = "REQUEST" =>
        \A o \in Request(d, m, clid, lease, cfg0, cfg) : Keeps(C, m, o)
  BY <1>1, <1>2, <1>3, <1>4, <1>6, RequestKeeps
<1>9. m.type = "BOOTP" => \A o \in Bootp(d, m, cfgB) : Keeps(C, m, o)
  BY <1>3, BootpKeeps
<1>10. /\ \A o \in Discover(d, m, lease, cfg) : Keeps(C, m, o)
       /\ Keeps(C, m, Inform(d, m))
  BY AskKeeps
<1>11. /\ m.type = "DECLINE" => Keeps(C, m, Decline(d, m, lease, cfg))
       /\ m.type = "RELEASE" => Keeps(C, m, Release(d, m, lease))
  BY GiveUpKeeps
<1> HIDE DEF C
<1>12. \A o \in R : Keeps(C, m, o)
  BY <1>5, <1>7, <1>8, <1>9, <1>10, <1>11 DEF Type
<1> QED
  BY <1>12 DEF R, C

(* Whatever dhcp_reply does with a message, it takes no lease away from    *)
(* another host than the sender's, and backs what it promises.             *)
LEMMA DhcpReplyKeeps ==
  ASSUME Env, HostsDistinct, NEW d, Pruned(d), AllOwn(Cores(d.leases)),
         NEW m \in Messages
  PROVE  \A o \in dhcp_reply(d, m) : Keeps(Cores(d.leases), m, o)
<1> DEFINE found == lease_find_by_client(d, m.hw, m.clid)
           C == Cores(d.leases)
           U == UNION {ReplyTo(d, m, {l}) : l \in found}
<1>1. found \subseteq d.leases /\ Theirs(found, m)
  BY FoundTheirs
<1>2. /\ found = {} => Owned(d, {}, EffClid(m, {}))
      /\ \A l \in found : Owned(d, {l}, EffClid(m, {l}))
  BY FoundOwned DEF Pruned
<1>3. \/ (m.type = "BOOTP" \/ found = {}) /\ dhcp_reply(d, m) = ReplyTo(d, m, {})
      \/ dhcp_reply(d, m) = U
  BY Zenon DEF dhcp_reply
<1> HIDE DEF found
<1>4. m.type = "BOOTP" \/ found = {} =>
        \A o \in ReplyTo(d, m, {}) : Keeps(C, m, o)
  <2>1. {} \in SUBSET d.leases /\ Theirs({}, m)
    BY DEF Theirs
  <2> QED BY <1>2, <2>1, ReplyToKeeps
<1>5. \A l \in found : \A o \in ReplyTo(d, m, {l}) : Keeps(C, m, o)
  <2> TAKE l \in found
  <2>1. {l} \in SUBSET d.leases /\ Theirs({l}, m)
    BY <1>1 DEF Theirs
  <2> QED BY <1>2, <2>1, ReplyToKeeps
<1> HIDE DEF C
<1>6. \A o \in U : Keeps(C, m, o)
  BY <1>5, Zenon
<1> HIDE DEF U
<1>7. \A o \in dhcp_reply(d, m) : Keeps(C, m, o)
  BY <1>3, <1>4, <1>6
<1> QED
  BY <1>7 DEF C

-----------------------------------------------------------------------------
(* The inductive invariant behind GrantExclusive and GrantBacked.  What a  *)
(* client holds is backed by a lease of its host that lasts as long, in    *)
(* memory and in the file: a reply is sent only once the file has it.      *)
Backs(l, g) ==
    /\ l.addr = g.addr /\ HeldBy(l, g)
    /\ l.expires = 0 \/ (g.until # 0 /\ l.expires >= g.until)

BackedBy(C, G) == \A g \in G : \E l \in C : Backs(l, g)

Current(g) == g.until = 0 \/ (now <= g.until /\ g.until <= now + LeaseTime)

HoldersOK == \A g \in held : Sender(g) /\ Current(g)

QuietOK == pc \in {"idle", "down", "configs"} => reply = NoReply

OwnersOK == AllOwn(Cores(db.leases)) /\ AllOwn(Cores(file))

ReplyBacked ==
    Granted(reply) =>
        /\ Sender(reply) /\ reply.until \in {0, now + LeaseTime}
        /\ HasLease(Cores(db.leases), reply, reply.yiaddr, reply.until)

DbBacks == ~faulty /\ pc # "down" => BackedBy(Cores(db.leases), held)

FileBacks == ~faulty /\ pc # "rewrite" => BackedBy(Cores(file), held)

CleanSend == ~faulty /\ pc = "send" => ~db.file_dirty

GrantInv ==
    /\ HoldersOK /\ QuietOK /\ OwnersOK /\ ReplyBacked
    /\ DbBacks /\ FileBacks /\ CleanSend /\ GrantExclusive

(* Nobody holds anything yet.                                              *)
LEMMA GrantInit == Init => GrantInv
<1> SUFFICES ASSUME Init PROVE GrantInv
  OBVIOUS
<1>1. Cores(db.leases) = {} /\ Cores(file) = {}
  BY DEF Init, EmptyDb, Cores
<1>2. ~Granted(reply)
  BY DEF Init, Granted
<1> QED
  BY <1>1, <1>2 DEF Init, GrantInv, HoldersOK, QuietOK, OwnersOK, ReplyBacked,
     DbBacks, FileBacks, CleanSend, GrantExclusive, BackedBy, AllOwn

(* Steps that change nothing that matters to a client.                     *)
LEMMA GrantFrame ==
  ASSUME Inv, GrantInv, Cores(db'.leases) = Cores(db.leases),
         UNCHANGED <<held, now, reply, file>>, faulty => faulty',
         pc' # "down" => pc # "down", pc' # "rewrite" => pc # "rewrite",
         pc' \in {"idle", "down", "configs"} => pc \in {"idle", "down", "configs"},
         ~faulty' /\ pc' = "send" => ~db'.file_dirty
  PROVE  GrantInv'
<1>1. HoldersOK' /\ QuietOK' /\ OwnersOK'
  BY DEF GrantInv, HoldersOK, QuietOK, OwnersOK, Current
<1>2. ReplyBacked'
  BY DEF GrantInv, ReplyBacked
<1>3. DbBacks' /\ FileBacks' /\ CleanSend'
  BY DEF GrantInv, DbBacks, FileBacks, CleanSend
<1>4. GrantExclusive'
  BY DEF GrantInv, GrantExclusive
<1> QED
  BY <1>1, <1>2, <1>3, <1>4 DEF GrantInv

(* What the file keeps of the leases is what matters to a client.          *)
LEMMA StoredCores ==
  ASSUME NEW S \in SUBSET Lease
  PROVE  Cores(Stored(S)) = Cores(S)
<1>1. \A l \in S : CoreOf([l EXCEPT !.auth = FALSE]) = CoreOf(l)
  BY DEF CoreOf, Lease
<1> QED
  BY <1>1 DEF Cores, Stored

(* Part of a rewrite holds leases of their owners only.                    *)
LEMMA PartOwn ==
  ASSUME NEW S \in SUBSET Lease, AllOwn(Cores(S)), NEW part \in SUBSET Stored(S)
  PROVE  AllOwn(Cores(part))
<1>1. Cores(part) \subseteq Cores(Stored(S))
  BY DEF Cores
<1> QED
  BY <1>1, StoredCores DEF AllOwn

(* lease_prune of the expired leases keeps what backs a current grant.     *)
LEMMA PruneBacks ==
  ASSUME NEW d, d.leases \in SUBSET Lease, HoldersOK, TypeOK
  PROVE  LET e == lease_prune(d, {}, now)
         IN  /\ Cores(e.leases) \subseteq Cores(d.leases)
             /\ BackedBy(Cores(d.leases), held) => BackedBy(Cores(e.leases), held)
<1> DEFINE e == lease_prune(d, {}, now)
<1>1. /\ e.leases \subseteq d.leases
      /\ \A l \in d.leases : ~Expired(l, now) => l \in e.leases
  BY DEF lease_prune
<1> HIDE DEF e
<1>2. Cores(e.leases) \subseteq Cores(d.leases)
  BY <1>1 DEF Cores
<1>3. ASSUME NEW g \in held, NEW c \in Cores(d.leases), Backs(c, g)
      PROVE  c \in Cores(e.leases)
  <2>1. PICK l \in d.leases : c = CoreOf(l)
    BY DEF Cores
  <2>2. c.expires = l.expires /\ l.expires \in Nat
    BY <2>1 DEF CoreOf, Lease
  <2>3. g.until \in Nat /\ now \in Nat
    BY DEF TypeOK
  <2>4. ~Expired(l, now)
    BY <1>3, <2>2, <2>3 DEF Backs, HoldersOK, Current, Expired
  <2> QED BY <1>1, <2>1, <2>4 DEF Cores
<1>4. BackedBy(Cores(d.leases), held) => BackedBy(Cores(e.leases), held)
  BY <1>3 DEF BackedBy
<1> QED
  BY <1>2, <1>4 DEF e

(* A restarted server reads back what backs the grants.                    *)
LEMMA GrantRestart == ASSUME Inv, GrantInv, Restart PROVE GrantInv'
<1> DEFINE d == [leases |-> file, leases_left |-> DhcpMax - Cardinality(file),
                 file_dirty |-> FALSE, dns_dirty |-> FALSE]
           e == lease_prune(d, {}, now)
<1>1. d.leases = file /\ file \in SUBSET Lease
  BY DEF Inv, TypeOK
<1>2. db' = [e EXCEPT !.dns_dirty = TRUE]
  BY DEF Restart, lease_init
<1>3. db'.leases = e.leases
  BY <1>2 DEF lease_prune
<1> HIDE DEF d
<1>4. /\ Cores(e.leases) \subseteq Cores(file)
      /\ BackedBy(Cores(file), held) => BackedBy(Cores(e.leases), held)
  BY <1>1, PruneBacks DEF Inv, GrantInv
<1> HIDE DEF e
<1>5. /\ UNCHANGED <<held, now, reply, file, faulty>>
      /\ pc = "down" /\ pc' = "configs"
  BY DEF Restart
<1>6. HoldersOK' /\ QuietOK' /\ OwnersOK'
  BY <1>3, <1>4, <1>5 DEF GrantInv, HoldersOK, Current, QuietOK, OwnersOK, AllOwn
<1>7. ReplyBacked'
  BY <1>5 DEF GrantInv, QuietOK, ReplyBacked, Granted
<1>8. DbBacks' /\ FileBacks' /\ CleanSend'
  BY <1>3, <1>4, <1>5 DEF GrantInv, DbBacks, FileBacks, CleanSend
<1>9. GrantExclusive'
  BY <1>5 DEF GrantInv, GrantExclusive
<1> QED
  BY <1>6, <1>7, <1>8, <1>9 DEF GrantInv

(* lease_update_from_configs only renames.                                 *)
LEMMA UpdateCores ==
  ASSUME Inv, UpdateFromConfigs
  PROVE  Cores(db'.leases) = Cores(db.leases)
<1> PICK l \in {x \in db.leases : x.addr \in todo} :
      /\ todo' = todo \ {l.addr}
      /\ db' = IF ConfiguredName(l) = NoName THEN db
               ELSE lease_set_hostname([lease |-> l, db |-> db],
                                       ConfiguredName(l), TRUE).db
  BY DEF UpdateFromConfigs
<1>1. CASE ConfiguredName(l) = NoName
  BY <1>1
<1>2. CASE ConfiguredName(l) # NoName
  <2> DEFINE p == [lease |-> l, db |-> db]
             cfg == find_config(l.hw, l.clid)
             q == lease_set_hostname(p, ConfiguredName(l), TRUE)
  <2>1. PairOK(p) /\ p.db = db /\ p.lease = l
    BY DEF PairOK, Inv
  <2>2. ConfiguredName(l) \in Names
    <3>1. cfg \in Configs \cup {NoConfig}
      BY FindConfigType
    <3>2. HasName(cfg) => cfg.name \in Names
      BY <3>1, HasNameType
    <3>3. HostsName[l.addr] \in Names \cup {NoName}
      BY ConfigAssumption DEF Inv, TypeOK, Db, Lease
    <3> QED BY <1>2, <3>2, <3>3 DEF ConfiguredName
  <2>3. db' = q.db
    BY <1>2
  <2> HIDE DEF p
  <2>4. Kept(p, q)
    BY <2>1, <2>2, SetHostnameKept
  <2>5. Others(q) = Others(p) /\ CoreOf(q.lease) = CoreOf(p.lease)
    BY <2>1, <2>2, SetHostnameOthers
  <2> HIDE DEF q
  <2>6. Cores(q.db.leases) = Others(q) \cup {CoreOf(q.lease)}
    BY <2>4 DEF Others, Cores, Kept, PairOK
  <2>7. Cores(p.db.leases) = Others(p) \cup {CoreOf(p.lease)}
    BY <2>1 DEF Others, Cores, PairOK
  <2> QED BY <2>1, <2>3, <2>5, <2>6, <2>7
<1> QED
  BY <1>1, <1>2

(* A packet: what the sender gives up is no longer held, and all the rest  *)
(* stays backed.                                                           *)
LEMMA GrantRecv ==
  ASSUME HostsDistinct, Inv, GrantInv, NEW m \in Messages, Recv(m)
  PROVE  GrantInv'
<1> DEFINE d == lease_prune(db, {}, now)
           C == Cores(d.leases)
           E == Cores(db'.leases)
<1>1. Pruned(d) /\ Env
  BY PruneFresh DEF Inv, TypeOK, Env
<1>2. /\ C \subseteq Cores(db.leases)
      /\ BackedBy(Cores(db.leases), held) => BackedBy(C, held)
  BY PruneBacks DEF Inv, GrantInv, TypeOK, Db
<1> HIDE DEF d
<1>3. AllOwn(C)
  BY <1>2 DEF GrantInv, OwnersOK, AllOwn
<1>4. PICK o \in dhcp_reply(d, m) : db' = o.db /\ reply' = o.reply
  BY DEF Recv, d
<1>5. AddsOwn(C, E, m) /\ LosesOwn(C, E, m) /\ Promises(E, m, reply')
  <2>1. Keeps(C, m, o)
    BY <1>1, <1>3, DhcpReplyKeeps
  <2> QED BY <1>4, <2>1 DEF Keeps
<1>6. /\ UNCHANGED <<now, file, faulty>> /\ pc = "idle" /\ pc' = "update"
      /\ held' = {g \in held : ~Disowns(m, g)}
  BY DEF Recv
<1> HIDE DEF C, E
<1>7. HoldersOK' /\ QuietOK'
  BY <1>6 DEF GrantInv, HoldersOK, Current, QuietOK
<1>8. OwnersOK'
  <2>1. AllOwn(E)
    BY <1>3, <1>5 DEF AllOwn, AddsOwn, OwnOK
  <2> QED BY <1>6, <2>1 DEF GrantInv, OwnersOK, E
<1>9. ReplyBacked'
  <2> SUFFICES ASSUME Granted(reply')
               PROVE  /\ Sender(reply') /\ reply'.until \in {0, now + LeaseTime}
                      /\ HasLease(E, reply', reply'.yiaddr, reply'.until)
    BY <1>6 DEF ReplyBacked, E
  <2>1. /\ reply'.hw = m.hw /\ reply'.clid = m.clid
        /\ reply'.until \in {0, now + LeaseTime}
        /\ HasLease(E, m, reply'.yiaddr, reply'.until)
    BY <1>5 DEF Promises
  <2>2. Sender(reply') /\ Sender(m) /\ SameHost(m, reply')
    BY <2>1 DEF Sender, HostsDistinct, SameHost, SameClient
  <2>3. \A k : HeldBy(k, m) => HeldBy(k, reply')
    BY <2>2, HeldTrans
  <2> QED BY <2>1, <2>2, <2>3 DEF HasLease
<1>10. ~faulty => BackedBy(E, held')
  <2> SUFFICES ASSUME ~faulty, NEW g \in held, ~Disowns(m, g)
               PROVE  \E k \in E : Backs(k, g)
    BY <1>6 DEF BackedBy
  <2>1. PICK l \in C : Backs(l, g)
    BY <1>2, <1>6 DEF GrantInv, DbBacks, BackedBy
  <2>2. Sender(g) /\ Sender(m) /\ Current(g) /\ OwnOK(l)
    BY <1>3, <2>1 DEF GrantInv, HoldersOK, Sender, AllOwn
  <2>3. HeldBy(l, m) => SameHost(g, m)
    BY <2>1, <2>2, HeldSame DEF Backs
  <2>4. CASE l \in E
    BY <2>1, <2>4
  <2>5. CASE HeldBy(l, m) /\ GivesUp(m, l.addr)
    BY <2>1, <2>3, <2>5 DEF Backs, GivesUp, Disowns
  <2>6. CASE HeldBy(l, m) /\ m.type = "REQUEST"
             /\ HasLease(E, m, l.addr, now + LeaseTime)
    <3>1. PICK k \in E : k.addr = l.addr /\ HeldBy(k, m)
                         /\ k.expires = now + LeaseTime
      BY <2>6 DEF HasLease
    <3>2. SameHost(m, g) /\ g.until # 0
      BY <2>3, <2>6, SameHostSym DEF Disowns
    <3>3. HeldBy(k, g)
      BY <2>2, <3>1, <3>2, HeldTrans
    <3>4. k.expires >= g.until
      <4>1. g.until \in Nat /\ now \in Nat
        BY DEF Inv, TypeOK
      <4> QED BY <2>2, <3>1, <3>2, <4>1, TimeAssumption DEF Current
    <3> QED BY <2>1, <3>1, <3>2, <3>3, <3>4 DEF Backs
  <2> QED BY <1>5, <2>1, <2>4, <2>5, <2>6 DEF LosesOwn
<1>11. DbBacks' /\ FileBacks' /\ CleanSend'
  BY <1>6, <1>10 DEF GrantInv, DbBacks, FileBacks, CleanSend, BackedBy, E
<1>12. GrantExclusive'
  BY <1>6 DEF GrantInv, GrantExclusive
<1> QED
  BY <1>7, <1>8, <1>9, <1>11, <1>12 DEF GrantInv

(* EVENT_ALARM drops expired leases only.                                  *)
LEMMA GrantAlarm == ASSUME Inv, GrantInv, AlarmEvent PROVE GrantInv'
<1> DEFINE d == lease_prune(db, {}, now)
<1>1. /\ Cores(d.leases) \subseteq Cores(db.leases)
      /\ BackedBy(Cores(db.leases), held) => BackedBy(Cores(d.leases), held)
  BY PruneBacks DEF Inv, GrantInv, TypeOK, Db
<1>2. /\ db' = d /\ UNCHANGED <<held, now, reply, file, faulty>>
      /\ pc = "idle" /\ pc' = "update"
  BY DEF AlarmEvent
<1> HIDE DEF d
<1>3. HoldersOK' /\ QuietOK' /\ OwnersOK'
  BY <1>1, <1>2 DEF GrantInv, HoldersOK, Current, QuietOK, OwnersOK, AllOwn
<1>4. ReplyBacked'
  BY <1>2 DEF GrantInv, QuietOK, ReplyBacked, Granted
<1>5. DbBacks' /\ FileBacks' /\ CleanSend'
  BY <1>1, <1>2 DEF GrantInv, DbBacks, FileBacks, CleanSend
<1>6. GrantExclusive'
  BY <1>2 DEF GrantInv, GrantExclusive
<1> QED
  BY <1>3, <1>4, <1>5, <1>6 DEF GrantInv

(* The rewrite of the file, from ftruncate to its end.                     *)
LEMMA GrantWrite ==
  ASSUME Inv, GrantInv, Truncate \/ WriteOk \/ WriteErr PROVE GrantInv'
<1>1. db.leases \in SUBSET Lease
  BY DEF Inv, TypeOK, Db
<1>2. /\ db'.leases = db.leases /\ UNCHANGED <<held, now, reply>>
      /\ (faulty => faulty') /\ pc \in {"update", "rewrite"}
      /\ pc' \in {"rewrite", "send"}
  <2>1. CASE Truncate
    BY <2>1 DEF Truncate
  <2>2. CASE WriteOk
    <3>1. DbOK(db)
      BY DEF Inv
    <3> QED BY <2>2, <3>1, CleanFlag DEF WriteOk
  <2>3. CASE WriteErr
    BY <2>3 DEF WriteErr
  <2> QED BY <2>1, <2>2, <2>3
<1>3. HoldersOK' /\ QuietOK' /\ ReplyBacked' /\ DbBacks'
  <2>1. HoldersOK' /\ QuietOK'
    BY <1>2 DEF GrantInv, HoldersOK, Current, QuietOK
  <2>2. ReplyBacked'
    BY <1>2 DEF GrantInv, ReplyBacked
  <2>3. DbBacks'
    BY <1>2 DEF GrantInv, DbBacks
  <2> QED BY <2>1, <2>2, <2>3
<1>4. GrantExclusive'
  BY <1>2 DEF GrantInv, GrantExclusive
<1>5. AllOwn(Cores(file')) /\ FileBacks' /\ CleanSend'
  <2>1. CASE Truncate
    <3>1. Cores(file') = {} /\ pc' = "rewrite"
      BY <2>1 DEF Truncate, Cores
    <3> QED BY <3>1 DEF AllOwn, FileBacks, CleanSend
  <2>2. CASE WriteOk
    <3>1. Cores(file') = Cores(db.leases)
      BY <1>1, <2>2, StoredCores DEF WriteOk
    <3>2. ~db'.file_dirty /\ pc = "rewrite" /\ faulty' = faulty
      <4>1. DbOK(db)
        BY DEF Inv
      <4> QED BY <2>2, <4>1, CleanFlag DEF WriteOk
    <3> QED BY <1>2, <3>1, <3>2
            DEF GrantInv, OwnersOK, DbBacks, FileBacks, CleanSend
  <2>3. CASE WriteErr
    <3>1. file' \in SUBSET Stored(db.leases) /\ faulty'
      BY <2>3 DEF WriteErr
    <3>2. AllOwn(Cores(file'))
      BY <1>1, <3>1, PartOwn DEF GrantInv, OwnersOK
    <3> QED BY <3>1, <3>2 DEF FileBacks, CleanSend
  <2> QED BY <2>1, <2>2, <2>3
<1>6. OwnersOK'
  BY <1>2, <1>5 DEF GrantInv, OwnersOK
<1> QED
  BY <1>3, <1>4, <1>5, <1>6 DEF GrantInv

(* The reply goes out: its grant is backed, and replaces what the same     *)
(* host was granted of the address before; no other host holds it.         *)
LEMMA GrantFinish == ASSUME HostsDistinct, Inv, GrantInv, Finish PROVE GrantInv'
<1>1. DbOK(db)
  BY DEF Inv
<1>2. db'.leases = db.leases /\ db'.file_dirty = db.file_dirty
  BY <1>1, CleanFlag DEF Finish
<1>3. /\ UNCHANGED <<now, file, faulty>> /\ pc = "send" /\ pc' = "idle"
      /\ reply' = NoReply
  BY DEF Finish
<1>4. ASSUME Granted(reply)
      PROVE  /\ Sender(GrantOf(reply)) /\ Current(GrantOf(reply))
             /\ \E k \in Cores(db.leases) : Backs(k, GrantOf(reply))
             /\ ~faulty => \A g \in held :
                              g.addr = reply.yiaddr => Replaces(reply, g)
  <2> DEFINE r == GrantOf(reply)
  <2>1. /\ r.hw = reply.hw /\ r.clid = reply.clid /\ r.addr = reply.yiaddr
        /\ r.until = reply.until
    BY DEF GrantOf
  <2> HIDE DEF r
  <2>2. Sender(reply) /\ reply.until \in {0, now + LeaseTime}
    BY <1>4 DEF GrantInv, ReplyBacked
  <2>3. PICK k \in Cores(db.leases) : k.addr = reply.yiaddr /\ HeldBy(k, reply)
                                      /\ k.expires = reply.until
    BY <1>4 DEF GrantInv, ReplyBacked, HasLease
  <2>4. now \in Nat
    BY DEF Inv, TypeOK
  <2>5. Sender(r)
    BY <2>1, <2>2 DEF Sender
  <2>6. Current(r)
    BY <2>1, <2>2, <2>4, TimeAssumption DEF Current
  <2>7. HeldBy(k, r)
    BY <2>1, <2>3 DEF HeldBy, SameHost, SameClient, Matches
  <2>8. Backs(k, r)
    BY <2>1, <2>2, <2>3, <2>4, <2>7, TimeAssumption DEF Backs
  <2>9. ASSUME ~faulty, NEW g \in held, g.addr = reply.yiaddr
        PROVE  Replaces(reply, g)
    <3>1. PICK l \in Cores(db.leases) : Backs(l, g)
      BY <1>3, <2>9 DEF GrantInv, DbBacks, BackedBy
    <3>2. l = k
      <4>1. PICK x \in db.leases : l = CoreOf(x)
        BY <3>1 DEF Cores
      <4>2. PICK y \in db.leases : k = CoreOf(y)
        BY <2>3 DEF Cores
      <4>3. x.addr = y.addr
        BY <2>3, <2>9, <3>1, <4>1, <4>2 DEF Backs, CoreOf
      <4>4. x = y
        BY <1>1, <4>1, <4>2, <4>3 DEF DbOK, Distinct, OnePerAddr
      <4> QED BY <4>1, <4>2, <4>4
    <3>3. HeldBy(k, g) /\ Sender(g) /\ OwnOK(k)
      BY <3>1, <3>2, <2>3 DEF Backs, GrantInv, HoldersOK, OwnersOK, AllOwn
    <3>4. SameHost(g, reply)
      BY <2>2, <2>3, <3>3, HeldSame
    <3> QED BY <2>9, <3>4 DEF Replaces
  <2> QED BY <2>3, <2>5, <2>6, <2>8, <2>9 DEF r
<1>5. \/ ~Granted(reply) /\ held' = held
      \/ Granted(reply)
         /\ held' = {g \in held : ~Replaces(reply, g)} \cup {GrantOf(reply)}
  BY DEF Finish
<1>6. QuietOK' /\ OwnersOK' /\ ReplyBacked' /\ CleanSend'
  BY <1>2, <1>3 DEF GrantInv, QuietOK, OwnersOK, ReplyBacked, CleanSend, Granted
<1>7. HoldersOK'
  BY <1>3, <1>4, <1>5 DEF GrantInv, HoldersOK, Current
<1>8. ~faulty => BackedBy(Cores(db.leases), held')
  BY <1>3, <1>4, <1>5 DEF GrantInv, DbBacks, BackedBy
<1>9. DbBacks'
  BY <1>2, <1>3, <1>8 DEF DbBacks
<1>10. FileBacks'
  <2> SUFFICES ASSUME ~faulty PROVE BackedBy(Cores(file), held')
    BY <1>3 DEF FileBacks
  <2>1. file = Stored(db.leases)
    BY <1>3 DEF GrantInv, CleanSend, Inv, FileInv
  <2>2. Cores(file) = Cores(db.leases)
    BY <2>1, StoredCores DEF Inv, TypeOK, Db
  <2> QED BY <1>8, <2>2
<1>11. GrantExclusive'
  <2> SUFFICES ASSUME ~faulty, NEW g1 \in held', NEW g2 \in held',
                      g1.addr = g2.addr
               PROVE  g1 = g2
    BY <1>3 DEF GrantExclusive
  <2>1. \A x, y \in held : x.addr = y.addr => x = y
    BY DEF GrantInv, GrantExclusive
  <2>2. CASE ~Granted(reply)
    BY <1>5, <2>1, <2>2
  <2>3. CASE Granted(reply)
    <3>1. GrantOf(reply).addr = reply.yiaddr
      BY DEF GrantOf
    <3>2. \A g \in held : g.addr = reply.yiaddr => Replaces(reply, g)
      BY <1>4, <2>3
    <3> QED BY <1>5, <2>1, <2>3, <3>1, <3>2
  <2> QED BY <2>2, <2>3
<1> QED
  BY <1>6, <1>7, <1>9, <1>10, <1>11 DEF GrantInv

(* A crash: the file backs the grants, unless it was being rewritten.      *)
LEMMA GrantCrash == ASSUME Inv, GrantInv, Crash PROVE GrantInv'
<1>1. /\ UNCHANGED <<held, now>> /\ pc' = "down" /\ reply' = NoReply
      /\ faulty' = (faulty \/ pc = "rewrite") /\ db'.leases = {}
  BY DEF Crash, EmptyDb
<1>2. Cores(db'.leases) = {}
  BY <1>1 DEF Cores
<1>3. AllOwn(Cores(file')) /\ FileBacks'
  <2>1. CASE pc = "rewrite"
    <3>1. file' \in SUBSET Stored(db.leases) /\ faulty'
      BY <1>1, <2>1 DEF Crash
    <3>2. AllOwn(Cores(file'))
      BY <3>1, PartOwn DEF GrantInv, OwnersOK, Inv, TypeOK, Db
    <3> QED BY <3>1, <3>2 DEF FileBacks
  <2>2. CASE pc # "rewrite"
    <3>1. file' = file
      BY <2>2 DEF Crash
    <3> QED BY <1>1, <2>2, <3>1 DEF GrantInv, OwnersOK, FileBacks
  <2> QED BY <2>1, <2>2
<1>4. OwnersOK'
  BY <1>2, <1>3 DEF OwnersOK, AllOwn
<1>5. HoldersOK' /\ QuietOK' /\ ReplyBacked' /\ DbBacks' /\ CleanSend'
  BY <1>1 DEF GrantInv, HoldersOK, Current, QuietOK, ReplyBacked, Granted,
              DbBacks, CleanSend
<1>6. GrantExclusive'
  BY <1>1 DEF GrantInv, GrantExclusive
<1> QED
  BY <1>3, <1>4, <1>5, <1>6 DEF GrantInv

(* Time passes: a grant that has run out is dropped.                       *)
LEMMA GrantTick == ASSUME Inv, GrantInv, Tick PROVE GrantInv'
<1>1. /\ UNCHANGED <<db, pc, reply, file, faulty>> /\ pc \in {"idle", "down"}
      /\ now' = now + 1 /\ held' = {g \in held : g.until = 0 \/ g.until > now}
  BY DEF Tick
<1>2. now \in Nat /\ LeaseTime \in Nat /\ \A g \in held : g.until \in Nat
  BY TimeAssumption DEF Inv, TypeOK
<1>3. HoldersOK'
  BY <1>1, <1>2 DEF GrantInv, HoldersOK, Current
<1>4. QuietOK' /\ OwnersOK' /\ ReplyBacked'
  BY <1>1 DEF GrantInv, QuietOK, OwnersOK, ReplyBacked, Granted
<1>5. DbBacks' /\ FileBacks' /\ CleanSend'
  BY <1>1 DEF GrantInv, DbBacks, FileBacks, CleanSend, BackedBy
<1>6. GrantExclusive'
  BY <1>1 DEF GrantInv, GrantExclusive
<1> QED
  BY <1>3, <1>4, <1>5, <1>6 DEF GrantInv

(* Every step of the server keeps the grants in order.                     *)
LEMMA GrantNext ==
  ASSUME HostsDistinct PROVE Inv /\ GrantInv /\ [Next]_vars => GrantInv'
<1> SUFFICES ASSUME Inv, GrantInv, [Next]_vars PROVE GrantInv'
  OBVIOUS
<1>1. CASE Restart           BY <1>1, GrantRestart
<1>2. CASE Reload            BY <1>2, GrantFrame DEF Reload
<1>3. CASE UpdateFromConfigs
  <2>1. Cores(db'.leases) = Cores(db.leases)
    BY <1>3, UpdateCores
  <2> QED BY <1>3, <2>1, GrantFrame DEF UpdateFromConfigs
<1>4. CASE ConfigsDone       BY <1>4, GrantFrame DEF ConfigsDone
<1>5. CASE Ring
  <2>1. CleanSend
    BY DEF GrantInv
  <2> QED BY <1>5, <2>1, GrantFrame DEF Ring, CleanSend
<1>6. CASE AlarmEvent        BY <1>6, GrantAlarm
<1>7. CASE FileClean         BY <1>7, GrantFrame DEF FileClean
<1>8. CASE Truncate \/ WriteOk \/ WriteErr BY <1>8, GrantWrite
<1>9. CASE TruncateErr       BY <1>9, GrantFrame DEF TruncateErr
<1>10. CASE Finish           BY <1>10, GrantFinish
<1>11. CASE Crash            BY <1>11, GrantCrash
<1>12. CASE Tick             BY <1>12, GrantTick
<1>13. ASSUME NEW m \in Messages, Recv(m) PROVE GrantInv'
  BY <1>13, GrantRecv
<1>14. CASE UNCHANGED vars
  <2>1. CleanSend
    BY DEF GrantInv
  <2> QED BY <1>14, <2>1, GrantFrame DEF vars, serverVars, CleanSend
<1> QED
  BY <1>1, <1>2, <1>3, <1>4, <1>5, <1>6, <1>7, <1>8, <1>9, <1>10, <1>11,
     <1>12, <1>13, <1>14 DEF Next, Server

(* What clients hold is backed in every reachable state, provided that     *)
(* their hardware addresses and client identifiers tell hosts apart.       *)
THEOREM GrantsInvariant == ASSUME HostsDistinct PROVE Spec => []GrantInv
<1>1. Inv /\ GrantInv /\ [Next]_vars => GrantInv'
  BY GrantNext
<1> QED
  BY <1>1, GrantInit, InvAlways, PTL DEF Spec

(* No two hosts are ever told that an address is theirs, in any order of   *)
(* requests, takeovers, crashes and restarts, while the file can be        *)
(* written and no crash falls inside its rewrite.                          *)
THEOREM GrantsExclusive == ASSUME HostsDistinct PROVE Spec => []GrantExclusive
<1>1. GrantInv => GrantExclusive
  BY DEF GrantInv
<1> QED
  BY <1>1, GrantsInvariant, PTL

(* The server that is up has a lease for what every client holds, and it   *)
(* lasts at least as long as the client was told.                          *)
THEOREM GrantsBacked == ASSUME HostsDistinct PROVE Spec => []GrantBacked
<1>1. GrantInv => GrantBacked
  <2> SUFFICES ASSUME GrantInv, ~faulty, pc = "idle", NEW g \in held
               PROVE  \E l \in db.leases :
                         /\ l.addr = g.addr
                         /\ l.expires = 0 \/ (g.until # 0 /\ l.expires >= g.until)
    BY DEF GrantBacked
  <2>1. PICK c \in Cores(db.leases) : Backs(c, g)
    BY DEF GrantInv, DbBacks, BackedBy
  <2>2. PICK l \in db.leases : c = CoreOf(l)
    BY <2>1 DEF Cores
  <2>3. c.addr = l.addr /\ c.expires = l.expires
    BY <2>2 DEF CoreOf
  <2> QED BY <2>1, <2>2, <2>3 DEF Backs
<1> QED
  BY <1>1, GrantsInvariant, PTL

-----------------------------------------------------------------------------
(* The lease service.  Two clients of one host are one host to it, and a   *)
(* lease that a client holds is its host's.                                *)
LEMMA HostsEqual ==
  ASSUME HostsDistinct, NEW v, NEW w, Sender(v), Sender(w), SameHost(v, w)
  PROVE  HostOf(v) = HostOf(w)
<1>1. \A x \in Senders : Sender(x)
  BY DEF Senders, Sender
<1>2. SameHost(w, v)
  BY SameHostSym
<1>3. \A x \in Senders : SameHost(x, v) <=> SameHost(x, w)
  BY <1>1, <1>2, SameHostTrans
<1> QED
  BY <1>3 DEF HostOf

LEMMA OwnerHost ==
  ASSUME HostsDistinct, NEW l, OwnOK(l), NEW w, Sender(w), HeldBy(l, w)
  PROVE  OwnerOf(l) = HostOf(w)
<1> DEFINE Y == {y \in Senders : Claims(y, l)}
<1>1. \A y \in Y : HostOf(y) = HostOf(w)
  <2> TAKE y \in Y
  <2>1. PICK x \in Messages : x.hw = y.hw /\ x.clid = y.clid
    BY DEF Senders
  <2>2. SameHost(x, w)
    BY <2>1 DEF HeldBy, Claims
  <2>3. SameHost(y, w) /\ Sender(y)
    BY <2>1, <2>2, SameHostAs DEF Sender
  <2> QED BY <2>3, HostsEqual
<1>2. Y # {}
  <2>1. PICK y \in Messages : y.hw = l.hw
    BY DEF OwnOK
  <2> DEFINE z == [hw |-> y.hw, clid |-> y.clid]
  <2>2. z \in Senders /\ Claims(z, l)
    BY <2>1 DEF Senders, Claims
  <2> QED BY <2>2
<1>3. OwnerOf(l) = UNION {HostOf(y) : y \in Y}
  BY DEF OwnerOf
<1> HIDE DEF Y
<1> QED
  BY <1>1, <1>2, <1>3

(* The table is made of what matters to a client.                          *)
LEMMA TableCores ==
  ASSUME NEW S
  PROVE  Table(S) = {Entry(c) : c \in Cores(S)}
<1>1. \A l : Entry(CoreOf(l)) = Entry(l)
  BY DEF Entry, CoreOf, OwnerOf, Claims
<1> QED
  BY <1>1 DEF Table, Cores

(* A lease in the table backs a grant when the lease backs it.             *)
LEMMA EntryBacks ==
  ASSUME HostsDistinct, NEW C, AllOwn(C), NEW G, \A g \in G : Sender(g),
         BackedBy(C, G)
  PROVE  \A t \in Trusts(G) : Service!Backed(t, {Entry(c) : c \in C})
<1> SUFFICES ASSUME NEW g \in G
             PROVE  Service!Backed(Trust(g), {Entry(c) : c \in C})
  BY DEF Trusts
<1>1. PICK c \in C : Backs(c, g)
  BY DEF BackedBy
<1>2. OwnerOf(c) = HostOf(g)
  BY <1>1, OwnerHost DEF AllOwn, Backs
<1>3. /\ Entry(c).addr = Trust(g).addr /\ Entry(c).host = Trust(g).host
      /\ Entry(c).ends = c.expires /\ Trust(g).until = g.until
  BY <1>1, <1>2 DEF Entry, Trust, Backs
<1>4. Entry(c).ends = 0 \/ (Trust(g).until # 0 /\ Entry(c).ends >= Trust(g).until)
  BY <1>1, <1>3 DEF Backs
<1> QED
  BY <1>3, <1>4 DEF Service!Backed

-----------------------------------------------------------------------------
(* What an event has changed and not yet written is one host's.            *)
ChangesOne(C, E) ==
    \E H : /\ \A k \in E : k \in C \/ OwnerOf(k) = H
           /\ \A l \in C : l \in E \/ Expired(l, now) \/ OwnerOf(l) = H

EventInv ==
    ~faulty => /\ pc = "idle" => ~db.file_dirty
               /\ pc \in {"configs", "update"} =>
                     ChangesOne(Cores(file), Cores(db.leases))

LEMMA SameChanges ==
  ASSUME NEW C PROVE ChangesOne(C, C)
BY DEF ChangesOne

(* lease_prune drops expired leases only.                                  *)
LEMMA PruneCores ==
  ASSUME NEW d
  PROVE  LET C == Cores(d.leases)
             E == Cores(lease_prune(d, {}, now).leases)
         IN  E \subseteq C /\ \A c \in C : c \in E \/ Expired(c, now)
<1> DEFINE e == lease_prune(d, {}, now)
<1>1. /\ e.leases \subseteq d.leases
      /\ \A l \in d.leases : ~Expired(l, now) => l \in e.leases
  BY DEF lease_prune
<1> HIDE DEF e
<1>2. Cores(e.leases) \subseteq Cores(d.leases)
  BY <1>1 DEF Cores
<1>3. ASSUME NEW c \in Cores(d.leases) PROVE c \in Cores(e.leases) \/ Expired(c, now)
  <2>1. PICK l \in d.leases : c = CoreOf(l)
    BY DEF Cores
  <2>2. c.expires = l.expires
    BY <2>1 DEF CoreOf
  <2>3. Expired(l, now) => Expired(c, now)
    BY <2>2 DEF Expired
  <2> QED BY <1>1, <2>1, <2>3 DEF Cores
<1> QED
  BY <1>2, <1>3 DEF e

(* Between events the file has what memory has.                            *)
LEMMA IdleCores ==
  ASSUME Inv, EventInv, ~faulty, pc = "idle"
  PROVE  Cores(file) = Cores(db.leases)
<1>1. file = Stored(db.leases)
  BY DEF EventInv, Inv, FileInv
<1> QED
  BY <1>1, StoredCores DEF Inv, TypeOK, Db

LEMMA EventRestart == ASSUME Inv, Restart PROVE EventInv'
<1> DEFINE d == [leases |-> file, leases_left |-> DhcpMax - Cardinality(file),
                 file_dirty |-> FALSE, dns_dirty |-> FALSE]
           e == lease_prune(d, {}, now)
<1>1. d.leases = file /\ db'.leases = e.leases
  BY DEF Restart, lease_init, lease_prune
<1> HIDE DEF d
<1>2. /\ Cores(e.leases) \subseteq Cores(file)
      /\ \A c \in Cores(file) : c \in Cores(e.leases) \/ Expired(c, now)
  BY <1>1, PruneCores
<1> HIDE DEF e
<1>3. ChangesOne(Cores(file), Cores(e.leases))
  BY <1>2 DEF ChangesOne
<1>4. UNCHANGED <<file, now>> /\ pc' = "configs"
  BY DEF Restart
<1> QED
  BY <1>1, <1>3, <1>4 DEF EventInv, ChangesOne

LEMMA EventAlarm == ASSUME Inv, EventInv, AlarmEvent PROVE EventInv'
<1> SUFFICES ASSUME ~faulty PROVE EventInv'
  BY DEF EventInv, AlarmEvent
<1> DEFINE e == lease_prune(db, {}, now)
<1>1. Cores(file) = Cores(db.leases)
  BY IdleCores DEF AlarmEvent
<1>2. /\ Cores(e.leases) \subseteq Cores(file)
      /\ \A c \in Cores(file) : c \in Cores(e.leases) \/ Expired(c, now)
  BY <1>1, PruneCores
<1>3. db' = e /\ UNCHANGED <<file, now>> /\ pc' = "update"
  BY DEF AlarmEvent
<1> HIDE DEF e
<1> QED
  BY <1>2, <1>3 DEF EventInv, ChangesOne

(* A packet changes the leases of its sender's host.                       *)
LEMMA EventRecv ==
  ASSUME HostsDistinct, Inv, GrantInv, GrantInv', EventInv,
         NEW m \in Messages, Recv(m)
  PROVE  EventInv'
<1> SUFFICES ASSUME ~faulty PROVE EventInv'
  BY DEF EventInv, Recv
<1> DEFINE d == lease_prune(db, {}, now)
           B == Cores(file)
           C == Cores(d.leases)
           E == Cores(db'.leases)
<1>1. Pruned(d) /\ Env
  BY PruneFresh DEF Inv, TypeOK, Env
<1>2. B = Cores(db.leases)
  BY IdleCores DEF Recv
<1>3. C \subseteq B /\ \A c \in B : c \in C \/ Expired(c, now)
  BY <1>2, PruneCores
<1> HIDE DEF d
<1>4. AllOwn(B) /\ AllOwn(C) /\ AllOwn(E)
  BY <1>3 DEF GrantInv, OwnersOK, AllOwn
<1>5. PICK o \in dhcp_reply(d, m) : db' = o.db
  BY DEF Recv, d
<1>6. AddsOwn(C, E, m) /\ LosesOwn(C, E, m)
  <2>1. Keeps(C, m, o)
    BY <1>1, <1>4, DhcpReplyKeeps
  <2> QED BY <1>5, <2>1 DEF Keeps
<1> HIDE DEF B, C, E
<1>7. \A k \in E : k \in C \/ HeldBy(k, m)
  BY <1>6 DEF AddsOwn
<1>8. \A l \in C : l \in E \/ HeldBy(l, m)
  BY <1>6 DEF LosesOwn
<1>9. \A k \in E : k \in B \/ OwnerOf(k) = HostOf(m)
  <2>1. Sender(m)
    BY DEF Sender
  <2> QED BY <1>3, <1>4, <1>7, <2>1, OwnerHost DEF AllOwn
<1>10. \A l \in B : l \in E \/ Expired(l, now) \/ OwnerOf(l) = HostOf(m)
  <2>1. Sender(m)
    BY DEF Sender
  <2> QED BY <1>3, <1>4, <1>8, <2>1, OwnerHost DEF AllOwn
<1>11. UNCHANGED <<file, now>> /\ pc' = "update"
  BY DEF Recv
<1> QED
  BY <1>9, <1>10, <1>11 DEF EventInv, ChangesOne, B, E

(* Steps in which memory and file stay as far apart as they are.           *)
LEMMA EventFrame ==
  ASSUME EventInv, Cores(db'.leases) = Cores(db.leases), UNCHANGED <<now, file>>,
         faulty => faulty',
         pc' = "idle" => pc = "idle" /\ (db.file_dirty <=> db'.file_dirty),
         pc' \in {"configs", "update"} => pc \in {"configs", "update"}
  PROVE  EventInv'
BY DEF EventInv, ChangesOne

LEMMA EventNext ==
  ASSUME HostsDistinct
  PROVE  Inv /\ GrantInv /\ GrantInv' /\ EventInv /\ [Next]_vars => EventInv'
<1> SUFFICES ASSUME Inv, GrantInv, GrantInv', EventInv, [Next]_vars PROVE EventInv'
  OBVIOUS
<1>1. CASE Restart           BY <1>1, EventRestart
<1>2. CASE Reload
  <2>1. ~faulty => Cores(file) = Cores(db.leases)
    BY <1>2, IdleCores DEF Reload
  <2>2. ~faulty => ChangesOne(Cores(file), Cores(db.leases))
    BY <2>1, SameChanges
  <2>3. UNCHANGED <<db, file, now, faulty>> /\ pc' = "configs"
    BY <1>2 DEF Reload
  <2> QED BY <2>2, <2>3 DEF EventInv, ChangesOne
<1>3. CASE UpdateFromConfigs
  <2>1. Cores(db'.leases) = Cores(db.leases)
    BY <1>3, UpdateCores
  <2> QED BY <1>3, <2>1, EventFrame DEF UpdateFromConfigs
<1>4. CASE ConfigsDone       BY <1>4, EventFrame DEF ConfigsDone
<1>5. CASE Ring              BY <1>5, EventFrame DEF Ring
<1>6. CASE AlarmEvent        BY <1>6, EventAlarm
<1>7. CASE FileClean \/ Truncate \/ TruncateErr \/ WriteOk \/ WriteErr
  <2>1. pc' \in {"send", "rewrite"}
    BY <1>7 DEF FileClean, Truncate, TruncateErr, WriteOk, WriteErr
  <2> QED BY <2>1 DEF EventInv
<1>8. CASE Finish
  <2>1. db'.file_dirty = db.file_dirty
    <3>1. DbOK(db)
      BY DEF Inv
    <3> QED BY <1>8, <3>1, CleanFlag DEF Finish
  <2>2. pc = "send" /\ pc' = "idle" /\ faulty' = faulty
    BY <1>8 DEF Finish
  <2> QED BY <2>1, <2>2 DEF EventInv, GrantInv, CleanSend
<1>9. CASE Crash             BY <1>9 DEF Crash, EventInv
<1>10. CASE Tick             BY <1>10 DEF Tick, EventInv
<1>11. ASSUME NEW m \in Messages, Recv(m) PROVE EventInv'
  BY <1>11, EventRecv
<1>12. CASE UNCHANGED vars   BY <1>12, EventFrame DEF vars, serverVars
<1> QED
  BY <1>1, <1>2, <1>3, <1>4, <1>5, <1>6, <1>7, <1>8, <1>9, <1>10, <1>11, <1>12
     DEF Next, Server

(* In every reachable state, what an event has changed in memory and not   *)
(* yet in the file belongs to one host, apart from expired leases.         *)
THEOREM EventsInvariant == ASSUME HostsDistinct PROVE Spec => []EventInv
<1>1. Init => EventInv
  BY DEF Init, EventInv
<1>2. Inv /\ GrantInv /\ GrantInv' /\ EventInv /\ [Next]_vars => EventInv'
  BY EventNext
<1> QED
  BY <1>1, <1>2, InvAlways, GrantsInvariant, PTL DEF Spec

-----------------------------------------------------------------------------
(* ftruncate is the point at which the change takes effect.                *)
LEMMA TruncateServes ==
  ASSUME HostsDistinct, Inv, GrantInv, EventInv, ~faulty, Truncate
  PROVE  Service!Serve
<1> DEFINE B == Cores(file)
           E == Cores(db.leases)
           T == Table(Durable)
           U == Table(Durable)'
<1>1. /\ UNCHANGED <<db, held, now, faulty>> /\ pc = "update" /\ pc' = "rewrite"
  BY DEF Truncate
<1>2. T = {Entry(c) : c \in B}
  BY <1>1, TableCores DEF Durable
<1>3. U = {Entry(c) : c \in E}
  <2>1. Durable' = db.leases
    BY <1>1 DEF Durable
  <2> QED BY <2>1, TableCores
<1>4. PICK H : /\ \A k \in E : k \in B \/ OwnerOf(k) = H
               /\ \A l \in B : l \in E \/ Expired(l, now) \/ OwnerOf(l) = H
  BY <1>1 DEF EventInv, ChangesOne
<1>5. \A c : /\ Entry(c).host = OwnerOf(c) /\ Entry(c).ends = c.expires
             /\ Entry(c).addr = c.addr
  BY DEF Entry
<1>6. \A c : Service!Over(Entry(c).ends) <=> Expired(c, now)
  BY <1>5 DEF Service!Over, Expired
<1>7. \A k, l \in U : k.addr = l.addr => k = l
  <2> SUFFICES ASSUME NEW x \in E, NEW y \in E, x.addr = y.addr PROVE x = y
    BY <1>3, <1>5
  <2>1. PICK a \in db.leases : x = CoreOf(a)
    BY DEF Cores
  <2>2. PICK b \in db.leases : y = CoreOf(b)
    BY DEF Cores
  <2>3. a.addr = b.addr
    BY <2>1, <2>2 DEF CoreOf
  <2>4. a = b
    BY <2>1, <2>2, <2>3 DEF Inv, DbOK, Distinct, OnePerAddr
  <2> QED BY <2>1, <2>2, <2>4
<1>8. \A t \in Trusts(held) : Service!Backed(t, U)
  <2>1. AllOwn(E) /\ BackedBy(E, held) /\ \A g \in held : Sender(g)
    BY <1>1 DEF GrantInv, OwnersOK, DbBacks, HoldersOK
  <2> HIDE DEF E, U
  <2> QED BY <1>3, <2>1, EntryBacks
<1> HIDE DEF B, E
<1>9. \A k \in U \ T : k.host = H
  BY <1>2, <1>3, <1>4, <1>5
<1>10. \A l \in T \ U : Service!Over(l.ends) \/ l.host = H
  BY <1>2, <1>3, <1>4, <1>5, <1>6
<1> HIDE DEF T, U
<1>11. Service!OneHost((U \ T) \cup {l \in T \ U : ~Service!Over(l.ends)})
  BY <1>9, <1>10 DEF Service!OneHost
<1>12. UNCHANGED <<Trusts(held), now, ~faulty>>
  BY <1>1
<1> QED
  BY <1>7, <1>8, <1>11, <1>12 DEF Service!Serve, T, U

(* The reply tells its client of a lease that the file has.                *)
LEMMA FinishTells ==
  ASSUME HostsDistinct, Inv, GrantInv, GrantInv', ~faulty, Finish, Granted(reply)
  PROVE  Service!Tell
<1> DEFINE r == GrantOf(reply)
<1>1. /\ held' = {g \in held : ~Replaces(reply, g)} \cup {r}
      /\ UNCHANGED <<file, now, faulty>> /\ pc = "send" /\ pc' = "idle"
  BY DEF Finish
<1>2. r.addr = reply.yiaddr /\ r.until = reply.until
  BY DEF GrantOf
<1> HIDE DEF r
<1>3. BackedBy(Cores(file), held') /\ AllOwn(Cores(file))
      /\ \A g \in held' : Sender(g)
  BY <1>1 DEF GrantInv, FileBacks, OwnersOK, HoldersOK
<1>4. \A t \in Trusts(held') : Service!Backed(t, Table(Durable))
  <2>1. Durable = file
    BY <1>1 DEF Durable
  <2> QED BY <1>3, <2>1, EntryBacks, TableCores
<1>5. \A g \in held : g.addr = r.addr <=> Replaces(reply, g)
  <2> SUFFICES ASSUME NEW g \in held, g.addr = r.addr PROVE Replaces(reply, g)
    BY <1>2 DEF Replaces
  <2> SUFFICES ASSUME ~Replaces(reply, g) PROVE FALSE
    OBVIOUS
  <2>1. g \in held' /\ r \in held'
    BY <1>1
  <2>2. g = r
    BY <1>1, <2>1 DEF GrantInv, GrantExclusive
  <2> QED BY <1>2, <2>2 DEF Replaces, SameHost, SameClient, GrantOf, r
<1>6. Trusts(held') = {t \in Trusts(held) : t.addr # Trust(r).addr
                                            \/ t.host # Trust(r).host} \cup {Trust(r)}
  <2>1. \A g : Trust(g).addr = g.addr /\ Trust(g).host = HostOf(g)
    BY DEF Trust
  <2>2. \A g \in held : g.addr = r.addr => HostOf(g) = HostOf(r)
    <3> SUFFICES ASSUME NEW g \in held, g.addr = r.addr PROVE HostOf(g) = HostOf(r)
      OBVIOUS
    <3>1. SameHost(g, r)
      BY <1>5 DEF Replaces, SameHost, SameClient, Matches, GrantOf, r
    <3>2. Sender(g) /\ Sender(r)
      BY <1>1, <1>3 DEF GrantInv, HoldersOK
    <3> QED BY <3>1, <3>2, HostsEqual
  <2>3. held' = {g \in held : g.addr # r.addr \/ HostOf(g) # HostOf(r)} \cup {r}
    BY <1>1, <1>5, <2>2
  <2> QED BY <2>1, <2>3 DEF Trusts
<1>7. Trust(r).until = 0 \/ Trust(r).until > now
  <2>1. reply.until \in {0, now + LeaseTime} /\ now \in Nat
    BY DEF GrantInv, ReplyBacked, Inv, TypeOK
  <2> QED BY <1>2, <2>1, TimeAssumption DEF Trust
<1>8. Trust(r) \in Trusts(held')
  BY <1>6
<1>9. UNCHANGED <<Table(Durable), now, ~faulty>>
  BY <1>1 DEF Durable
<1> QED
  BY <1>4, <1>6, <1>7, <1>8, <1>9 DEF Service!Tell

(* A message makes its sender's host give up what it disowns.              *)
LEMMA RecvGivesUp ==
  ASSUME HostsDistinct, GrantInv, NEW m \in Messages, Recv(m)
  PROVE  Service!GiveUp
<1>1. /\ held' = {g \in held : ~Disowns(m, g)} /\ UNCHANGED <<file, now, faulty>>
      /\ pc = "idle" /\ pc' = "update"
  BY DEF Recv
<1>2. Trusts(held') \subseteq Trusts(held)
  BY <1>1 DEF Trusts
<1>3. \A t \in Trusts(held) \ Trusts(held') : t.host = HostOf(m)
  <2> SUFFICES ASSUME NEW g \in held, Disowns(m, g) PROVE Trust(g).host = HostOf(m)
    BY <1>1 DEF Trusts
  <2>1. Sender(g) /\ Sender(m) /\ SameHost(g, m)
    BY DEF GrantInv, HoldersOK, Sender, Disowns
  <2> QED BY <2>1, HostsEqual DEF Trust
<1>4. UNCHANGED <<Table(Durable), now, ~faulty>>
  BY <1>1 DEF Durable
<1> QED
  BY <1>2, <1>3, <1>4 DEF Service!GiveUp, Service!OneHost

(* The clock of the service is the server's.                               *)
LEMMA TickPasses ==
  ASSUME Tick PROVE Service!Pass
<1>1. /\ UNCHANGED <<db, pc, file, faulty>> /\ now' = now + 1
      /\ held' = {g \in held : g.until = 0 \/ g.until > now}
  BY DEF Tick
<1>2. \A g : Trust(g).until = g.until
  BY DEF Trust
<1>3. Trusts(held') = {t \in Trusts(held) : t.until = 0 \/ t.until > now}
  BY <1>1, <1>2 DEF Trusts
<1>4. UNCHANGED <<Table(Durable), ~faulty>>
  BY <1>1 DEF Durable
<1> QED
  BY <1>1, <1>3, <1>4 DEF Service!Pass

(* All other steps are invisible, or the one that damages the file.        *)
LEMMA UnseenSteps ==
  ASSUME Inv, EventInv, ~faulty', Server \/ UNCHANGED vars, ~Truncate,
         ~(Finish /\ Granted(reply))
  PROVE  UNCHANGED Service!serviceVars
<1>1. UNCHANGED <<held, now, faulty>>
  <2>1. CASE Finish
    BY <2>1 DEF Finish
  <2>2. CASE UNCHANGED vars
    BY <2>2 DEF vars, serverVars
  <2>3. CASE Crash
    BY <2>3 DEF Crash, TypeOK, Inv
  <2> QED BY <2>1, <2>2, <2>3
          DEF Server, Restart, Reload, UpdateFromConfigs, ConfigsDone, Ring,
              AlarmEvent, FileClean, TruncateErr, WriteOk, WriteErr
<1>2. UNCHANGED Table(Durable)
  <2>1. CASE WriteOk
    <3>1. Durable = db.leases /\ Durable' = Stored(db.leases)
      BY <2>1 DEF WriteOk, Durable
    <3>2. Cores(Stored(db.leases)) = Cores(db.leases)
      BY StoredCores DEF Inv, TypeOK, Db
    <3> QED BY <3>1, <3>2, TableCores
  <2>2. CASE Crash
    <3>1. pc # "rewrite"
      BY <2>2 DEF Crash
    <3> QED BY <2>2, <3>1 DEF Crash, Durable
  <2>3. CASE Ring \/ UNCHANGED vars
    BY <2>3 DEF Ring, vars, serverVars, Durable
  <2>4. CASE Restart \/ Reload \/ UpdateFromConfigs \/ ConfigsDone \/ AlarmEvent
             \/ FileClean \/ Finish
    <3>1. file' = file /\ pc # "rewrite" /\ pc' # "rewrite"
      BY <2>4 DEF Restart, Reload, UpdateFromConfigs, ConfigsDone, AlarmEvent,
                  FileClean, Finish
    <3> QED BY <3>1 DEF Durable
  <2>5. ~TruncateErr /\ ~WriteErr
    BY DEF TruncateErr, WriteErr
  <2> QED BY <2>1, <2>2, <2>3, <2>4, <2>5 DEF Server
<1> QED
  BY <1>1, <1>2 DEF Service!serviceVars

(* The server implements the lease service: a host is told of a lease only *)
(* when it would survive a crash, an event changes the leases of one host, *)
(* no lease that a host relies on is lost, and crashes and restarts are    *)
(* not seen, until a rewrite of the file fails or a crash falls into one.  *)
THEOREM ImplementsService == ASSUME HostsDistinct PROVE Spec => KeepsService
<1>1. Init => Service!ServiceInit
  BY DEF Init, Service!ServiceInit, Table, Trusts, Durable
<1>2. ASSUME Inv, GrantInv, GrantInv', EventInv, [Next]_vars
      PROVE  Service!ServiceNext \/ UNCHANGED Service!serviceVars
  <2>1. CASE faulty'
    BY <2>1 DEF Service!ServiceNext, Service!Damage
  <2>2. CASE ~faulty'
    <3>1. ~faulty
      BY <1>2, <2>2 DEF Next, Server, Restart, Reload, UpdateFromConfigs,
         ConfigsDone, Ring, AlarmEvent, FileClean, Truncate, TruncateErr, WriteOk,
         WriteErr, Finish, Crash, Tick, Recv, vars, serverVars
    <3>2. CASE Truncate
      BY <1>2, <3>1, <3>2, TruncateServes DEF Service!ServiceNext
    <3>3. CASE Finish /\ Granted(reply)
      BY <1>2, <3>1, <3>3, FinishTells DEF Service!ServiceNext
    <3>4. CASE Tick
      BY <3>4, TickPasses DEF Service!ServiceNext
    <3>5. CASE \E m \in Messages : Recv(m)
      BY <1>2, <3>5, RecvGivesUp DEF Service!ServiceNext
    <3>6. CASE /\ Server \/ UNCHANGED vars
               /\ ~Truncate /\ ~(Finish /\ Granted(reply))
      BY <1>2, <2>2, <3>6, UnseenSteps
    <3> QED BY <1>2, <3>2, <3>3, <3>4, <3>5, <3>6 DEF Next
  <2> QED BY <2>1, <2>2
<1>3. Inv /\ GrantInv /\ GrantInv' /\ EventInv /\ [Next]_vars
        => [Service!ServiceNext]_(Service!serviceVars)
  BY <1>2
<1> QED
  BY <1>1, <1>3, InvAlways, GrantsInvariant, EventsInvariant, PTL
     DEF Spec, KeepsService, Service!ServiceSpec

(* A host is told of what the table says of an address; another host with  *)
(* a grant of that address would stand on the same lease.                  *)
LEMMA ToldOnce ==
  ASSUME Service!TableSound, Service!Tell PROVE Service!TableSound'
<1> SUFFICES ASSUME ~faulty PROVE Service!TableSound'
  BY DEF Service!Tell, Service!TableSound
<1> DEFINE T == Table(Durable)
           G == Trusts(held)
<1>1. PICK g \in Trusts(held)' :
         /\ Service!Backed(g, T)
         /\ Trusts(held)' = {h \in G : h.addr # g.addr \/ h.host # g.host} \cup {g}
  BY DEF Service!Tell
<1>2. T' = T
  BY DEF Service!Tell
<1>3. /\ \A k, l \in T : k.addr = l.addr => k = l
      /\ \A h \in G : Service!Backed(h, T)
      /\ \A h, k \in G : h.addr = k.addr => h = k
  BY DEF Service!TableSound
<1> HIDE DEF T, G
<1>4. \A h \in G : h.addr = g.addr => h.host = g.host
  BY <1>1, <1>3 DEF Service!Backed
<1>5. \A h \in Trusts(held)' : Service!Backed(h, T)
  BY <1>1, <1>3
<1>6. \A h, k \in Trusts(held)' : h.addr = k.addr => h = k
  BY <1>1, <1>3, <1>4
<1> QED
  BY <1>2, <1>3, <1>5, <1>6 DEF Service!TableSound, Service!Backed, T

(* The service's own promise: until the table is damaged, no two grants    *)
(* name one address, because each stands on a lease in the table.  So the  *)
(* exclusiveness of grants is a property of the service, whatever server   *)
(* implements it.                                                          *)
THEOREM ServiceSound == Service!ServiceSpec => []Service!TableSound
<1>1. Service!ServiceInit => Service!TableSound
  BY DEF Service!ServiceInit, Service!TableSound
<1>2. ASSUME Service!TableSound, [Service!ServiceNext]_(Service!serviceVars)
      PROVE  Service!TableSound'
  <2>1. CASE Service!Serve
    BY <1>2, <2>1 DEF Service!Serve, Service!TableSound
  <2>2. CASE Service!Tell
    BY <1>2, <2>2, ToldOnce
  <2>3. CASE Service!GiveUp
    BY <1>2, <2>3 DEF Service!GiveUp, Service!TableSound
  <2>4. CASE Service!Pass
    BY <1>2, <2>4 DEF Service!Pass, Service!TableSound
  <2>5. CASE Service!Damage
    BY <2>5 DEF Service!Damage, Service!TableSound
  <2>6. CASE UNCHANGED Service!serviceVars
    BY <1>2, <2>6 DEF Service!serviceVars, Service!TableSound
  <2> QED BY <1>2, <2>1, <2>2, <2>3, <2>4, <2>5, <2>6 DEF Service!ServiceNext
<1> QED
  BY <1>1, <1>2, PTL DEF Service!ServiceSpec

-----------------------------------------------------------------------------
(* Retries.  The alarm of lease_update_file counts from the first expiry,  *)
(* and alarm(0) cancels: a lease that has expired when the file is written *)
(* would take the retry away.  Every event but SIGHUP prunes first, so     *)
(* until one is received no lease has expired when the alarm is set.       *)
NoneExpired ==
    pc \in {"configs", "update", "rewrite"} =>
        \A l \in db.leases : ~Expired(l, now)

RetrySoon ==
    pc \in {"send", "idle"} /\ db.file_dirty =>
        rung \/ (alarm # 0 /\ alarm <= now + LeaseRetry)

RetryInv == reloads = 0 => NoneExpired /\ RetrySoon

(* Without expired leases the next expiry, plus Grace, is still to come.   *)
LEMMA NextExpiryAhead ==
  ASSUME TypeOK, \A l \in db.leases : ~Expired(l, now)
  PROVE  NextExpiry(db, Grace) = 0 \/ NextExpiry(db, Grace) > now
<1> DEFINE times == {l.expires + Grace : l \in {x \in db.leases : x.expires # 0}}
           least == CHOOSE t \in times : \A u \in times : t <= u
<1>1. times \in SUBSET Nat /\ \A t \in times : t > now
  <2> SUFFICES ASSUME NEW l \in db.leases, l.expires # 0
               PROVE  l.expires + Grace \in Nat /\ l.expires + Grace > now
    OBVIOUS
  <2>1. l.expires \in Nat /\ now \in Nat /\ Grace \in Nat \ {0}
    BY TimeAssumption DEF TypeOK, Db, Lease
  <2> QED BY <2>1 DEF Expired
<1>2. NextExpiry(db, Grace) = IF times = {} THEN 0 ELSE least
  BY DEF NextExpiry
<1> HIDE DEF times
<1>3. times # {} => \E t \in times : \A u \in times : t <= u
  BY <1>1, MinNat
<1>4. times # {} => least \in times
  BY <1>3
<1> HIDE DEF least
<1> QED
  BY <1>1, <1>2, <1>4

(* A failed rewrite then sets the alarm, LEASE_RETRY away or nearer.       *)
LEMMA RetryAlarm ==
  ASSUME TypeOK, \A l \in db.leases : ~Expired(l, now)
  PROVE  NextAlarm(TRUE) # 0 /\ NextAlarm(TRUE) <= now + LeaseRetry
<1> DEFINE exp == NextExpiry(db, Grace)
<1>1. exp \in Nat
  BY NextExpiryType, TimeAssumption DEF TypeOK
<1>2. exp = 0 \/ exp > now
  BY NextExpiryAhead
<1> HIDE DEF exp
<1>3. now \in Nat /\ LeaseRetry \in Nat \ {0}
  BY TimeAssumption DEF TypeOK
<1> DEFINE n == NextAlarm(TRUE)
<1>4. n = IF exp = 0 \/ exp > now + LeaseRetry THEN now + LeaseRetry ELSE exp
  BY <1>1, <1>2, <1>3 DEF NextAlarm, exp
<1> HIDE DEF n
<1>5. n # 0 /\ n <= now + LeaseRetry
  BY <1>1, <1>2, <1>3, <1>4
<1> QED
  BY <1>5 DEF n

(* A step that leaves the expiry times, the clock and the file's flag as   *)
(* they are.                                                               *)
LEMMA RetryFrame ==
  ASSUME RetryInv, UNCHANGED <<now, reloads>>,
         Cores(db'.leases) \subseteq Cores(db.leases),
         pc' \in {"configs", "update", "rewrite"} =>
            pc \in {"configs", "update", "rewrite"},
         (pc' \in {"send", "idle"} /\ db'.file_dirty) =>
            /\ pc \in {"send", "idle"} /\ db.file_dirty
            /\ UNCHANGED <<rung, alarm>> \/ rung'
  PROVE  RetryInv'
<1> SUFFICES ASSUME reloads = 0 PROVE NoneExpired' /\ RetrySoon'
  BY DEF RetryInv
<1>1. NoneExpired'
  <2> SUFFICES ASSUME pc' \in {"configs", "update", "rewrite"},
                      NEW k \in db'.leases
               PROVE  ~Expired(k, now)
    BY DEF NoneExpired, Expired
  <2>1. CoreOf(k) \in Cores(db.leases)
    BY DEF Cores
  <2>2. PICK l \in db.leases : CoreOf(k) = CoreOf(l)
    BY <2>1 DEF Cores
  <2>3. k.expires = l.expires
    BY <2>2 DEF CoreOf
  <2>4. ~Expired(l, now)
    BY <2>2 DEF RetryInv, NoneExpired
  <2> QED BY <2>3, <2>4 DEF Expired
<1>2. RetrySoon'
  BY DEF RetryInv, RetrySoon
<1> QED
  BY <1>1, <1>2

(* lease_init reads no expired lease.                                      *)
LEMMA RetryRestart == ASSUME Inv, Restart PROVE RetryInv'
<1> DEFINE d == [leases |-> file, leases_left |-> DhcpMax - Cardinality(file),
                 file_dirty |-> FALSE, dns_dirty |-> FALSE]
           e == lease_prune(d, {}, now)
<1>1. \A l \in e.leases : ~Expired(l, now)
  BY DEF lease_prune
<1>2. db' = [e EXCEPT !.dns_dirty = TRUE]
  BY DEF Restart, lease_init
<1>3. [e EXCEPT !.dns_dirty = TRUE].leases = e.leases
  BY DEF lease_prune
<1> HIDE DEF e
<1>4. pc' = "configs" /\ now' = now
  BY DEF Restart
<1> QED
  BY <1>1, <1>2, <1>3, <1>4 DEF RetryInv, NoneExpired, RetrySoon, Expired

(* The lease_prune that opens an event drops what has expired.             *)
LEMMA RetryPruned ==
  ASSUME Pruned(db'), now' = now, pc' = "update"
  PROVE  RetryInv'
BY DEF Pruned, RetryInv, NoneExpired, RetrySoon, Expired

(* What dhcp_reply does to the database of the server.                     *)
LEMMA RecvMoves ==
  ASSUME Inv, NEW m \in Messages, Recv(m)
  PROVE  Pruned(db') /\ Moves(db, db')
<1> DEFINE d == lease_prune(db, {}, now)
<1>1. Pruned(d) /\ Honest(db, d)
  BY PruneFresh DEF Inv
<1>2. d.leases \subseteq db.leases
  BY DEF lease_prune
<1> HIDE DEF d
<1>3. PICK o \in dhcp_reply(d, m) : db' = o.db
  BY DEF Recv, d
<1>4. OutcomeOK(d, o)
  <2>1. Env
    BY DEF Inv, TypeOK, Env
  <2> QED BY <1>1, <2>1, DhcpReplyOK
<1>5. Pruned(db') /\ Moves(d, db')
  BY <1>3, <1>4 DEF OutcomeOK
<1> QED
  BY <1>1, <1>2, <1>5, MovesAfter

(* A rewrite that fails sets the alarm.                                    *)
LEMMA RetryFail ==
  ASSUME Inv, RetryInv, pc \in {"update", "rewrite"}, alarm' = NextAlarm(TRUE),
         UNCHANGED <<now, reloads>>, pc' = "send"
  PROVE  RetryInv'
<1> SUFFICES ASSUME reloads = 0 PROVE RetrySoon'
  BY DEF RetryInv, NoneExpired
<1>1. TypeOK /\ \A l \in db.leases : ~Expired(l, now)
  BY DEF Inv, RetryInv, NoneExpired
<1>2. alarm' # 0 /\ alarm' <= now + LeaseRetry
  BY <1>1, RetryAlarm
<1> QED
  BY <1>2 DEF RetrySoon

(* Time passes: the alarm comes nearer, and has not gone by.               *)
LEMMA RetryTick == ASSUME Inv, RetryInv, Tick PROVE RetryInv'
<1>1. /\ now' = now + 1 /\ pc \in {"idle", "down"}
      /\ UNCHANGED <<db, pc, alarm, rung, reloads>>
  BY DEF Tick, counters
<1>2. now \in Nat /\ alarm \in Nat /\ LeaseRetry \in Nat
  BY TimeAssumption DEF Inv, TypeOK
<1> QED
  BY <1>1, <1>2 DEF RetryInv, NoneExpired, RetrySoon

(* Every step keeps the retry.                                             *)
LEMMA RetryNext == Inv /\ RetryInv /\ [Next]_vars => RetryInv'
<1> SUFFICES ASSUME Inv, RetryInv, [Next]_vars PROVE RetryInv'
  OBVIOUS
<1>1. CASE Restart           BY <1>1, RetryRestart
<1>2. CASE Reload
  <2>1. reloads' = reloads + 1 /\ reloads \in Nat
    BY <1>2 DEF Reload, Inv, TypeOK
  <2> QED BY <2>1 DEF RetryInv
<1>3. CASE UpdateFromConfigs
  <2>1. Cores(db'.leases) = Cores(db.leases)
    BY <1>3, UpdateCores
  <2>2. pc = "configs" /\ UNCHANGED <<pc, now, reloads>>
    BY <1>3 DEF UpdateFromConfigs, counters
  <2> QED BY <2>1, <2>2, RetryFrame
<1>4. CASE ConfigsDone
  BY <1>4, RetryFrame DEF ConfigsDone, counters
<1>5. CASE Ring
  BY <1>5, RetryFrame DEF Ring, counters
<1>6. CASE AlarmEvent
  <2>1. Pruned(db')
    BY <1>6, PruneFresh DEF AlarmEvent, Inv
  <2> QED BY <1>6, <2>1, RetryPruned DEF AlarmEvent
<1>7. CASE FileClean
  BY <1>7, RetryFrame DEF FileClean, counters
<1>8. CASE Truncate
  BY <1>8, RetryFrame DEF Truncate, counters
<1>9. CASE TruncateErr
  BY <1>9, RetryFail DEF TruncateErr
<1>10. CASE WriteOk
  <2>1. db'.leases = db.leases /\ ~db'.file_dirty
    BY <1>10, CleanFlag DEF WriteOk, Inv
  <2>2. pc' = "send" /\ UNCHANGED <<now, reloads>>
    BY <1>10 DEF WriteOk, counters
  <2> QED BY <2>1, <2>2, RetryFrame
<1>11. CASE WriteErr
  BY <1>11, RetryFail DEF WriteErr
<1>12. CASE Finish
  <2>1. db'.leases = db.leases /\ db'.file_dirty = db.file_dirty
    BY <1>12, CleanFlag DEF Finish, Inv
  <2>2. pc = "send" /\ pc' = "idle" /\ UNCHANGED <<now, reloads, alarm, rung>>
    BY <1>12 DEF Finish, counters
  <2> QED BY <2>1, <2>2, RetryFrame
<1>13. CASE Crash
  <2>1. pc' = "down"
    BY <1>13 DEF Crash
  <2> QED BY <2>1 DEF RetryInv, NoneExpired, RetrySoon
<1>14. CASE Tick             BY <1>14, RetryTick
<1>15. ASSUME NEW m \in Messages, Recv(m) PROVE RetryInv'
  <2>1. Pruned(db')
    BY <1>15, RecvMoves
  <2>2. now' = now /\ pc' = "update"
    BY <1>15 DEF Recv
  <2> QED BY <2>1, <2>2, RetryPruned
<1>16. CASE UNCHANGED vars
  BY <1>16, RetryFrame DEF vars, serverVars
<1> QED
  BY <1>1, <1>2, <1>3, <1>4, <1>5, <1>6, <1>7, <1>8, <1>9, <1>10, <1>11,
     <1>12, <1>13, <1>14, <1>15, <1>16 DEF Next, Server

(* lease_update_file: "failed to write %s: %s (retry in %us)".  Until the  *)
(* first SIGHUP a lease file that is out of date has an alarm, at most     *)
(* LEASE_RETRY away, whatever expires or fails to be written meanwhile.    *)
(* (After one it may have none: the run MCDhcpServerReload shows how.)     *)
THEOREM RetriesArmed == Spec => [](reloads = 0 => RetryArmed)
<1>1. Init => RetryInv
  BY DEF Init, RetryInv, NoneExpired, RetrySoon
<1>2. RetryInv => (reloads = 0 => RetryArmed)
  BY DEF RetryInv, RetrySoon, RetryArmed
<1> QED
  BY <1>1, <1>2, RetryNext, InvAlways, PTL DEF Spec

-----------------------------------------------------------------------------
(* Names.  A server that is down has no leases in memory, so a restart     *)
(* takes no name from anyone.                                              *)
DownEmpty == pc = "down" => db.leases = {}

(* Only Crash brings the server down, and it leaves nothing in memory.     *)
LEMMA DownNext == DownEmpty /\ [Next]_vars => DownEmpty'
<1> SUFFICES ASSUME DownEmpty, [Next]_vars PROVE DownEmpty'
  OBVIOUS
<1>1. CASE Crash
  BY <1>1 DEF Crash, EmptyDb, DownEmpty
<1>2. CASE Tick
  BY <1>2 DEF Tick, DownEmpty
<1>3. CASE Restart \/ Reload \/ ConfigsDone \/ FileClean \/ Truncate \/ TruncateErr
           \/ WriteOk \/ WriteErr \/ Finish \/ AlarmEvent \/ UpdateFromConfigs
           \/ \E m \in Messages : Recv(m)
  <2>1. pc' # "down"
    BY <1>3 DEF Restart, Reload, ConfigsDone, FileClean, Truncate, TruncateErr,
       WriteOk, WriteErr, Finish, AlarmEvent, UpdateFromConfigs, Recv
  <2> QED BY <2>1 DEF DownEmpty
<1>4. CASE Ring
  BY <1>4 DEF Ring, DownEmpty
<1>5. CASE UNCHANGED vars
  BY <1>5 DEF vars, serverVars, DownEmpty
<1> QED
  BY <1>1, <1>2, <1>3, <1>4, <1>5 DEF Next, Server

(* lease_update_from_configs names one lease, and does so on authority.    *)
LEMMA UpdateRenames ==
  ASSUME Inv, UpdateFromConfigs
  PROVE  Renames(NamesOf(db.leases), NamesOf(db'.leases))
<1> PICK l \in {x \in db.leases : x.addr \in todo} :
      /\ todo' = todo \ {l.addr}
      /\ db' = IF ConfiguredName(l) = NoName THEN db
               ELSE lease_set_hostname([lease |-> l, db |-> db],
                                       ConfiguredName(l), TRUE).db
  BY DEF UpdateFromConfigs
<1>1. CASE ConfiguredName(l) = NoName
  <2>1. db' = db /\ db.leases \in SUBSET Lease
    BY <1>1 DEF Inv, TypeOK, Db
  <2> QED BY <2>1, ShrinkRenames
<1>2. CASE ConfiguredName(l) # NoName
  <2> DEFINE p == [lease |-> l, db |-> db]
             cfg == find_config(l.hw, l.clid)
  <2>1. PairOK(p) /\ p.db = db /\ p.lease = l
    BY DEF PairOK, Inv
  <2>2. ConfiguredName(l) \in Names
    <3>1. cfg \in Configs \cup {NoConfig}
      BY FindConfigType
    <3>2. HasName(cfg) => cfg.name \in Names
      BY <3>1, HasNameType
    <3>3. HostsName[l.addr] \in Names \cup {NoName}
      BY ConfigAssumption DEF Inv, TypeOK, Db, Lease
    <3> QED BY <1>2, <3>2, <3>3 DEF ConfiguredName
  <2>3. db' = lease_set_hostname(p, ConfiguredName(l), TRUE).db
    BY <1>2
  <2> HIDE DEF p
  <2>4. RenamesAt(NamesOf(db.leases), l.addr, NamesOf(db'.leases))
    BY <2>1, <2>2, <2>3, SetHostnameRenames
  <2>5. l.addr \in AnyAddr
    BY DEF Inv, TypeOK, Db, Lease, AnyAddr
  <2> QED BY <2>4, <2>5 DEF Renames
<1> QED
  BY <1>1, <1>2

(* Every step drops leases, gives names as lease_set_hostname does, or     *)
(* starts from nothing.                                                    *)
LEMMA NextRenames ==
  ASSUME Inv, Inv', DownEmpty, [Next]_vars
  PROVE  db.leases = {} \/ Renames(NamesOf(db.leases), NamesOf(db'.leases))
<1>1. db.leases \in SUBSET Lease
  BY DEF Inv, TypeOK, Db
<1>2. CASE db'.leases \subseteq db.leases
  BY <1>1, <1>2, ShrinkRenames
<1>3. CASE Restart           BY <1>3 DEF Restart, DownEmpty
<1>4. CASE UpdateFromConfigs BY <1>4, UpdateRenames
<1>5. ASSUME NEW m \in Messages, Recv(m)
      PROVE  Renames(NamesOf(db.leases), NamesOf(db'.leases))
  BY <1>5, RecvMoves DEF Moves
<1>6. CASE AlarmEvent
  <2>1. db'.leases \subseteq db.leases
    BY <1>6 DEF AlarmEvent, lease_prune
  <2> QED BY <1>2, <2>1
<1>7. CASE WriteOk \/ Finish
  <2>1. db'.leases = db.leases
    BY <1>7, CleanFlag DEF WriteOk, Finish, Inv
  <2> QED BY <1>2, <2>1
<1>8. CASE Crash
  BY <1>2, <1>8 DEF Crash, EmptyDb
<1>9. CASE Reload \/ ConfigsDone \/ Ring \/ FileClean \/ Truncate \/ TruncateErr
           \/ WriteErr \/ Tick \/ UNCHANGED vars
  <2>1. db' = db
    BY <1>9 DEF Reload, ConfigsDone, Ring, FileClean, Truncate, TruncateErr,
       WriteErr, Tick, vars, serverVars
  <2> QED BY <1>2, <2>1
<1> QED
  BY <1>3, <1>4, <1>5, <1>6, <1>7, <1>8, <1>9 DEF Next, Server

(* lease_set_hostname with its test of auth_name: over every event of the  *)
(* server, and not only in one call, a name that a lease has on authority  *)
(* goes to no other lease on a client's word.                              *)
THEOREM AuthNamesKept == Spec => AuthNameKept
<1>1. Init => DownEmpty
  BY DEF Init, EmptyDb, DownEmpty
<1>2. ASSUME Inv, Inv', DownEmpty, [Next]_vars
      PROVE  [\A l \in db.leases, k \in db'.leases :
                (/\ l.auth /\ l.name # NoName
                 /\ k.name = l.name /\ k.addr # l.addr
                 /\ \E j \in db'.leases : j.addr = l.addr)
                => k.auth]_vars
  <2> SUFFICES ASSUME NEW l \in db.leases, NEW k \in db'.leases,
                      l.auth, l.name # NoName, k.name = l.name,
                      k.addr # l.addr, NEW j \in db'.leases, j.addr = l.addr
               PROVE  k.auth
    OBVIOUS
  <2>1. Renames(NamesOf(db.leases), NamesOf(db'.leases))
    BY <1>2, NextRenames
  <2>2. db.leases \in SUBSET Lease /\ Distinct(db.leases)
    BY <1>2 DEF Inv, DbOK, Db
  <2> QED BY <2>1, <2>2, RenamesKeep
<1> QED
  BY <1>1, <1>2, DownNext, InvAlways, PTL DEF Spec, AuthNameKept
=============================================================================
