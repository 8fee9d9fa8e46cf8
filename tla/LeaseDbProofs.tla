---------------------------- MODULE LeaseDbProofs ----------------------------
(***************************************************************************)
(* What the functions of lease.c preserve.  DbOK is the invariant of the   *)
(* database: its type, one lease per address, per client identifier and    *)
(* per name, and an exact quota.  PairOK says it of a database and the     *)
(* lease in it that is being worked on.                                    *)
(***************************************************************************)
EXTENDS LeaseDb, FiniteSetTheorems, FunctionTheorems, TLAPS

OnePerAddr(S) == \A l1, l2 \in S : l1.addr = l2.addr => l1 = l2

OnePerClid(S) ==
    \A l1, l2 \in S : l1.clid = l2.clid /\ l1.clid # NoClid => l1 = l2

OnePerName(S) ==
    \A l1, l2 \in S : l1.name = l2.name /\ l1.name # NoName => l1 = l2

Distinct(S) == OnePerAddr(S) /\ OnePerClid(S) /\ OnePerName(S)

DbOK(d) ==
    /\ d \in Db
    /\ IsFiniteSet(d.leases)
    /\ Distinct(d.leases)
    /\ d.leases_left = DhcpMax - Cardinality(d.leases)
    /\ d.leases_left >= 0

PairOK(p) == DbOK(p.db) /\ p.lease \in p.db.leases

(* The dirty flags are honest about the way from database d to database e: *)
(* they stay set, and what the file or the name cache would hold has not   *)
(* changed while they are not set.                                         *)
Honest(d, e) ==
    /\ d.file_dirty => e.file_dirty
    /\ d.dns_dirty => e.dns_dirty
    /\ e.file_dirty \/ Stored(e.leases) = Stored(d.leases)
    /\ e.dns_dirty \/ DnsView(e) = DnsView(d)

-----------------------------------------------------------------------------
(* The empty database of a server that has just started.                   *)
LEMMA EmptyDbOK == DbOK(EmptyDb)
  BY DhcpMaxAssumption, FS_EmptySet
     DEF DbOK, EmptyDb, Db, Distinct, OnePerAddr, OnePerClid, OnePerName

(* lease_prune only removes leases, and gives their number back.           *)
LEMMA PruneOK ==
  ASSUME NEW d, DbOK(d), NEW target, NEW now
  PROVE  /\ DbOK(lease_prune(d, target, now))
         /\ lease_prune(d, target, now).leases \subseteq d.leases
<1> DEFINE gone == {l \in d.leases : Expired(l, now) \/ l \in target}
           e == lease_prune(d, target, now)
<1>1. /\ e = [leases |-> d.leases \ gone,
              leases_left |-> d.leases_left + Cardinality(gone),
              file_dirty |-> d.file_dirty \/ gone # {},
              dns_dirty |-> d.dns_dirty \/ \E l \in gone : l.name # NoName]
  BY DEF lease_prune
<1> HIDE DEF e
<1>2. gone \subseteq d.leases
  OBVIOUS
<1>3. d.leases \cap gone = gone
  BY <1>2
<1> HIDE DEF gone
<1>4. /\ IsFiniteSet(d.leases \ gone)
      /\ Cardinality(d.leases \ gone) = Cardinality(d.leases) - Cardinality(gone)
  BY <1>3, FS_Difference DEF DbOK
<1>5. /\ IsFiniteSet(gone) /\ Cardinality(gone) \in Nat
      /\ Cardinality(d.leases) \in Nat
  BY <1>2, FS_Subset, FS_CardinalityType DEF DbOK
<1>6. e \in Db
  BY <1>1, <1>5 DEF DbOK, Db
<1>7. Distinct(e.leases)
  BY <1>1 DEF DbOK, Distinct, OnePerAddr, OnePerClid, OnePerName
<1>8. e.leases_left = DhcpMax - Cardinality(e.leases) /\ e.leases_left >= 0
  BY <1>1, <1>4, <1>5, DhcpMaxAssumption DEF DbOK
<1> QED
  BY <1>1, <1>4, <1>6, <1>7, <1>8 DEF DbOK, e

(* The lease new can take the place of old: no other lease of d has its    *)
(* client identifier or its name.                                          *)
Fits(d, old, new) ==
    \A l \in d.leases \ {old} :
        /\ new.clid # NoClid => l.clid # new.clid
        /\ new.name # NoName => l.name # new.name

(* A lease that keeps its identifier and its name, or loses them, fits.    *)
LEMMA SameFits ==
  ASSUME NEW d, DbOK(d), NEW old \in d.leases, NEW new,
         new.clid = old.clid \/ new.clid = NoClid,
         new.name = old.name \/ new.name = NoName
  PROVE  Fits(d, old, new)
BY DEF DbOK, Distinct, OnePerClid, OnePerName, Fits

(* Replacing a lease by one with the same address that fits keeps the      *)
(* database in order; the dirty flags may change on the way.               *)
LEMMA ReplaceOK ==
  ASSUME NEW d, DbOK(d), NEW old \in d.leases, NEW new \in Lease,
         new.addr = old.addr, Fits(d, old, new),
         NEW fd \in BOOLEAN, NEW dd \in BOOLEAN
  PROVE  LET e == [leases |-> (d.leases \ {old}) \cup {new},
                   leases_left |-> d.leases_left,
                   file_dirty |-> fd, dns_dirty |-> dd]
         IN  DbOK(e) /\ new \in e.leases
<1> DEFINE rest == d.leases \ {old}
           e == [leases |-> rest \cup {new}, leases_left |-> d.leases_left,
                 file_dirty |-> fd, dns_dirty |-> dd]
<1>1. new \notin rest
  BY DEF DbOK, Distinct, OnePerAddr
<1>2. /\ IsFiniteSet(rest) /\ Cardinality(rest) = Cardinality(d.leases) - 1
      /\ Cardinality(d.leases) \in Nat
  BY FS_RemoveElement, FS_CardinalityType DEF DbOK
<1>3. /\ IsFiniteSet(rest \cup {new})
      /\ Cardinality(rest \cup {new}) = Cardinality(d.leases)
  <2> HIDE DEF rest
  <2>1. /\ IsFiniteSet(rest \cup {new})
        /\ Cardinality(rest \cup {new}) = Cardinality(rest) + 1
    BY <1>1, <1>2, FS_AddElement
  <2> QED BY <1>2, <2>1
<1>4. Distinct(rest \cup {new})
  <2>1. OnePerAddr(rest \cup {new})
    BY DEF DbOK, Distinct, OnePerAddr
  <2>2. OnePerClid(rest \cup {new})
    BY DEF DbOK, Distinct, OnePerClid, Fits
  <2>3. OnePerName(rest \cup {new})
    BY DEF DbOK, Distinct, OnePerName, Fits
  <2> QED BY <2>1, <2>2, <2>3 DEF Distinct
<1>5. e \in Db
  BY DEF DbOK, Db
<1> QED
  BY <1>3, <1>4, <1>5 DEF DbOK

(* lease_allocate, for an address no lease has and while the quota lasts.  *)
LEMMA AllocateOK ==
  ASSUME NEW d, DbOK(d), NEW a \in Addr, NEW hw \in HW,
         lease_find_by_addr(d, a) = {}, d.leases_left # 0
  PROVE  /\ PairOK(lease_allocate(d, a, hw))
         /\ LET p == lease_allocate(d, a, hw) IN p.db.leases = d.leases \cup {p.lease}
<1> DEFINE l == [addr |-> a, hw |-> hw, clid |-> NoClid,
                 expires |-> 1, name |-> NoName, auth |-> FALSE]
           e == [leases |-> d.leases \cup {l},
                 leases_left |-> d.leases_left - 1,
                 file_dirty |-> TRUE, dns_dirty |-> d.dns_dirty]
<1>1. lease_allocate(d, a, hw) = [lease |-> l, db |-> e]
  BY DEF lease_allocate
<1>2. l \in Lease /\ l.addr = a /\ l.clid = NoClid /\ l.name = NoName
  BY DEF Lease
<1>3. \A x \in d.leases : x.addr # a
  BY DEF lease_find_by_addr
<1> HIDE DEF l
<1>4. /\ IsFiniteSet(d.leases \cup {l})
      /\ Cardinality(d.leases \cup {l}) = Cardinality(d.leases) + 1
      /\ Cardinality(d.leases) \in Nat
  BY <1>2, <1>3, FS_AddElement, FS_CardinalityType DEF DbOK
<1>5. Distinct(d.leases \cup {l})
  BY <1>2, <1>3 DEF DbOK, Distinct, OnePerAddr, OnePerClid, OnePerName
<1>6. e \in Db
  BY <1>2 DEF DbOK, Db
<1>7. e.leases_left = DhcpMax - Cardinality(e.leases) /\ e.leases_left >= 0
  BY <1>4, DhcpMaxAssumption DEF DbOK, Db
<1>8. DbOK(e) /\ l \in e.leases /\ e.leases = d.leases \cup {l}
  BY <1>4, <1>5, <1>6, <1>7 DEF DbOK
<1> HIDE DEF e
<1> QED
  BY <1>1, <1>2, <1>8 DEF PairOK

-----------------------------------------------------------------------------
(* The flags stay honest over several changes.                             *)
LEMMA HonestTrans ==
  ASSUME NEW d, NEW e, NEW f, Honest(d, e), Honest(e, f)
  PROVE  Honest(d, f)
BY DEF Honest

(* lease_prune marks the file, and the names when one is lost.             *)
LEMMA PruneHonest ==
  ASSUME NEW d \in Db, NEW target, NEW now
  PROVE  Honest(d, lease_prune(d, target, now))
<1> DEFINE gone == {l \in d.leases : Expired(l, now) \/ l \in target}
           e == [leases |-> d.leases \ gone,
                 leases_left |-> d.leases_left + Cardinality(gone),
                 file_dirty |-> d.file_dirty \/ gone # {},
                 dns_dirty |-> d.dns_dirty \/ \E l \in gone : l.name # NoName]
<1>1. lease_prune(d, target, now) = e
  BY DEF lease_prune
<1>2. gone \subseteq d.leases
  OBVIOUS
<1> HIDE DEF gone
<1>3. e.file_dirty \/ Stored(e.leases) = Stored(d.leases)
  BY DEF Db
<1>4. e.dns_dirty \/ DnsView(e) = DnsView(d)
  BY <1>2 DEF Db, DnsView
<1>5. (d.file_dirty => e.file_dirty) /\ (d.dns_dirty => e.dns_dirty)
  BY DEF Db
<1> QED
  BY <1>1, <1>3, <1>4, <1>5 DEF Honest

(* lease_allocate marks the file; a new lease has no name yet.             *)
LEMMA AllocateHonest ==
  ASSUME NEW d \in Db, NEW a, NEW hw
  PROVE  Honest(d, lease_allocate(d, a, hw).db)
<1> DEFINE l == [addr |-> a, hw |-> hw, clid |-> NoClid,
                 expires |-> 1, name |-> NoName, auth |-> FALSE]
           e == [leases |-> d.leases \cup {l},
                 leases_left |-> d.leases_left - 1,
                 file_dirty |-> TRUE, dns_dirty |-> d.dns_dirty]
<1>1. lease_allocate(d, a, hw).db = e
  BY DEF lease_allocate
<1>2. l.name = NoName
  OBVIOUS
<1>3. DnsView(e) = DnsView(d)
  <2> HIDE DEF l
  <2> QED BY <1>2 DEF DnsView
<1> QED
  BY <1>1, <1>3 DEF Honest, Db

(* What lease_set_hwaddr, lease_set_expires and lease_set_hostname do to   *)
(* the pair they are given: the lease keeps its address.                   *)
Kept(p, q) == PairOK(q) /\ q.lease.addr = p.lease.addr /\ Honest(p.db, q.db)

(* Several such calls in a row.                                            *)
LEMMA KeptTrans ==
  ASSUME NEW p, NEW q, NEW r, Kept(p, q), Kept(q, r)
  PROVE  Kept(p, r)
BY HonestTrans DEF Kept

(* One lease replaced: what the dirty flags have to say about it.          *)
LEMMA PutKept ==
  ASSUME NEW p, PairOK(p), NEW new \in Lease, new.addr = p.lease.addr,
         Fits(p.db, p.lease, new),
         NEW fd \in BOOLEAN, NEW dd \in BOOLEAN,
         fd \/ [new EXCEPT !.auth = FALSE] = [p.lease EXCEPT !.auth = FALSE],
         dd \/ new.name = p.lease.name
  PROVE  Kept(p, [lease |-> new, db |-> Put(p.db, p.lease, new, fd, dd)])
<1> DEFINE d == p.db
           old == p.lease
           e == [leases |-> (d.leases \ {old}) \cup {new},
                 leases_left |-> d.leases_left,
                 file_dirty |-> d.file_dirty \/ fd,
                 dns_dirty |-> d.dns_dirty \/ dd]
<1>1. Put(p.db, p.lease, new, fd, dd) = e
  BY DEF Put
<1>2. old \in d.leases /\ DbOK(d)
  BY DEF PairOK
<1>3. d.file_dirty \in BOOLEAN /\ d.dns_dirty \in BOOLEAN
  BY <1>2 DEF DbOK, Db
<1>4. (d.file_dirty \/ fd) \in BOOLEAN /\ (d.dns_dirty \/ dd) \in BOOLEAN
  OBVIOUS
<1>5. DbOK(e) /\ new \in e.leases
  <2>1. Fits(d, old, new) /\ new.addr = old.addr
    OBVIOUS
  <2> HIDE DEF d, old
  <2> QED BY <1>2, <1>4, <2>1, ReplaceOK
<1> HIDE DEF d, old
<1>6. e.file_dirty \/ Stored(e.leases) = Stored(d.leases)
  BY <1>2 DEF Stored, old
<1>7. e.dns_dirty \/ DnsView(e) = DnsView(d)
  <2> SUFFICES ASSUME ~dd PROVE DnsView(e) = DnsView(d)
    OBVIOUS
  <2>1. new.name = old.name /\ new.addr = old.addr
    BY DEF old
  <2> QED BY <1>2, <2>1 DEF DnsView
<1>8. Honest(d, e)
  BY <1>6, <1>7, <1>3 DEF Honest
<1> HIDE DEF e
<1>9. Kept(p, [lease |-> new, db |-> e])
  BY <1>5, <1>8 DEF Kept, PairOK, d
<1> QED
  BY <1>1, <1>9

(* lease_set_hwaddr, for an identifier no other lease has.                 *)
LEMMA SetHwaddrKept ==
  ASSUME NEW p, PairOK(p), NEW hw \in HW, NEW clid \in ClId \cup {NoClid},
         \A l \in p.db.leases \ {p.lease} : clid # NoClid => l.clid # clid
  PROVE  Kept(p, lease_set_hwaddr(p, hw, clid))
<1> DEFINE new == [p.lease EXCEPT !.hw = hw,
                                  !.clid = IF clid # NoClid THEN clid ELSE @]
<1>1. p.lease \in Lease
  BY DEF PairOK, DbOK, Db
<1>2. new \in Lease /\ new.addr = p.lease.addr /\ new.name = p.lease.name
  BY <1>1 DEF Lease
<1>3. Fits(p.db, p.lease, new)
  <2>1. new.clid = clid \/ new.clid = p.lease.clid
    BY <1>1 DEF Lease
  <2> HIDE DEF new
  <2>2. CASE new.clid = p.lease.clid
    BY <1>2, <2>2, SameFits DEF PairOK
  <2>3. CASE new.clid = clid
    BY <1>2, <2>3 DEF Fits, PairOK, DbOK, Distinct, OnePerName
  <2> QED BY <2>1, <2>2, <2>3
<1>4. lease_set_hwaddr(p, hw, clid) =
        [lease |-> new, db |-> Put(p.db, p.lease, new, new # p.lease, FALSE)]
  BY DEF lease_set_hwaddr
<1> HIDE DEF new
<1>5. Kept(p, [lease |-> new,
               db |-> Put(p.db, p.lease, new, new # p.lease, FALSE)])
  BY <1>2, <1>3, PutKept
<1> QED
  BY <1>4, <1>5

(* lease_set_expires.                                                      *)
LEMMA SetExpiresKept ==
  ASSUME NEW p, PairOK(p), NEW exp \in Nat
  PROVE  Kept(p, lease_set_expires(p, exp))
<1> DEFINE new == [p.lease EXCEPT !.expires = exp]
<1>1. p.lease \in Lease
  BY DEF PairOK, DbOK, Db
<1>2. new \in Lease /\ new.addr = p.lease.addr /\ new.name = p.lease.name
  BY <1>1 DEF Lease
<1>3. Fits(p.db, p.lease, new)
  <2>1. new.clid = p.lease.clid
    BY <1>1 DEF Lease
  <2> HIDE DEF new
  <2> QED BY <1>2, <2>1, SameFits DEF PairOK
<1>4. lease_set_expires(p, exp) =
        [lease |-> new,
         db |-> Put(p.db, p.lease, new, new # p.lease, new # p.lease)]
  BY DEF lease_set_expires
<1> HIDE DEF new
<1>5. Kept(p, [lease |-> new,
               db |-> Put(p.db, p.lease, new, new # p.lease, new # p.lease)])
  BY <1>2, <1>3, PutKept
<1> QED
  BY <1>4, <1>5

(* The name moves: the rival loses it, then the lease at hand gets it.     *)
LEMMA TakeNameKept ==
  ASSUME NEW p, PairOK(p), NEW name \in Names, NEW auth \in BOOLEAN,
         p.lease.name # name
  PROVE  Kept(p, TakeName(p, name, auth))
<1> DEFINE rival == Rival(p.db, name)
           d == IF HasRival(p.db, name)
                THEN Put(p.db, rival, kill_name(rival), TRUE, TRUE) ELSE p.db
           new == [p.lease EXCEPT !.name = name, !.auth = auth]
<1>1. p.lease \in Lease /\ p.db \in Db /\ DbOK(p.db) /\ p.lease \in p.db.leases
  BY DEF PairOK, DbOK, Db
<1>2. /\ new \in Lease /\ new.addr = p.lease.addr
      /\ new.clid = p.lease.clid /\ new.name = name
  BY <1>1 DEF Lease
<1>3. DbOK(d) /\ p.lease \in d.leases /\ \A l \in d.leases : l.name # name
  <2>1. CASE HasRival(p.db, name)
    <3>1. rival \in p.db.leases /\ rival.name = name
      BY <2>1 DEF HasRival, Rival
    <3>2. d = Put(p.db, rival, kill_name(rival), TRUE, TRUE)
      BY <2>1
    <3> HIDE DEF rival, d
    <3>3. rival \in Lease
      BY <1>1, <3>1 DEF Db
    <3>4. /\ kill_name(rival) \in Lease /\ kill_name(rival).addr = rival.addr
          /\ kill_name(rival).clid = rival.clid /\ kill_name(rival).name = NoName
      BY <3>3 DEF kill_name, Lease
    <3>5. Fits(p.db, rival, kill_name(rival))
      BY <1>1, <3>1, <3>4, SameFits
    <3>6. DbOK(Put(p.db, rival, kill_name(rival), TRUE, TRUE))
      <4> DEFINE q == [lease |-> rival, db |-> p.db]
      <4>1. PairOK(q) /\ q.lease = rival /\ q.db = p.db
        BY <1>1, <3>1 DEF PairOK
      <4> HIDE DEF q
      <4>2. Kept(q, [lease |-> kill_name(rival),
                     db |-> Put(q.db, q.lease, kill_name(rival), TRUE, TRUE)])
        BY <3>4, <3>5, <4>1, PutKept
      <4> QED BY <4>1, <4>2 DEF Kept, PairOK
    <3>7. p.lease \in Put(p.db, rival, kill_name(rival), TRUE, TRUE).leases
      BY <1>1, <3>1 DEF Put
    <3>8. \A l \in Put(p.db, rival, kill_name(rival), TRUE, TRUE).leases : l.name # name
      BY <1>1, <3>1, <3>4, NullAssumption DEF Put, DbOK, Distinct, OnePerName
    <3> QED BY <3>2, <3>6, <3>7, <3>8
  <2>2. CASE ~HasRival(p.db, name)
    BY <1>1, <2>2 DEF HasRival
  <2> QED BY <2>1, <2>2
<1>4. TakeName(p, name, auth) =
        [lease |-> new, db |-> Put(d, p.lease, new, TRUE, TRUE)]
  BY DEF TakeName
<1> HIDE DEF d, new
<1>5. DbOK(Put(d, p.lease, new, TRUE, TRUE))
      /\ new \in Put(d, p.lease, new, TRUE, TRUE).leases
  <2> DEFINE q == [lease |-> p.lease, db |-> d]
  <2>1. PairOK(q) /\ q.lease = p.lease /\ q.db = d
    BY <1>3 DEF PairOK
  <2> HIDE DEF q
  <2>2. Fits(d, p.lease, new)
    BY <1>2, <1>3 DEF Fits, DbOK, Distinct, OnePerClid
  <2>3. Kept(q, [lease |-> new, db |-> Put(q.db, q.lease, new, TRUE, TRUE)])
    BY <1>2, <2>1, <2>2, PutKept
  <2> QED BY <2>1, <2>3 DEF Kept, PairOK
<1>6. Honest(p.db, Put(d, p.lease, new, TRUE, TRUE))
  BY DEF Honest, Put
<1> DEFINE e == Put(d, p.lease, new, TRUE, TRUE)
<1> HIDE DEF e
<1>7. Kept(p, [lease |-> new, db |-> e])
  BY <1>2, <1>5, <1>6 DEF Kept, PairOK, e
<1> QED
  BY <1>4, <1>7 DEF e

(* lease_set_hostname: same name, refused, or the name moves.              *)
LEMMA SetHostnameKept ==
  ASSUME NEW p, PairOK(p), NEW name \in Names, NEW auth \in BOOLEAN
  PROVE  Kept(p, lease_set_hostname(p, name, auth))
<1> DEFINE new == [p.lease EXCEPT !.auth = auth]
<1>1. p.lease \in Lease /\ p.db \in Db
  BY DEF PairOK, DbOK, Db
<1>2. CASE p.lease.name = name
  <2>1. /\ new \in Lease /\ new.addr = p.lease.addr /\ new.name = p.lease.name
        /\ new.clid = p.lease.clid
        /\ [new EXCEPT !.auth = FALSE] = [p.lease EXCEPT !.auth = FALSE]
    BY <1>1 DEF Lease
  <2>2. lease_set_hostname(p, name, auth) =
          [lease |-> new, db |-> Put(p.db, p.lease, new, FALSE, FALSE)]
    BY <1>2 DEF lease_set_hostname
  <2> HIDE DEF new
  <2>3. Fits(p.db, p.lease, new)
    BY <2>1, SameFits DEF PairOK
  <2>4. Kept(p, [lease |-> new, db |-> Put(p.db, p.lease, new, FALSE, FALSE)])
    BY <2>1, <2>3, PutKept
  <2> QED BY <2>2, <2>4
<1>3. CASE p.lease.name # name /\ HasRival(p.db, name)
           /\ Rival(p.db, name).auth /\ ~auth
  <2>1. lease_set_hostname(p, name, auth) = p
    BY <1>3 DEF lease_set_hostname
  <2> QED BY <2>1 DEF Kept, Honest
<1>4. CASE p.lease.name # name
           /\ ~(HasRival(p.db, name) /\ Rival(p.db, name).auth /\ ~auth)
  <2>1. lease_set_hostname(p, name, auth) = TakeName(p, name, auth)
    BY <1>4 DEF lease_set_hostname
  <2> QED BY <1>4, <2>1, TakeNameKept
<1> QED
  BY <1>2, <1>3, <1>4
-----------------------------------------------------------------------------
(* A non-empty set of naturals has a least element.                         *)
LEMMA MinNat ==
  ASSUME NEW S \in SUBSET Nat, S # {}
  PROVE  \E t \in S : \A u \in S : t <= u
<1> DEFINE R == {ss \in Nat \X Nat : ss[1] < ss[2]}
<1>1. IsWellFoundedOn(R, Nat)
  BY NatLessThanWellFounded, Zenon DEF OpToRel
<1> HIDE DEF R
<1>2. \E x \in S : \A y \in S : ~ (<<y, x>> \in R)
  BY <1>1, WFMin
<1>3. \A x, y \in Nat : ~(<<y, x>> \in R) => x <= y
  BY DEF R
<1> QED
  BY <1>2, <1>3

(* What lease_update_file writes can be read back as a database.           *)
LEMMA StoredOK ==
  ASSUME NEW d, DbOK(d)
  PROVE  /\ IsFiniteSet(Stored(d.leases))
         /\ Stored(d.leases) \subseteq Lease
         /\ Distinct(Stored(d.leases))
         /\ Cardinality(Stored(d.leases)) <= DhcpMax
         /\ \A l \in Stored(d.leases) : ~l.auth
<1> DEFINE f == [l \in d.leases |-> [l EXCEPT !.auth = FALSE]]
<1>1. d.leases \subseteq Lease /\ IsFiniteSet(d.leases)
      /\ Cardinality(d.leases) \in Nat /\ Cardinality(d.leases) <= DhcpMax
  BY FS_CardinalityType, DhcpMaxAssumption DEF DbOK, Db
<1>2. f \in Surjection(d.leases, Stored(d.leases))
  BY Fun_IsSurj DEF Stored
<1>3. \A l \in d.leases : /\ [l EXCEPT !.auth = FALSE] \in Lease
                          /\ [l EXCEPT !.auth = FALSE].addr = l.addr
                          /\ [l EXCEPT !.auth = FALSE].clid = l.clid
                          /\ [l EXCEPT !.auth = FALSE].name = l.name
                          /\ [l EXCEPT !.auth = FALSE].auth = FALSE
  BY <1>1 DEF Lease
<1>4. IsFiniteSet(Stored(d.leases))
      /\ Cardinality(Stored(d.leases)) <= Cardinality(d.leases)
      /\ Cardinality(Stored(d.leases)) \in Nat
  BY <1>1, <1>2, FS_Surjection, FS_CardinalityType
<1>5. Distinct(Stored(d.leases))
  <2> SUFFICES ASSUME NEW x \in Stored(d.leases), NEW y \in Stored(d.leases)
               PROVE  /\ x.addr = y.addr => x = y
                      /\ x.clid = y.clid /\ x.clid # NoClid => x = y
                      /\ x.name = y.name /\ x.name # NoName => x = y
    BY DEF Distinct, OnePerAddr, OnePerClid, OnePerName
  <2> PICK u \in d.leases : x = [u EXCEPT !.auth = FALSE]
    BY DEF Stored
  <2> PICK v \in d.leases : y = [v EXCEPT !.auth = FALSE]
    BY DEF Stored
  <2>1. /\ x.addr = u.addr /\ x.clid = u.clid /\ x.name = u.name
        /\ y.addr = v.addr /\ y.clid = v.clid /\ y.name = v.name
    BY <1>3
  <2>2. /\ u.addr = v.addr => u = v
        /\ u.clid = v.clid /\ u.clid # NoClid => u = v
        /\ u.name = v.name /\ u.name # NoName => u = v
    BY DEF DbOK, Distinct, OnePerAddr, OnePerClid, OnePerName
  <2> QED BY <2>1, <2>2
<1>6. Stored(d.leases) \subseteq Lease /\ \A l \in Stored(d.leases) : ~l.auth
  BY <1>3 DEF Stored
<1> QED
  BY <1>1, <1>4, <1>5, <1>6, DhcpMaxAssumption

(* The alarm that lease_update_file asks for is a time.                    *)
LEMMA NextExpiryType ==
  ASSUME NEW d \in Db, NEW grace \in Nat
  PROVE  NextExpiry(d, grace) \in Nat
<1> DEFINE times == {l.expires + grace : l \in {x \in d.leases : x.expires # 0}}
<1>1. times \in SUBSET Nat
  BY DEF Db, Lease
<1> DEFINE least == CHOOSE t \in times : \A u \in times : t <= u
<1>2. NextExpiry(d, grace) = IF times = {} THEN 0 ELSE least
  BY DEF NextExpiry
<1> HIDE DEF times
<1>3. times # {} => \E t \in times : \A u \in times : t <= u
  BY <1>1, MinNat
<1>4. times # {} => least \in times
  BY <1>3
<1> HIDE DEF least
<1>5. times # {} => least \in Nat
  BY <1>1, <1>4
<1>6. CASE times = {}
  BY <1>2, <1>6
<1>7. CASE times # {}
  BY <1>2, <1>5, <1>7
<1> QED
  BY <1>6, <1>7
=============================================================================
