---------------------------- MODULE LeaseService ----------------------------
(***************************************************************************)
(* What a lease server promises, without packets, files, crashes or the    *)
(* way in which clients are recognised: a durable table of leases and the  *)
(* grants that hosts have been told of.  One host's business at a time     *)
(* changes the table; a host is told of a lease only when the table has    *)
(* it; and the table never drops or shortens the lease of a grant that a   *)
(* host still relies on.  No action makes a grant exclusive: that follows, *)
(* because the table has one lease of an address and grants stand on it.   *)
(***************************************************************************)
EXTENDS Integers

VARIABLES table,   \* durable leases: [addr, host, ends], ends = 0 for ever
          grants,  \* what hosts rely on: [addr, host, until]
          time,
          sound    \* the table has not been damaged

serviceVars == <<table, grants, time, sound>>

Over(end) == end # 0 /\ time > end

(* A lease backs a grant of the same host that ends no later.              *)
Backed(g, T) ==
    \E l \in T : /\ l.addr = g.addr /\ l.host = g.host
                 /\ l.ends = 0 \/ (g.until # 0 /\ l.ends >= g.until)

OneHost(S) == \A k, l \in S : k.host = l.host

ServiceInit == table = {} /\ grants = {} /\ time = 1 /\ sound = TRUE

(* The leases of one host change, and leases that are over go.             *)
Serve ==
    /\ OneHost((table' \ table) \cup {l \in table \ table' : ~Over(l.ends)})
    /\ \A k, l \in table' : k.addr = l.addr => k = l
    /\ \A g \in grants : Backed(g, table')
    /\ UNCHANGED <<grants, time, sound>>

(* A host is told of a lease, in place of what it was told of the address. *)
Tell ==
    /\ \E g \in grants' :
          /\ Backed(g, table) /\ (g.until = 0 \/ g.until > time)
          /\ grants' = {h \in grants : h.addr # g.addr \/ h.host # g.host} \cup {g}
    /\ UNCHANGED <<table, time, sound>>

(* A host no longer relies on some of what it was granted.                 *)
GiveUp ==
    /\ grants' \subseteq grants /\ OneHost(grants \ grants')
    /\ UNCHANGED <<table, time, sound>>

(* Time passes; a grant that has run out is relied on by nobody.           *)
Pass ==
    /\ time' = time + 1
    /\ grants' = {g \in grants : g.until = 0 \/ g.until > time}
    /\ UNCHANGED <<table, sound>>

(* The table is damaged: from here on nothing is promised.                 *)
Damage == ~sound'

ServiceNext == Serve \/ Tell \/ GiveUp \/ Pass \/ Damage

ServiceSpec == ServiceInit /\ [][ServiceNext]_serviceVars

(* Until the table is damaged, it has one lease of an address and one that *)
(* backs every grant; so nobody relies on an address that another does.    *)
TableSound ==
    sound => /\ \A k, l \in table : k.addr = l.addr => k = l
             /\ \A g \in grants : Backed(g, table)
             /\ \A g, h \in grants : g.addr = h.addr => g = h
=============================================================================
