----------------------------- MODULE DhcpServer -----------------------------
(***************************************************************************)
(* The DHCP server of dnsmasq: dhcp_reply (rfc2131.c) on the lease         *)
(* database of lease.c, inside the packet, alarm and reload events of the  *)
(* main loop (dhcp.c, dnsmasq.c), with the lease file it keeps on disk and *)
(* the crashes that can hit it between any two steps.                      *)
(*                                                                         *)
(* One event is several steps.  dhcp_packet prunes the expired leases and  *)
(* works out the reply in memory (Recv), rewrites the lease file when it   *)
(* is dirty (Truncate, then WriteOk or WriteErr), and only then updates    *)
(* the name cache and sends the reply (Finish).                            *)
(***************************************************************************)
EXTENDS LeaseDb

CONSTANTS
    NoAddr,         \* 0.0.0.0, or an option that is absent
    Subnet,         \* the addresses on the context's subnet
    Pool,           \* the context's start..end
    Router,         \* the server's own address: context->router and ->local
    Configs,        \* dhcp-host lines: [macs, clid, name, addr]
    NoConfig,       \* the NULL of find_config
    NoReply,        \* a reply of length 0: nothing is sent
    Ignored,        \* hardware addresses under dhcp-ignore or host "ignore"
    HostsName,      \* host_from_dns: the /etc/hosts name of each address
    Authoritative,  \* --dhcp-authoritative
    BootpDynamic,   \* --bootp-dynamic
    LeaseTime,      \* context->lease_time
    Grace,          \* the 10 s after an expiry at which the alarm is set
    LeaseRetry,     \* LEASE_RETRY
    DeclineBackoff, \* DECLINE_BACKOFF
    Messages,       \* the messages clients may send
    MaxTime,        \* bound on the clock
    MaxCrashes,     \* bound on crashes
    MaxWriteErrs,   \* bound on failed rewrites of the lease file
    MaxReloads      \* bound on SIGHUPs

ASSUME AddrAssumption ==
    /\ Pool \subseteq Subnet /\ Subnet \subseteq Addr
    /\ Router \in Subnet /\ NoAddr \notin Addr
ASSUME TimeAssumption ==
    /\ LeaseTime \in Nat \ {0} /\ Grace \in Nat \ {0}
    /\ LeaseRetry \in Nat \ {0} /\ DeclineBackoff \in Nat
    /\ MaxTime \in Nat \ {0}
    /\ MaxCrashes \in Nat /\ MaxWriteErrs \in Nat /\ MaxReloads \in Nat

Config == [macs : SUBSET HW, clid : ClId \cup {NoClid},
           name : Names \cup {NoName}, addr : Subnet \cup {NoAddr}]

ASSUME ConfigAssumption ==
    /\ Configs \subseteq Config /\ NoConfig \notin Config
    /\ \A c1, c2 \in Configs :       \* option.c refuses duplicates
          c1.addr = c2.addr /\ c1.addr # NoAddr => c1 = c2
    /\ HostsName \in [Addr -> Names \cup {NoName}]

Type == {"DISCOVER", "REQUEST", "DECLINE", "RELEASE", "INFORM", "BOOTP"}

Message == [type : Type, hw : HW, clid : ClId \cup {NoClid},
            name : Names \cup {NoName}, req : Addr \cup {NoAddr},
            sid : Addr \cup {NoAddr}, ciaddr : Addr \cup {NoAddr}, xid : Nat]

(* until is the time at which the lease that is offered or granted ends.   *)
Reply == [type : {"OFFER", "ACK", "NAK", "INFORMED", "BOOTP"}, hw : HW,
          clid : ClId \cup {NoClid}, xid : Nat, yiaddr : Addr \cup {NoAddr},
          sid : {Router}, until : Nat]

ASSUME MessageAssumption == Messages \subseteq Message /\ NoReply \notin Reply

VARIABLES
    db,        \* the statics of lease.c
    declined,  \* config |-> decline_time, 0 while CONFIG_DECLINED is unset
    pc,        \* where the server is: see PC
    job,       \* the event being handled: "packet", "alarm" or "reload"
    reply,     \* the packet dhcp_packet will send, or NoReply
    alarm,     \* when the timer of alarm() rings, 0 when it is not set
    rung,      \* EVENT_ALARM is in the event pipe
    dns,       \* the DHCP entries of the name cache
    file,      \* the leases in the lease file
    todo,      \* addresses of the leases lease_update_from_configs has left
    now,       \* time(NULL), in units of the model
    held,      \* history: the grants clients hold, as they were told
    faulty,    \* history: a rewrite failed or a crash tore one
    crashes, writeErrs, reloads   \* counters for the bounds

PC == {"down", "configs", "idle", "update", "rewrite", "send"}

serverVars == <<db, declined, pc, job, reply, alarm, rung, dns, file, todo, held,
                faulty, crashes, writeErrs, reloads>>
counters == <<crashes, writeErrs, reloads>>
vars == <<serverVars, now>>

-----------------------------------------------------------------------------
(* dhcp.c: the one context of the model.                                   *)
address_available(a) == a \in Pool /\ a # Router
narrow_context(a) == a \in Subnet

(* find_config: by client identifier, then by hardware address.            *)
find_config(hw, clid) ==
    LET byClid == {c \in Configs : clid # NoClid /\ c.clid = clid}
        byMac  == {c \in Configs : hw \in c.macs}
    IN  IF byClid # {} THEN CHOOSE c \in byClid : TRUE
        ELSE IF byMac # {} THEN CHOOSE c \in byMac : TRUE
        ELSE NoConfig

(* dhcp_reply's second lookup: a nameless client that matches nothing so   *)
(* far may match, by the name it supplies, a line that has only a name.    *)
find_config_by_name(cfg, name) ==
    LET byName == {c \in Configs : name # NoName /\ c.name = name
                                   /\ c.clid = NoClid /\ c.macs = {}}
    IN  IF cfg = NoConfig /\ byName # {} THEN CHOOSE c \in byName : TRUE
        ELSE cfg

HasAddr(cfg) == cfg # NoConfig /\ cfg.addr # NoAddr
HasName(cfg) == cfg # NoConfig /\ cfg.name # NoName
config_has_mac(cfg, hw) == cfg # NoConfig /\ hw \in cfg.macs
config_find_by_address(a) == {c \in Configs : c.addr = a}

(* address_allocate: the scan starts at a hash of the MAC plus addr_epoch  *)
(* and skips an address that answers a ping, so any free address may come  *)
(* out of it, or none when all of them answer.                             *)
address_allocate(d) ==
    {a \in Pool : a # Router /\ lease_find_by_addr(d, a) = {}
                  /\ config_find_by_address(a) = {}} \cup {NoAddr}

-----------------------------------------------------------------------------
(* dhcp_reply.  `lease` is a set: the lease the client was found to have,  *)
(* or empty.  Each operator returns the possible outcomes.                 *)
Outcome(d, r) == [db |-> d, declined |-> declined, reply |-> r]

Silent(d) == Outcome(d, NoReply)

Packet(type, m, a, until) ==
    [type |-> type, hw |-> m.hw, clid |-> m.clid, xid |-> m.xid,
     yiaddr |-> a, sid |-> Router, until |-> until]

Nak(d, m) == Outcome(d, Packet("NAK", m, NoAddr, now))

(* The client identifier in force: the message's, else that of its lease.  *)
EffClid(m, lease) ==
    IF m.clid = NoClid /\ lease # {} THEN (CHOOSE l \in lease : TRUE).clid
                                     ELSE m.clid

(* The host name of an ACK and whether it is authoritative.                *)
HostName(m, cfg, a) ==
    CASE HasName(cfg)             -> [name |-> cfg.name, auth |-> TRUE]
      [] ~HasName(cfg) /\ HostsName[a] # NoName
                                  -> [name |-> HostsName[a], auth |-> TRUE]
      [] OTHER                    -> [name |-> m.name, auth |-> FALSE]

(* Lines 1133-1233: the lease is bound to the client.                      *)
Bind(p, hw, clid, host, exp) ==
    LET p1 == lease_set_hwaddr(p, hw, clid)
        p2 == IF host.name # NoName
              THEN lease_set_hostname(p1, host.name, host.auth) ELSE p1
    IN  lease_set_expires(p2, exp).db

Decline(d, m, lease, cfg) ==
    IF m.sid # Router \/ m.req = NoAddr THEN Silent(d)
    ELSE [db |-> lease_prune(d, {l \in lease : l.addr = m.req}, now),
          declined |-> IF HasAddr(cfg) /\ cfg.addr = m.req
                       THEN [declined EXCEPT ![cfg] = now] ELSE declined,
          reply |-> NoReply]

(* dhcp_reply clears the ciaddr of a message that asks for an address.     *)
Ciaddr(m) == IF m.req # NoAddr THEN NoAddr ELSE m.ciaddr

Release(d, m, lease) ==
    IF ~narrow_context(Ciaddr(m)) \/ m.sid # Router THEN Silent(d)
    ELSE Silent(lease_prune(d, {l \in lease : l.addr = Ciaddr(m)}, now))

(* The configured address is offered unless somebody else has it, the      *)
(* server has it, or it was declined a short time ago.                     *)
ConfUsable(d, lease, cfg) ==
    /\ HasAddr(cfg)
    /\ \A l \in lease_find_by_addr(d, cfg.addr) \ lease :
          config_has_mac(cfg, l.hw)
    /\ cfg.addr # Router
    /\ (declined[cfg] = 0 \/ now - declined[cfg] >= DeclineBackoff)

Offerable(d, m, lease, cfg) ==
    LET own == {l.addr : l \in {x \in lease : address_available(x.addr)
                                  /\ config_find_by_address(x.addr) = {}}}
    IN  IF ConfUsable(d, lease, cfg) THEN {cfg.addr}
        ELSE IF own # {} THEN own
        ELSE IF /\ address_available(m.req)
                /\ lease_find_by_addr(d, m.req) = {}
                /\ config_find_by_address(m.req) = {}
        THEN {m.req}
        ELSE address_allocate(d)

Discover(d, m, lease, cfg) ==
    IF m.hw \in Ignored THEN {Silent(d)}
    ELSE {IF a = NoAddr THEN Silent(d)
          ELSE Outcome(d, Packet("OFFER", m, a, now)) :
            a \in Offerable(d, m, lease, cfg)}

Selecting(m)  == m.req # NoAddr /\ m.sid # NoAddr
InitReboot(m) == m.req # NoAddr /\ m.sid = NoAddr
Wanted(m)     == IF m.req # NoAddr THEN m.req ELSE Ciaddr(m)

(* Lines 1064-1100: why a request for address a is refused.                *)
StaticAvailable(d, m, lease, cfg, a) ==
    /\ HasAddr(cfg) /\ cfg.addr # Router /\ ~Selecting(m)
    /\ declined[cfg] = 0 \/ now - declined[cfg] > DeclineBackoff
    /\ cfg.addr # a
    /\ lease_find_by_addr(d, cfg.addr) \subseteq lease

(* Seeded fault: an address in use by another client is not refused.       *)
RefusedUnlessFree(d, m, lease, cfg, a) ==
    \/ ~narrow_context(a)
    \/ ~address_available(a) /\ ~(HasAddr(cfg) /\ cfg.addr = a)
    \/ StaticAvailable(d, m, lease, cfg, a)
    \/ config_find_by_address(a) \ {cfg} # {}

Refused(d, m, lease, cfg, a) ==
    \/ ~narrow_context(a)
    \/ ~address_available(a) /\ ~(HasAddr(cfg) /\ cfg.addr = a)
    \/ StaticAvailable(d, m, lease, cfg, a)
    \/ config_find_by_address(a) \ {cfg} # {}
    \/ lease = {} /\ \E l \in lease_find_by_addr(d, a) :
                        ~config_has_mac(cfg, l.hw)

(* Seeded fault: a client without a lease always gets a new one.           *)
GrantNew(d, m, clid, lease, cfg, a) ==
    IF lease # {} THEN {Outcome(Bind([lease |-> l, db |-> d], m.hw, clid,
                                     HostName(m, cfg, a), now + LeaseTime),
                                Packet("ACK", m, a, now + LeaseTime)) :
                          l \in lease}
    ELSE IF d.leases_left = 0 THEN {Nak(d, m)}
    ELSE {Outcome(Bind(lease_allocate(d, a, m.hw), m.hw, clid,
                       HostName(m, cfg, a), now + LeaseTime),
                  Packet("ACK", m, a, now + LeaseTime))}

(* Lines 1089-1113: the client's lease, the lease it takes over from       *)
(* another interface of the same configured host, or a new one.            *)
Ack(p, m, clid, cfg, a) ==
    Outcome(Bind(p, m.hw, clid, HostName(m, cfg, a), now + LeaseTime),
            Packet("ACK", m, a, now + LeaseTime))

Grant(d, m, clid, lease, cfg, a) ==
    LET old == IF lease # {} THEN lease ELSE lease_find_by_addr(d, a)
    IN  IF old # {} THEN {Ack([lease |-> l, db |-> d], m, clid, cfg, a) :
                            l \in old}
        ELSE IF d.leases_left = 0 THEN {Nak(d, m)}
        ELSE {Ack(lease_allocate(d, a, m.hw), m, clid, cfg, a)}

(* Lines 980-1131.  A client that asks for another address than the one it *)
(* has loses its lease, whatever the answer.                               *)
Request(d, m, clid, lease, cfg0, cfg) ==
    LET a     == Wanted(m)
        moved == {l \in lease : l.addr # a}
        d1    == IF m.req # NoAddr THEN lease_prune(d, moved, now) ELSE d
        lease1 == IF m.req # NoAddr THEN lease \ moved ELSE lease
    IN  IF \/ m.hw \in Ignored
           \/ Selecting(m) /\ m.sid # Router /\ ~Authoritative
           \/ InitReboot(m) /\ lease = {} /\ ~Authoritative
        THEN {Silent(d)}
        ELSE IF \/ Selecting(m) /\ m.sid # Router
                \/ InitReboot(m) /\ moved # {}
                \/ m.req = NoAddr /\ (moved # {} \/ (lease = {} /\ ~Authoritative))
                \/ Refused(d1, m, lease1, cfg, a)
        THEN {Nak(d1, m)}
        ELSE Grant(d1, m, clid, lease1, cfg0, a)

Inform(d, m) ==
    IF m.hw \in Ignored \/ Ciaddr(m) = NoAddr THEN Silent(d)
    ELSE Outcome(d, Packet("INFORMED", m, NoAddr, now))

(* The BOOTP branch, lines 359-481: the lease never expires.               *)
BootpHost(cfg) == IF HasName(cfg) THEN [name |-> cfg.name, auth |-> TRUE]
                                  ELSE [name |-> NoName, auth |-> FALSE]

BootpBind(p, m, cfg, a) ==
    Outcome(Bind(p, m.hw, NoClid, BootpHost(cfg), 0), Packet("BOOTP", m, a, 0))

BootpGrant(d, m, cfg, lease, a) ==
    IF lease # {} THEN {BootpBind([lease |-> l, db |-> d], m, cfg, a) :
                          l \in lease}
    ELSE IF d.leases_left = 0 THEN {Silent(d)}
    ELSE {BootpBind(lease_allocate(d, a, m.hw), m, cfg, a)}

(* A configured address that no other hardware holds.                      *)
BootpNailed(d, m, cfg) ==
    IF \E l \in lease_find_by_addr(d, cfg.addr) : l.hw # m.hw
    THEN {Silent(d)}
    ELSE BootpGrant(d, m, cfg, lease_find_by_addr(d, cfg.addr), cfg.addr)

(* Seeded fault: address_allocate's failure is not looked at.              *)
BootpUnchecked(d, m, cfg, lease) ==
    LET stale == {l \in lease : ~address_available(l.addr)}
        d1    == lease_prune(d, stale, now)
        keep  == lease \ stale
        addrs == IF keep # {} THEN {l.addr : l \in keep}
                              ELSE address_allocate(d1)
    IN  IF ~BootpDynamic THEN {Silent(d1)}
        ELSE UNION {BootpGrant(d1, m, cfg, keep, a) : a \in addrs}

(* The address of the client's lease while the context still has it, or a  *)
(* free one.                                                               *)
BootpFree(d, m, cfg, lease) ==
    LET stale == {l \in lease : ~address_available(l.addr)}
        d1    == lease_prune(d, stale, now)
        keep  == lease \ stale
        addrs == IF keep # {} THEN {l.addr : l \in keep}
                              ELSE address_allocate(d1)
    IN  IF ~BootpDynamic THEN {Silent(d1)}
        ELSE UNION {IF a = NoAddr THEN {Silent(d1)}
                    ELSE BootpGrant(d1, m, cfg, keep, a) : a \in addrs}

Bootp(d, m, cfg) ==
    LET found == lease_find_by_client(d, m.hw, NoClid)
    IN  IF m.hw \in Ignored THEN {Silent(d)}
        ELSE IF HasAddr(cfg) THEN BootpNailed(d, m, cfg)
        ELSE IF found = {} THEN BootpFree(d, m, cfg, {})
        ELSE UNION {BootpFree(d, m, cfg, {l}) : l \in found}

(* What dhcp_reply may do with m on database d, the client having `lease`. *)
ReplyTo(d, m, lease) ==
    LET clid == EffClid(m, lease)
        cfg0 == find_config(m.hw, clid)
        cfg  == find_config_by_name(cfg0, m.name)
    IN  CASE m.type = "DISCOVER" -> Discover(d, m, lease, cfg)
          [] m.type = "REQUEST"  -> Request(d, m, clid, lease, cfg0, cfg)
          [] m.type = "DECLINE"  -> {Decline(d, m, lease, cfg)}
          [] m.type = "RELEASE"  -> {Release(d, m, lease)}
          [] m.type = "INFORM"   -> {Inform(d, m)}
          [] m.type = "BOOTP"    -> Bootp(d, m, find_config(m.hw, NoClid))

dhcp_reply(d, m) ==
    LET found == lease_find_by_client(d, m.hw, m.clid)
    IN  IF m.type = "BOOTP" \/ found = {} THEN ReplyTo(d, m, {})
        ELSE UNION {ReplyTo(d, m, {l}) : l \in found}

-----------------------------------------------------------------------------
(* History: the grants a client gives up by sending m.  A client that      *)
(* releases or declines an address, or asks for another one, no longer     *)
(* uses what it had; one that boots over BOOTP has nothing yet, and one    *)
(* that asks for a lease over DHCP no longer relies on what BOOTP gave it. *)
SameClient(x, y) ==
    \/ x.clid # NoClid /\ x.clid = y.clid
    \/ (x.clid = NoClid \/ y.clid = NoClid) /\ x.hw = y.hw

(* A dhcp-host line with several hardware addresses is one host with       *)
(* several interfaces, which may take each other's lease over.             *)
Matches(c, x) == x.hw \in c.macs \/ (x.clid # NoClid /\ x.clid = c.clid)

SameHost(x, y) ==
    SameClient(x, y) \/ \E c \in Configs : Matches(c, x) /\ Matches(c, y)

(* Every hardware address belongs to one host, and so does every client    *)
(* identifier: the messages fall into hosts.  What a client holds can be   *)
(* promised to nobody else only as far as the clients can be told apart.   *)
HostsDistinct ==
    /\ \A x, y \in Messages : x.hw = y.hw => SameHost(x, y)
    /\ \A x, y, z \in Messages :
          SameHost(x, y) /\ SameHost(y, z) => SameHost(x, z)

Disowns(m, g) ==
    /\ SameHost(g, m)
    /\ \/ m.type = "DECLINE" /\ g.addr = m.req
       \/ m.type = "RELEASE" /\ g.addr = Ciaddr(m)
       \/ m.type = "REQUEST" /\ m.req # NoAddr /\ g.addr # m.req
       \/ m.type = "REQUEST" /\ g.until = 0
       \/ m.type = "BOOTP"

Granted(r) == r # NoReply /\ r.type \in {"ACK", "BOOTP"}

(* A grant replaces an earlier one of the same address to the same host.   *)
Replaces(r, g) == g.addr = r.yiaddr /\ SameHost(g, r)

GrantOf(r) == [hw |-> r.hw, clid |-> r.clid, addr |-> r.yiaddr,
               until |-> r.until]

-----------------------------------------------------------------------------
Init ==
    /\ db = EmptyDb /\ declined = [c \in Configs |-> 0]
    /\ pc = "down" /\ job = "reload" /\ reply = NoReply
    /\ alarm = 0 /\ rung = FALSE /\ dns = {} /\ file = {} /\ todo = {} /\ now = 1
    /\ held = {} /\ faulty = FALSE
    /\ crashes = 0 /\ writeErrs = 0 /\ reloads = 0

(* lease_init reads the lease file and drops what has expired.             *)
lease_init ==
    LET d == [leases |-> file, leases_left |-> DhcpMax - Cardinality(file),
              file_dirty |-> FALSE, dns_dirty |-> FALSE]
    IN  [lease_prune(d, {}, now) EXCEPT !.dns_dirty = TRUE]

(* Startup: lease_init, then the EVENT_RELOAD that main puts in the pipe,  *)
(* which is handled before any packet.                                     *)
Restart ==
    /\ pc = "down"
    /\ db' = lease_init
    /\ todo' = {l.addr : l \in lease_init.leases}
    /\ pc' = "configs" /\ job' = "reload"
    /\ UNCHANGED <<declined, reply, alarm, rung, dns, file, now, held, faulty,
                   counters>>

(* SIGHUP: EVENT_RELOAD, clear_cache_and_reload.  Nothing is pruned.       *)
Reload ==
    /\ pc = "idle" /\ reloads < MaxReloads
    /\ todo' = {l.addr : l \in db.leases}
    /\ pc' = "configs" /\ job' = "reload"
    /\ reloads' = reloads + 1
    /\ UNCHANGED <<db, declined, reply, alarm, rung, dns, file, now, held, faulty,
                   crashes, writeErrs>>

(* lease_update_from_configs, one lease at a time: the name that the       *)
(* lease's configuration line or /etc/hosts gives it, on authority.        *)
ConfiguredName(l) ==
    LET cfg == find_config(l.hw, l.clid)
    IN  IF HasName(cfg) /\ (cfg.addr = NoAddr \/ cfg.addr = l.addr)
        THEN cfg.name ELSE HostsName[l.addr]

UpdateFromConfigs ==
    /\ pc = "configs"
    /\ \E l \in {x \in db.leases : x.addr \in todo} :
          /\ todo' = todo \ {l.addr}
          /\ db' = IF ConfiguredName(l) = NoName THEN db
                   ELSE lease_set_hostname([lease |-> l, db |-> db],
                                           ConfiguredName(l), TRUE).db
    /\ UNCHANGED <<declined, pc, job, reply, alarm, rung, dns, file, now, held,
                   faulty, counters>>

ConfigsDone ==
    /\ pc = "configs" /\ todo = {}
    /\ pc' = "update"
    /\ UNCHANGED <<db, declined, job, reply, alarm, rung, dns, file, todo, now,
                   held, faulty, counters>>

(* dhcp_packet up to lease_update_file.                                    *)
Recv(m) ==
    /\ pc = "idle"
    /\ \E o \in dhcp_reply(lease_prune(db, {}, now), m) :
          db' = o.db /\ declined' = o.declined /\ reply' = o.reply
    /\ held' = {g \in held : ~Disowns(m, g)}
    /\ pc' = "update" /\ job' = "packet"
    /\ UNCHANGED <<alarm, rung, dns, file, todo, now, faulty, counters>>

(* SIGALRM arrives and sig_handler puts EVENT_ALARM in the pipe.           *)
Due == alarm # 0 /\ now >= alarm

Ring ==
    /\ Due
    /\ alarm' = 0 /\ rung' = TRUE
    /\ UNCHANGED <<db, declined, pc, job, reply, dns, file, todo, now, held,
                   faulty, counters>>

(* Seeded fault: EVENT_ALARM only rewrites the file.                       *)
AlarmNoPrune ==
    /\ pc = "idle" /\ rung
    /\ rung' = FALSE
    /\ pc' = "update" /\ job' = "alarm"
    /\ UNCHANGED <<db, declined, reply, alarm, dns, file, todo, now, held,
                   faulty, counters>>

(* EVENT_ALARM prunes and writes, but leaves the name cache as it is.      *)
AlarmEvent ==
    /\ pc = "idle" /\ rung
    /\ db' = lease_prune(db, {}, now)
    /\ rung' = FALSE
    /\ pc' = "update" /\ job' = "alarm"
    /\ UNCHANGED <<declined, reply, alarm, dns, file, todo, now, held, faulty,
                   counters>>

-----------------------------------------------------------------------------
(* Seeded fault: no retry after a failed rewrite.                          *)
NextAlarmNoRetry(err) ==
    LET next == NextExpiry(db, Grace)
    IN  IF next = 0 THEN alarm ELSE IF next > now THEN next ELSE 0

(* The end of lease_update_file: alarm(difftime(next_event, now)), where   *)
(* alarm(0) cancels the alarm that is set, and a negative difference is    *)
(* outside unsigned (0, or an alarm decades away: neither will ring).      *)
NextAlarm(err) ==
    LET exp  == NextExpiry(db, Grace)
        next == IF err /\ (exp = 0 \/ exp > now + LeaseRetry)
                THEN now + LeaseRetry ELSE exp
    IN  IF next = 0 THEN alarm ELSE IF next > now THEN next ELSE 0

(* Seeded fault: the reply goes out although the file is out of date.      *)
FileLazy ==
    /\ pc = "update"
    /\ alarm' = NextAlarm(FALSE)
    /\ pc' = "send"
    /\ UNCHANGED <<db, declined, job, reply, rung, dns, file, todo, now,
                   held, faulty, counters>>

(* lease_update_file: nothing to write.                                    *)
FileClean ==
    /\ pc = "update" /\ ~db.file_dirty
    /\ alarm' = NextAlarm(FALSE)
    /\ pc' = "send"
    /\ UNCHANGED <<db, declined, job, reply, rung, dns, file, todo, now,
                   held, faulty, counters>>

(* lease_update_file: rewind and ftruncate.  The old contents are gone.    *)
Truncate ==
    /\ pc = "update" /\ db.file_dirty
    /\ file' = {}
    /\ pc' = "rewrite"
    /\ UNCHANGED <<db, declined, job, reply, alarm, rung, dns, todo, now,
                   held, faulty, counters>>

(* lease_update_file: rewind or ftruncate failed, and ourprintf writes     *)
(* nothing after an error.  The old contents stay.                         *)
TruncateErr ==
    /\ pc = "update" /\ db.file_dirty /\ writeErrs < MaxWriteErrs
    /\ alarm' = NextAlarm(TRUE)
    /\ pc' = "send" /\ faulty' = TRUE
    /\ writeErrs' = writeErrs + 1
    /\ UNCHANGED <<db, declined, job, reply, rung, dns, file, todo, now, held,
                   crashes, reloads>>

(* lease_update_file: every lease written, flushed and synced.             *)
WriteOk ==
    /\ pc = "rewrite"
    /\ file' = Stored(db.leases)
    /\ db' = [db EXCEPT !.file_dirty = FALSE]
    /\ alarm' = NextAlarm(FALSE)
    /\ pc' = "send"
    /\ UNCHANGED <<declined, job, reply, rung, dns, todo, now, held, faulty,
                   counters>>

(* Seeded fault: file_dirty is reset whether the rewrite failed or not.    *)
WriteErrForgotten ==
    /\ pc = "rewrite" /\ writeErrs < MaxWriteErrs
    /\ \E part \in SUBSET Stored(db.leases) : file' = part
    /\ db' = [db EXCEPT !.file_dirty = FALSE]
    /\ alarm' = NextAlarm(TRUE)
    /\ pc' = "send" /\ faulty' = TRUE
    /\ writeErrs' = writeErrs + 1
    /\ UNCHANGED <<declined, job, reply, rung, dns, todo, now, held, crashes,
                   reloads>>

(* lease_update_file: some write, the flush or the sync failed.            *)
WriteErr ==
    /\ pc = "rewrite" /\ writeErrs < MaxWriteErrs
    /\ \E part \in SUBSET Stored(db.leases) : file' = part
    /\ alarm' = NextAlarm(TRUE)
    /\ pc' = "send" /\ faulty' = TRUE
    /\ writeErrs' = writeErrs + 1
    /\ UNCHANGED <<db, declined, job, reply, rung, dns, todo, now, held, crashes,
                   reloads>>

(* lease_update_dns, except after an alarm, then sendmsg.                  *)
Finish ==
    /\ pc = "send"
    /\ IF job # "alarm" /\ db.dns_dirty
       THEN dns' = DnsView(db) /\ db' = [db EXCEPT !.dns_dirty = FALSE]
       ELSE UNCHANGED <<dns, db>>
    /\ held' = IF Granted(reply)
               THEN {g \in held : ~Replaces(reply, g)} \cup {GrantOf(reply)}
               ELSE held
    /\ reply' = NoReply /\ pc' = "idle"
    /\ UNCHANGED <<declined, job, alarm, rung, file, todo, now, faulty, counters>>

(* The process dies: what is in memory is lost, and in the middle of a     *)
(* rewrite the file is left with what had been flushed so far.             *)
Crash ==
    /\ pc # "down" /\ crashes < MaxCrashes
    /\ IF pc = "rewrite" THEN \E part \in SUBSET Stored(db.leases) : file' = part
                         ELSE file' = file
    /\ faulty' = (faulty \/ pc = "rewrite")
    /\ pc' = "down" /\ db' = EmptyDb /\ declined' = [c \in Configs |-> 0]
    /\ reply' = NoReply /\ alarm' = 0 /\ rung' = FALSE
    /\ dns' = {} /\ todo' = {}
    /\ crashes' = crashes + 1
    /\ UNCHANGED <<job, now, held, writeErrs, reloads>>

(* Time passes between events: the loop samples now once per iteration.    *)
(* A timer rings within its second.  A grant that has run out is no longer *)
(* held.                                                                   *)
Tick ==
    /\ now < MaxTime /\ pc \in {"idle", "down"} /\ ~Due
    /\ now' = now + 1
    /\ held' = {g \in held : g.until = 0 \/ g.until > now}
    /\ UNCHANGED <<db, declined, pc, job, reply, alarm, rung, dns, file, todo,
                   faulty, counters>>

Server ==
    \/ Restart \/ Reload \/ UpdateFromConfigs \/ ConfigsDone \/ Ring \/ AlarmEvent
    \/ FileClean \/ Truncate \/ TruncateErr \/ WriteOk \/ WriteErr
    \/ Finish \/ Crash

Next == Server \/ Tick \/ \E m \in Messages : Recv(m)

Spec == Init /\ [][Next]_vars
-----------------------------------------------------------------------------
(* Type correctness.                                                       *)
TypeOK ==
    /\ db \in Db
    /\ declined \in [Configs -> Nat]
    /\ pc \in PC /\ job \in {"packet", "alarm", "reload"}
    /\ reply \in Reply \cup {NoReply}
    /\ alarm \in Nat /\ rung \in BOOLEAN /\ now \in Nat \ {0}
    /\ dns \subseteq [name : Names, addr : Addr]
    /\ file \subseteq Lease /\ todo \subseteq Addr
    /\ held \subseteq [hw : HW, clid : ClId \cup {NoClid}, addr : Addr,
                       until : Nat]
    /\ faulty \in BOOLEAN
    /\ crashes \in Nat /\ writeErrs \in Nat /\ reloads \in Nat

(* No address is in two leases, whatever clients ask for in whatever order *)
(* (lease_allocate does not look: dhcp_reply and lease_init have to).      *)
UniqueAddress ==
    \A l1, l2 \in db.leases : l1.addr = l2.addr => l1 = l2

(* No client identifier has two leases: a client that changes address,     *)
(* hardware or boot stage never leaves a second lease behind.              *)
UniqueClient ==
    \A l1, l2 \in db.leases :
        l1.clid = l2.clid /\ l1.clid # NoClid => l1 = l2

(* No host name belongs to two leases (lease_set_hostname takes it away).  *)
UniqueName ==
    \A l1, l2 \in db.leases :
        l1.name = l2.name /\ l1.name # NoName => l1 = l2

(* leases_left, which is counted up and down in lease_prune and            *)
(* lease_allocate, is what is left of dhcp_max, and never goes negative.   *)
QuotaExact ==
    pc # "down" => /\ db.leases_left = DhcpMax - Cardinality(db.leases)
                   /\ db.leases_left >= 0

(* "dnsmasq tries very hard to keep the on-disk leases file up-to-date"    *)
(* (config.h): between events, when file_dirty is not set, the file holds  *)
(* exactly the leases in memory.                                           *)
FileCurrent ==
    pc = "idle" /\ ~db.file_dirty => file = Stored(db.leases)

(* Between events, when dns_dirty is not set, the name cache holds exactly *)
(* the named leases.                                                       *)
DnsCurrent ==
    pc = "idle" /\ ~db.dns_dirty => dns = DnsView(db)

(* A client that was sent an ACK keeps its address to itself until the     *)
(* lease runs out or it gives it up: no one else is granted the address,   *)
(* even across crashes and restarts of the server, unless the lease file   *)
(* could not be written or a crash fell inside its rewrite.                *)
GrantExclusive ==
    ~faulty => \A g1, g2 \in held : g1.addr = g2.addr => g1 = g2

(* The server never forgets a grant: while a client holds an address, the  *)
(* server that is up has a lease of it that runs at least as long.         *)
GrantBacked ==
    ~faulty /\ pc = "idle" =>
        \A g \in held : \E l \in db.leases :
            /\ l.addr = g.addr
            /\ l.expires = 0 \/ (g.until # 0 /\ l.expires >= g.until)

(* A name that a lease has on authority (a dhcp-host line, /etc/hosts) is  *)
(* not moved to another lease on a client's word while that lease lasts.   *)
AuthNameKept ==
    [][\A l \in db.leases, k \in db'.leases :
         (/\ l.auth /\ l.name # NoName
          /\ k.name = l.name /\ k.addr # l.addr
          /\ \E j \in db'.leases : j.addr = l.addr)
         => k.auth]_vars

(* A failed rewrite is tried again: whenever the file is out of date       *)
(* between events an alarm is set, at most LEASE_RETRY away ("failed to    *)
(* write %s: %s (retry in %us)").                                          *)
RetryArmed ==
    pc = "idle" /\ db.file_dirty =>
        rung \/ (alarm # 0 /\ alarm <= now + LeaseRetry)

(* An expired lease is dropped without waiting for a packet: once Grace    *)
(* has passed since its expiry it goes, or the server goes down.           *)
Overdue == \E l \in db.leases : l.expires # 0 /\ now > l.expires + Grace

ExpiryHandled == Overdue ~> ~Overdue

Fairness ==
    /\ WF_vars(Ring) /\ WF_vars(AlarmEvent)
    /\ WF_vars(UpdateFromConfigs \/ ConfigsDone)
    /\ WF_vars(FileClean \/ Truncate \/ TruncateErr \/ WriteOk \/ WriteErr)
    /\ WF_vars(Finish)

FairSpec == Spec /\ Fairness
-----------------------------------------------------------------------------
(* The clients of the messages.  A lease is that of the hosts whose        *)
(* clients lease_find_by_client may find it for.                           *)
Senders == {[hw |-> m.hw, clid |-> m.clid] : m \in Messages}

Claims(x, l) == x.hw = l.hw \/ (x.clid # NoClid /\ x.clid = l.clid)

HostOf(w) == {x \in Senders : SameHost(x, w)}

OwnerOf(l) == UNION {HostOf(x) : x \in {y \in Senders : Claims(y, l)}}

(* The file, which ftruncate sets to what is about to be written: a crash  *)
(* from there to the end of the rewrite damages it.                        *)
Durable == IF pc = "rewrite" THEN db.leases ELSE file

Entry(l) == [addr |-> l.addr, host |-> OwnerOf(l), ends |-> l.expires]

Table(S) == {Entry(l) : l \in S}

Trust(g) == [addr |-> g.addr, host |-> HostOf(g), until |-> g.until]

Trusts(G) == {Trust(g) : g \in G}

Service == INSTANCE LeaseService WITH
    table <- Table(Durable), grants <- Trusts(held), time <- now, sound <- ~faulty

(* The server implements a lease service.  Nobody is told of a lease that  *)
(* a crash would undo, an event changes one host's leases only, and        *)
(* crashes, restarts, signals and retries are invisible, until a rewrite   *)
(* fails or is torn.                                                       *)
KeepsService == Service!ServiceSpec
=============================================================================
