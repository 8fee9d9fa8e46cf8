----------------------------- MODULE DhcpClient -----------------------------
(***************************************************************************)
(* The DHCP client of libnetutils (src/system/core/libnetutils): do_dhcp   *)
(* and the loop of dhcp_init_ifc, one instance per device on the link, and *)
(* the broadcast link they use.  A client is known by its hardware         *)
(* address.                                                                *)
(*                                                                         *)
(* Every reply is broadcast (dhcpmsg.c sets FLAGS_BROADCAST), and          *)
(* receive_packet filters on the UDP port alone, so every client sees      *)
(* every reply.  The loop decodes a packet into `info` before it asks      *)
(* whether the packet is a valid answer to what it sent.                   *)
(***************************************************************************)
EXTENDS Integers, FiniteSets

CONSTANTS
    Client,         \* the devices, by hardware address
    Zero,           \* the address 0.0.0.0
    NoConf,         \* interface not configured
    TimeoutInitial, \* TIMEOUT_INITIAL, in seconds
    TimeoutMax,     \* TIMEOUT_MAX, in seconds
    StartXid,       \* get_msecs() when each client starts
    MaxIoErrs       \* bound on socket errors over all clients

(* Doubling the timeout leads from the first to the longest one, which is  *)
(* not jumped over (4, 8, 16 and 32 s in the code).                        *)
ASSUME TimeoutAssumption ==
    \E T \in SUBSET (TimeoutInitial..TimeoutMax) :
        /\ TimeoutInitial \in T
        /\ \A t \in T : t < TimeoutMax => 2 * t \in T

VARIABLES
    cstate,    \* client |-> "off", "selecting", "requesting", "returned"
    timeout,   \* client |-> the current poll timeout
    xid,       \* client |-> the transaction id in use
    info,      \* client |-> the dhcp_info that dhcp_init_ifc works with
    conf,      \* client |-> what dhcp_configure gave the interface, or NoConf
    sock,      \* client |-> "closed", "open", or "bad" (open failed)
    ioErrs,    \* socket errors so far
    toServer,  \* messages on their way to the server
    inbox      \* client |-> replies on their way to it

clientVars == <<cstate, timeout, xid, info, conf, sock, ioErrs>>

(* info before the first packet: its type is 0 and the rest is not read    *)
(* before a packet has been decoded.  The field to is history: the         *)
(* hardware address that the packet was meant for.                         *)
NoInfo == [type |-> "none", ipaddr |-> Zero, serveraddr |-> Zero, until |-> 0,
           to |-> Zero]

(* What init_dhcp_discover_msg and init_dhcp_request_msg ask for: the      *)
(* transmit label picks one by the state.                                  *)
Transmission(c, state, x, inf) ==
    IF state = "selecting"
    THEN [type |-> "DISCOVER", hw |-> c, xid |-> x]
    ELSE [type |-> "REQUEST", hw |-> c, xid |-> x,
          req |-> inf.ipaddr, sid |-> inf.serveraddr]

(* decode_dhcp_msg: info is cleared, then filled from the packet.          *)
decode_dhcp_msg(p) ==
    [type |-> p.type, ipaddr |-> p.yiaddr, serveraddr |-> p.sid,
     until |-> p.until, to |-> p.hw]

(* Seeded fault: the hardware address of the reply is not compared.        *)
valid_xid_only(c, p) == p.xid = xid[c]

(* is_valid_reply: the transaction id and hardware address of the message  *)
(* that was sent last.                                                     *)
is_valid_reply(c, p) == p.xid = xid[c] /\ p.hw = c

ClientInit ==
    /\ cstate = [c \in Client |-> "off"]
    /\ timeout = [c \in Client |-> TimeoutInitial]
    /\ xid = [c \in Client |-> StartXid[c]]
    /\ info = [c \in Client |-> NoInfo]
    /\ conf = [c \in Client |-> NoConf]
    /\ sock = [c \in Client |-> "closed"]
    /\ ioErrs = 0
    /\ toServer = {} /\ inbox = [c \in Client |-> {}]

Running(c) == cstate[c] \in {"selecting", "requesting"}

(* send_message: nothing leaves through a socket that failed to open.      *)
Send(c, msg) ==
    toServer' = IF sock'[c] = "open" THEN toServer \cup {msg} ELSE toServer

(* do_dhcp, and dhcp_init_ifc up to its first DISCOVER.  open_raw_socket's *)
(* failure is not looked at: the loop runs on a bad descriptor.            *)
Start(c) ==
    /\ cstate[c] = "off"
    /\ \/ sock' = [sock EXCEPT ![c] = "open"] /\ UNCHANGED ioErrs
       \/ /\ ioErrs < MaxIoErrs /\ ioErrs' = ioErrs + 1
          /\ sock' = [sock EXCEPT ![c] = "bad"]
    /\ cstate' = [cstate EXCEPT ![c] = "selecting"]
    /\ Send(c, Transmission(c, "selecting", xid[c], info[c]))
    /\ UNCHANGED <<timeout, xid, info, conf, inbox>>

(* ifc_set_addr, ifc_up, ifc_get_hwaddr or ifc_get_ifindex failed.         *)
StartFails(c) ==
    /\ cstate[c] = "off"
    /\ ioErrs < MaxIoErrs /\ ioErrs' = ioErrs + 1
    /\ cstate' = [cstate EXCEPT ![c] = "returned"]
    /\ UNCHANGED <<timeout, xid, info, conf, sock, toServer, inbox>>

(* poll returns 0.  At the longest timeout the client gives up, or settles *)
(* for the offer it finds in info, whose socket is then left open.         *)
GiveUp(c) ==
    /\ Running(c) /\ timeout[c] >= TimeoutMax
    /\ cstate' = [cstate EXCEPT ![c] = "returned"]
    /\ IF info[c].type = "OFFER"
       THEN /\ conf' = [conf EXCEPT ![c] = [addr |-> info[c].ipaddr,
                                            by |-> "OFFER",
                                            until |-> info[c].until,
                                            to |-> info[c].to]]
            /\ UNCHANGED sock
       ELSE sock' = [sock EXCEPT ![c] = "closed"] /\ UNCHANGED conf
    /\ UNCHANGED <<timeout, xid, info, ioErrs, toServer>>
    /\ inbox' = [inbox EXCEPT ![c] = {}]

(* Seeded fault: the timeout never grows.                                   *)
RetransmitForever(c) ==
    /\ Running(c) /\ timeout[c] < TimeoutMax
    /\ UNCHANGED <<cstate, timeout, xid, info, conf, sock, ioErrs, inbox>>
    /\ Send(c, Transmission(c, cstate[c], xid[c], info[c]))

(* poll returns 0 earlier: double the timeout and send again, from info.   *)
Retransmit(c) ==
    /\ Running(c) /\ timeout[c] < TimeoutMax
    /\ timeout' = [timeout EXCEPT ![c] = 2 * @]
    /\ UNCHANGED <<cstate, xid, info, conf, sock, ioErrs, inbox>>
    /\ Send(c, Transmission(c, cstate[c], xid[c], info[c]))

(* poll or read fails for good: the function returns, the socket stays.    *)
IoError(c) ==
    /\ Running(c) /\ sock[c] = "open"
    /\ ioErrs < MaxIoErrs /\ ioErrs' = ioErrs + 1
    /\ cstate' = [cstate EXCEPT ![c] = "returned"]
    /\ UNCHANGED <<timeout, xid, info, conf, sock, toServer>>
    /\ inbox' = [inbox EXCEPT ![c] = {}]

(* A packet arrives.  It is decoded into info whatever it is.              *)
Decode(c, p) ==
    /\ Running(c) /\ sock[c] = "open" /\ p \in inbox[c]
    /\ info' = [info EXCEPT ![c] = decode_dhcp_msg(p)]
    /\ UNCHANGED ioErrs

TakeOffer(c, p) ==
    /\ Decode(c, p)
    /\ cstate[c] = "selecting" /\ is_valid_reply(c, p) /\ p.type = "OFFER"
    /\ cstate' = [cstate EXCEPT ![c] = "requesting"]
    /\ timeout' = [timeout EXCEPT ![c] = TimeoutInitial]
    /\ xid' = [xid EXCEPT ![c] = @ + 1]
    /\ UNCHANGED <<conf, sock>>
    /\ Send(c, Transmission(c, "requesting", xid'[c], info'[c]))

TakeAck(c, p) ==
    /\ Decode(c, p)
    /\ cstate[c] = "requesting" /\ is_valid_reply(c, p) /\ p.type = "ACK"
    /\ cstate' = [cstate EXCEPT ![c] = "returned"]
    /\ sock' = [sock EXCEPT ![c] = "closed"]
    /\ conf' = [conf EXCEPT ![c] = [addr |-> p.yiaddr, by |-> "ACK",
                                    until |-> p.until, to |-> p.hw]]
    /\ UNCHANGED <<timeout, xid, toServer>>

TakeNak(c, p) ==
    /\ Decode(c, p)
    /\ cstate[c] = "requesting" /\ is_valid_reply(c, p) /\ p.type = "NAK"
    /\ cstate' = [cstate EXCEPT ![c] = "returned"]
    /\ sock' = [sock EXCEPT ![c] = "closed"]
    /\ UNCHANGED <<timeout, xid, conf, toServer>>

(* Not an answer, or not one this state waits for: nothing else happens.   *)
Awaited(c) == IF cstate[c] = "selecting" THEN {"OFFER"} ELSE {"ACK", "NAK"}

Ignore(c, p) ==
    /\ Decode(c, p)
    /\ ~(is_valid_reply(c, p) /\ p.type \in Awaited(c))
    /\ UNCHANGED <<cstate, timeout, xid, conf, sock, toServer>>

Take(c, p) == TakeOffer(c, p) \/ TakeAck(c, p) \/ TakeNak(c, p) \/ Ignore(c, p)
=============================================================================
