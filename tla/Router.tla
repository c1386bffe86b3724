------------------------------- MODULE Router -------------------------------
(***************************************************************************)
(* The forwarding engine (sr_router.c with the packet rewriting of sr_ip.c *)
(* and the main loop of sr_main.c): the ARP cache and the packet buffer    *)
(* composed by the handlers that use both.                                 *)
(*                                                                         *)
(* The router has one thread.  It starts with the ARP scan that the        *)
(* hardware information triggers, then for ever reads one message from the *)
(* server, handles it, and sweeps the ARP cache.  pc is where that thread  *)
(* is; time may pass between any two of its steps.  An IP packet is        *)
(* rewritten when it is read, then the resend loop walks the buffer one    *)
(* item per step, then the packet itself is sent: an ARP reply does the    *)
(* same with no packet of its own.                                         *)
(***************************************************************************)
EXTENDS ArpCache, PacketBuffer

CONSTANTS Ip,           \* addresses of packets
          Routes,       \* number of routing table entries; entry 1 is first
          RouteOf,      \* sr_rt_find: the entry of each address
          Gateway,      \* gateway of each entry, an ARP address
          Interface,    \* interface of each entry
          OwnIp,        \* IP of each interface
          OurSubnet,    \* addresses that pass the subnet test
          Flow,         \* <<source, destination>> pairs the network sends
          Reply         \* <<address, MAC, interface>> of the ARP replies heard

Route == 1..Routes

ASSUME RoutesAssumption ==
    /\ Routes \in Nat \ {0}
    /\ RouteOf \in [Ip -> Route]
    /\ Gateway \in [Route -> Address]
    /\ Interface \in [Route -> Iface]
    /\ OwnIp \in [Iface -> Ip]
ASSUME InputsAssumption ==
    /\ Flow \subseteq Ip \X Ip
    /\ Reply \subseteq Address \X Mac \X Iface
ASSUME PacketAssumption ==
    Packet = [src : Ip, dst : Ip]

VARIABLES pc,       \* what the thread does next
          route,    \* the entry the scan is at
          cur,      \* the resend loop's item
          hand,     \* the packet being handled, or NoPacket
          wire,     \* the frame the last step gave to the server, or NoFrame
          ifidx     \* sr_rt.ifidx of each entry

routerVars == <<arpVars, bufVars, fault, pc, route, cur, hand, wire, ifidx>>

\* What becomes of a frame: it is written, it may not leave, or the write fails.
Fate == {"none", "sent", "refused", "unwritten"}
NoFrame == [gw |-> NoIp, bounced |-> FALSE, fate |-> "none"]

Own == {OwnIp[i] : i \in Iface}

\* What the IP header says of the upper protocol, as the handlers tell it.
Proto == {"echo request", "traceroute", "other icmp", "tcp or udp", "unknown"}

-----------------------------------------------------------------------------
(* sr_ip.c: the packet a handler leaves to be sent.                         *)

\* The packet turned into an ICMP message from its destination to its source.
sr_ip_reverse(p) == [src |-> p.dst, dst |-> p.src]

\* sr_add_rt_entry sets ifidx for the first entry only, so the others index
\* sr->interfaces with whatever the allocator left there: NoIface stands for
\* an index with no interface.
UnreachableFaults(p) ==
    p.dst \notin Own /\ ifidx[RouteOf[p.dst]] = NoIface

\* An error is sent from the destination if it is ours, and else from the
\* interface the route's ifidx names.
sr_icmp_unreachable(p) ==
    sr_ip_reverse(IF p.dst \in Own THEN p
                  ELSE [p EXCEPT !.dst = OwnIp[ifidx[RouteOf[p.dst]]]])

-----------------------------------------------------------------------------
(* sr_router.c: sending.                                                    *)

GatewayOf(p) == Gateway[RouteOf[p.dst]]
\* Mutant: every packet leaves on the interface of the first entry.
InterfaceOfFirst(p) == Interface[1]

InterfaceOf(p) == Interface[RouteOf[p.dst]]
SlotOf(p) == sr_arp_get(GatewayOf(p))

\* The state of the entry sr_router_send finds for a packet.
Lookup(p) ==
    LET s == SlotOf(p)
    IN  CASE s = SPIN -> "spin"
          [] s = NULL -> "null"
          [] s \in Index /\ arp_table[s].ip = NoIp -> "absent"
          [] s \in Index /\ arp_table[s].ip # NoIp ->
               IF Dead(s) THEN "dead"
               ELSE IF arp_table[s].tries > 0 THEN "pending" ELSE "good"

Stop(function) ==
    /\ StopIn(function)
    /\ wire' = NoFrame
    /\ asked' = {}
    /\ UNCHANGED <<arp_table, sinceCheck, bufVars>>

\* The entry's interface pointer is null.
Faceless(p) == arp_table[SlotOf(p)].iface = NoIface

\* A frame may leave on an interface only with that interface's MAC as source.
sr_ether_addrs_match_interface(source, name) == source = name

\* A frame that may leave is written, or the write fails or is short.
sr_send_packet(gw, bounced, source, name) ==
    \E fate \in IF sr_ether_addrs_match_interface(source, name)
                THEN {"sent", "unwritten"} ELSE {"refused"} :
        wire' = [gw |-> gw, bounced |-> bounced, fate |-> fate]

\* The frame takes its source MAC from the entry's interface and leaves on the
\* route's; sr_router_send reports success whatever became of it.
Transmit(p, bounced) ==
    LET s == SlotOf(p)
    IN  /\ ~ Faceless(p)
        /\ Proceed
        /\ sr_send_packet(GatewayOf(p), bounced, arp_table[s].iface, InterfaceOf(p))
        /\ asked' = {}
        /\ UNCHANGED <<arp_table, sinceCheck>>

\* sr_router_send returns 0: the packet is, or stays, in the buffer.  An
\* absent entry is asked for after the packet was saved.
Keep(h) ==
    /\ wire' = NoFrame
    /\ sr_buffer_add(h)
    /\ \/ /\ Lookup(h.pkt) = "absent" /\ (h.buffered \/ FreeSlots # {})
          /\ sr_arp_refresh(GatewayOf(h.pkt), InterfaceOf(h.pkt))
       \/ /\ \/ Lookup(h.pkt) = "pending"
             \/ Lookup(h.pkt) = "absent" /\ ~ h.buffered /\ FreeSlots = {}
          /\ asked' = {}
          /\ UNCHANGED <<arp_table, sinceCheck>>

\* sr_router_send returns 1: the packet is sent or lost, or it is turned into an
\* error because its link is dead and the error is sent, lost or dropped.  The error goes
\* out whatever the state of its own entry, unless that is dead too.
Release(p) ==
    \/ Lookup(p) = "good" /\ Transmit(p, FALSE)
    \/ /\ Lookup(p) = "dead" /\ ~ UnreachableFaults(p)
       /\ LET e == sr_icmp_unreachable(p)
          IN  \/ Lookup(e) \in {"absent", "pending", "good"} /\ Transmit(e, TRUE)
              \/ /\ Lookup(e) = "dead"
                 /\ Proceed
                 /\ wire' = NoFrame
                 /\ asked' = {}
                 /\ UNCHANGED <<arp_table, sinceCheck>>

\* The ways sr_router_send stops the router.
SendFaults(p) ==
    \/ Lookup(p) = "spin" /\ Stop("sr_arp_get")
    \/ Lookup(p) = "null" /\ Stop("sr_router_send")
    \/ Lookup(p) = "good" /\ Faceless(p) /\ Stop("sr_router_send")
    \/ /\ Lookup(p) = "dead" /\ UnreachableFaults(p)
       /\ Stop("sr_icmp_unreachable")
    \/ /\ Lookup(p) = "dead" /\ ~ UnreachableFaults(p)
       /\ LET e == sr_icmp_unreachable(p)
          IN  \/ Lookup(e) = "spin" /\ Stop("sr_arp_get")
              \/ Lookup(e) = "null" /\ Stop("sr_router_send")
              \/ /\ Lookup(e) \in {"absent", "pending", "good"}
                 /\ Faceless(e)
                 /\ Stop("sr_router_send")

-----------------------------------------------------------------------------
(* The main loop.                                                           *)

\* The first entry of the routing table gets its interface's index.
FirstIfidx == {f \in [Route -> Iface \cup {NoIface}] : f[1] = Interface[1]}

RouterInit ==
    /\ ArpClear
    /\ sr_buffer_clear
    /\ fault = NoFault
    /\ pc = "scan"
    /\ route = 1
    /\ cur = Null
    /\ hand = NoPacket
    /\ wire = NoFrame
    /\ ifidx \in FirstIfidx

\* Mutant: the scan leaves out the last entry.
ScanShort ==
    /\ Running /\ pc = "scan"
    /\ sr_arp_refresh(Gateway[route], Interface[route])
    /\ wire' = NoFrame
    /\ IF route + 1 < Routes THEN route' = route + 1 /\ pc' = pc
       ELSE route' = 1 /\ pc' = "sweep"
    /\ UNCHANGED <<bufVars, cur, hand, ifidx>>

\* sr_arp_scan: ask for the gateway of every route.
ScanStep ==
    /\ Running /\ pc = "scan"
    /\ sr_arp_refresh(Gateway[route], Interface[route])
    /\ wire' = NoFrame
    /\ IF route < Routes THEN route' = route + 1 /\ pc' = pc
       ELSE route' = 1 /\ pc' = "sweep"
    /\ UNCHANGED <<bufVars, cur, hand, ifidx>>

\* The resend loop is entered at the oldest item; with nothing left to walk
\* the packet in hand is sent, if there is one.
AfterResend(h) == IF h = NoPacket THEN "sweep" ELSE "send"

\* Mutant: the loop is entered at the other end of the list.
EnterAtEnd(h) ==
    /\ hand' = h
    /\ cur' = end
    /\ pc' = IF start = Null THEN AfterResend(h) ELSE "resend"

EnterResend(h) ==
    /\ hand' = h
    /\ cur' = start
    /\ pc' = IF start = Null THEN AfterResend(h) ELSE "resend"

\* The message needs nothing more of the router.
Handled ==
    /\ Proceed
    /\ pc' = "sweep"
    /\ asked' = {}
    /\ wire' = NoFrame
    /\ UNCHANGED <<arp_table, sinceCheck, bufVars, route, cur, hand, ifidx>>

\* A packet is left to be sent.
ToSend(p) ==
    /\ Proceed
    /\ EnterResend(p)
    /\ asked' = {}
    /\ wire' = NoFrame
    /\ UNCHANGED <<arp_table, sinceCheck, bufVars, route, ifidx>>

MessageFaults(function) ==
    /\ Stop(function)
    /\ UNCHANGED <<pc, route, cur, hand, ifidx>>

\* Answer p with an error message.
Unreachable(p) ==
    \/ UnreachableFaults(p) /\ MessageFaults("sr_icmp_unreachable")
    \/ ~ UnreachableFaults(p) /\ ToSend(sr_icmp_unreachable(p))

\* sr_icmp_handler.  An echo request is answered whoever it is for; a
\* traceroute request reads the speed of the interface it was sent to, which
\* does not exist if it was not for us.
IcmpHandler(p, proto) ==
    \/ proto = "echo request" /\ ToSend(sr_ip_reverse(p))
    \/ proto = "traceroute" /\ p.dst \in Own /\ ToSend(sr_ip_reverse(p))
    \/ proto = "traceroute" /\ p.dst \notin Own /\ MessageFaults("sr_icmp_handler")
    \/ proto = "other icmp" /\ p.dst \in Own /\ Handled
    \/ proto = "other icmp" /\ p.dst \notin Own /\ ToSend(p)

IsIcmp(proto) == proto \in {"echo request", "traceroute", "other icmp"}

\* The IP half of sr_handlepacket.
ReceiveIp(p, proto, ttlLeft, checksumOk) ==
    /\ Running /\ pc = "idle"
    /\ IF {p.src, p.dst} \cap OurSubnet = {} \/ ~ checksumOk THEN Handled
       ELSE IF ~ ttlLeft THEN Unreachable(p)
       ELSE IF IsIcmp(proto) THEN IcmpHandler(p, proto)
       ELSE IF p.dst \in Own THEN Unreachable(p)
       ELSE IF proto = "tcp or udp" THEN ToSend(p)
       ELSE Handled

\* An ARP reply is learnt, then the backlog is tried.
ReceiveArpReply(ip, mac, iface) ==
    /\ Running /\ pc = "idle"
    /\ sr_arp_set(ip, mac, iface)
    /\ EnterResend(NoPacket)
    /\ wire' = NoFrame
    /\ UNCHANGED <<bufVars, route, ifidx>>

\* Anything else: an ARP request, which is answered or ignored, a banner, an
\* unknown ethernet type.
ReceiveOther == Running /\ pc = "idle" /\ Handled

\* Mutant: the item itself, whatever became of it.
NextSelf(i) == i

\* Mutant: read after the item is freed.
NextLate(i) == items'[i].next

\* Mutant: the loop starts again while packets are left.
NextRound(i) == IF items[i].next = Null THEN start' ELSE items[i].next

\* Mutant: the loop starts again when an item is freed.
NextAgain(i) == IF items'[i].buffered THEN items[i].next ELSE start'

\* Where the loop goes after item i, read before the item is sent.
NextItem(i) == items[i].next

\* One turn of the resend loop.
ResendStep ==
    LET p == items[cur].pkt
        next == NextItem(cur)
    IN  /\ Running /\ pc = "resend"
        /\ \/ /\ TooOld(cur)
              /\ Proceed
              /\ sr_buffer_remove(cur)
              /\ wire' = NoFrame
              /\ asked' = {}
              /\ UNCHANGED <<arp_table, sinceCheck>>
           \/ ~ TooOld(cur) /\ Release(p) /\ sr_buffer_remove(cur)
           \/ ~ TooOld(cur) /\ Keep(items[cur])
           \/ ~ TooOld(cur) /\ SendFaults(p)
        /\ cur' = next
        /\ pc' = IF next = Null THEN AfterResend(hand) ELSE "resend"
        /\ UNCHANGED <<route, hand, ifidx>>

\* Send the packet in hand.
SendStep ==
    /\ Running /\ pc = "send"
    /\ \/ Release(hand) /\ UNCHANGED bufVars
       \/ Keep(Fresh(hand))
       \/ SendFaults(hand)
    /\ hand' = NoPacket
    /\ pc' = "sweep"
    /\ UNCHANGED <<route, cur, ifidx>>

\* The main loop calls sr_arp_check_refresh after every message.
SweepStep ==
    /\ Running /\ pc = "sweep"
    /\ sr_arp_check_refresh
    /\ pc' = "idle"
    /\ wire' = NoFrame
    /\ UNCHANGED <<bufVars, route, cur, hand, ifidx>>

\* A second passes, whatever the thread is doing.
Tick ==
    /\ Running /\ Proceed
    /\ AgeEntries
    /\ AgePackets
    /\ wire' = NoFrame
    /\ UNCHANGED <<pc, route, cur, hand, ifidx>>

ReceiveIpAny ==
    \E f \in Flow, proto \in Proto, ttlLeft, checksumOk \in BOOLEAN :
        ReceiveIp([src |-> f[1], dst |-> f[2]], proto, ttlLeft, checksumOk)

ReceiveArpReplyAny == \E r \in Reply : ReceiveArpReply(r[1], r[2], r[3])

Receive == ReceiveIpAny \/ ReceiveArpReplyAny \/ ReceiveOther

Handler == ScanStep \/ ResendStep \/ SendStep \/ SweepStep

RouterNext == Receive \/ Handler \/ Tick

RouterSpec == RouterInit /\ [][RouterNext]_routerVars

\* The thread runs.  No message is owed by the network, and no second has to
\* pass: what needs either says so.
RouterFairness == WF_routerVars(Handler)

RouterFairSpec == RouterSpec /\ RouterFairness

-----------------------------------------------------------------------------
\* Every variable keeps its type.
RouterTypeOK ==
    /\ ArpTypeOK
    /\ BufTypeOK
    /\ pc \in {"scan", "idle", "resend", "send", "sweep"}
    /\ route \in Route
    /\ cur \in Pointer
    /\ hand \in Packet \cup {NoPacket}
    /\ wire \in [gw : Address \cup {NoIp}, bounced : BOOLEAN, fate : Fate]
    /\ ifidx \in [Route -> Iface \cup {NoIface}]

\* The resend loop always stands on a packet of the list, although each turn
\* may unlink the item it stands on and free its slot (sr_router.c:257-271):
\* the saved "next" never dangles.  A packet is in hand only while the loop
\* runs for it or it is about to be sent.
IteratorValid ==
    /\ Running /\ pc = "resend" => \E k \in 1..Len(order) : order[k] = cur
    /\ Running /\ pc # "resend" => cur = Null
    /\ pc = "send" => hand # NoPacket
    /\ pc \in {"idle", "sweep", "scan"} /\ Running => hand = NoPacket

\* Packets for one gateway leave in the order they arrived: when a packet is
\* forwarded, no older packet for its gateway is left behind in the buffer.
\* (An error for a dead link, sent past the test of its own entry, may pass.)
NoOvertaking ==
    wire # NoFrame /\ ~ wire.bounced =>
        \A k \in 1..Len(order) :
            /\ GatewayOf(items[order[k]].pkt) = wire.gw
            => \E j \in 1..k : order[j] = cur

\* No packet is stranded: whenever the router waits for a message, no packet
\* in the buffer waits for a gateway whose answer is in the cache and good.
NoStranded ==
    Running /\ pc = "idle" =>
        \A i \in Slot :
            items[i].buffered /\ Lookup(items[i].pkt) = "good" =>
                arp_table[SlotOf(items[i].pkt)].age > ARP_TTL

\* After the scan every gateway has an entry and never loses it, so that the
\* forwarding path finds one (sr_arp.c:238-258, sr_router.c:186-191): the only
\* requests after the scan are those of the sweep.
GatewaysKnown ==
    Running /\ pc # "scan" /\ Cardinality(Address) <= LAN_SIZE =>
        \A r \in Route :
            \E s \in Index : arp_table[s].ip = Gateway[r] /\ sr_arp_get(Gateway[r]) = s

\* A frame is never built from an entry that was never answered: the error for
\* a dead link is sent without looking at its own entry's state, and such an
\* entry has no interface to read a MAC from (sr_router.c:197-222).
NoUnansweredSend == fault # "sr_router_send"

\* A reply for the packet's gateway can be heard on another interface than its
\* route's.
HeardElsewhere(p) ==
    \E r \in Reply : r[1] = GatewayOf(p) /\ r[3] # Interface[RouteOf[p.dst]]

\* A packet that the router has accepted stays in the buffer, or it leaves it for
\* one of these reasons alone: it was given to the server, its link is dead, or it
\* was buffered for longer than PACKET_TOO_OLD seconds.  What sr_router_send takes for sent
\* (sr_router.c:233-238) is sent but for the two ways in which a frame is lost: its write
\* failed (sr_vns_comm.c:601-608), or it was refused for a MAC that can only come
\* from a reply heard on another interface than the route's.
Accounted(p, kept, age) ==
    IF kept THEN wire' = NoFrame /\ age <= PACKET_TOO_OLD
    ELSE \/ age > PACKET_TOO_OLD
         \/ Lookup(p) = "dead"
         \/ /\ wire'.gw = GatewayOf(p)
            /\ \/ wire'.fate \in {"sent", "unwritten"}
               \/ wire'.fate = "refused" /\ HeardElsewhere(p)

NoSilentLoss ==
    [][ /\ pc = "resend" /\ cur' # cur /\ Running'
           => Accounted(items[cur].pkt, items'[cur].buffered, items[cur].age)
        /\ pc = "send" /\ pc' # pc /\ Running'
           => Accounted(hand, Len(order') = Len(order) + 1, 0)
      ]_routerVars

\* How far the thread is from reading the next message: the routes the scan has
\* left, the items the resend loop has left, the packet in hand, the sweep.
ItemsLeft == IF cur = Null THEN 0 ELSE Len(order) + 1 - Position(cur)

Distance ==
    CASE pc = "scan" -> Routes - route + 2
      [] pc = "resend" -> ItemsLeft + 2
      [] pc = "send" -> 2
      [] pc = "sweep" -> 1
      [] pc = "idle" -> 0

\* The table is full and lacks an address whose search starts at its first slot.
Overfull ==
    /\ \A s \in Index : arp_table[s].ip # NoIp
    /\ \E a \in Address : Hash(a) = 0 /\ \A s \in Index : arp_table[s].ip # a

\* Every turn of every loop brings the thread nearer to reading, although the turns
\* of the resend loop change the list they walk (sr_router.c:257-271): an item that is
\* unlinked, or that sr_buffer_add is given again, never lengthens the walk.  The
\* one loop that may never end, the probe of sr_arp_get (sr_arp.c:123-127), does so
\* only over a full table.
HandlerAdvances ==
    [][ /\ Handler /\ Running' => Distance' \in 0..(Distance - 1)
        /\ Tick => Distance' = Distance
        /\ fault' = "sr_arp_get" => Overfull'
      ]_routerVars

\* Every handler returns to the main loop or stops the process, whatever the
\* resend loop unlinks on its way, but for one: a search for an address that a
\* full table lacks probes for ever.
HandlerReturns ==
    []<>(\/ pc = "idle"
         \/ fault \notin {NoFault, "sr_arp_get"}
         \/ fault = "sr_arp_get" /\ Overfull)

\* While time passes and packets or replies keep being handled, no slot is held
\* for ever: each packet in the buffer is sent, bounced or found too old.
SlotsComeBack ==
    []<>(Running /\ pc \in {"resend", "send"}) /\ []<><<Tick>>_routerVars =>
        \A i \in Slot : []<>(~ items[i].buffered)

-----------------------------------------------------------------------------
(* What the handlers make of the two components.                            *)

\* Under the handlers the buffer is still the queue of PacketQueue: each step of the
\* thread is at most one operation of it, and only a full queue stops it.
Backlog == INSTANCE PacketQueue WITH
             CAPACITY <- BUFFSIZE,
             MAX_AGE <- PACKET_TOO_OLD + 1,
             queue <- [k \in 1..Len(order) |->
                         [pkt |-> items[order[k]].pkt, age |-> items[order[k]].age]],
             stopped <- fault = "sr_buffer_add"

KeepsQueue == Backlog!Spec

\* Under the handlers the cache is still the map of ArpMap: no forwarding step
\* writes an entry except to ask for an address that has none.
CacheFaults ==
    {"sr_arp_get", "sr_arp_set", "sr_arp_refresh", "sr_arp_check_refresh"}

Neighbours == INSTANCE ArpMap WITH
                CAPACITY <- LAN_SIZE,
                TTL <- ARP_TTL,
                CHECK_EVERY <- ARP_CHECK_EVERY,
                cache <- [a \in Address |->
                            LET s == sr_arp_get(a)
                            IN  IF s \in Index /\ arp_table[s].ip = a
                                THEN [mac |-> arp_table[s].mac,
                                      iface |-> arp_table[s].iface,
                                      tries |-> arp_table[s].tries,
                                      age |-> arp_table[s].age]
                                ELSE Absent],
                stopped <- fault \in CacheFaults

KeepsMap == Neighbours!Spec

-----------------------------------------------------------------------------
(* What the documentation says of the program, and the program does not do. *)

\* readme.txt:53-55, "long runs and seemed to be able to stay up
\* indefinitely": a sweep of the cache does not stop the router.
SweepSurvives == fault # "sr_arp_check_refresh"

\* sr_buffer.c:92, "out of memory for buffer item - aborting!": a packet that
\* finds the pool full is given up, and the router goes on.
FullPoolSurvives == fault # "sr_buffer_add"

\* readme.txt:29, "Buffered packets are dropped if they cannot be sent after 6
\* seconds".
DroppedWhenOld ==
    \A i \in Slot :
        (items[i].buffered /\ TooOld(i)) ~> (~ items[i].buffered \/ ~ Running)
=============================================================================
