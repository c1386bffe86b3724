---------------------------- MODULE RouterProofs ----------------------------
(***************************************************************************)
(* Proofs about Router: the cache and the buffer keep their invariants     *)
(* whatever the handlers do with them, the walk of the buffer stands on a  *)
(* packet of the list, every gateway is known after the scan, no frame is  *)
(* built from an entry that was not answered, packets for one gateway keep *)
(* their order and none is left waiting or lost.  The proofs rest on the   *)
(* lemmas about the operations of the two components.                      *)
(***************************************************************************)
EXTENDS Router, PacketBufferProofs, ArpCacheProofs

Room == Cardinality(Address) <= LAN_SIZE

WireType == [gw : Address \cup {NoIp}, bounced : BOOLEAN, fate : Fate]

\* Where the thread is and what it holds.  That cur is on the list is said by
\* the flag of its slot.
Control ==
    /\ pc \in {"scan", "idle", "resend", "send", "sweep"}
    /\ route \in Route
    /\ cur \in Pointer
    /\ hand \in Packet \cup {NoPacket}
    /\ wire \in WireType
    /\ ifidx \in [Route -> Iface \cup {NoIface}]
    /\ Running /\ pc = "resend" => cur \in Slot /\ items[cur].buffered
    /\ Running /\ pc # "resend" => cur = Null
    /\ pc = "send" => hand # NoPacket
    /\ Running /\ pc \in {"idle", "sweep", "scan"} => hand = NoPacket

CoreInv == ArpInv /\ BufInv /\ Control

-----------------------------------------------------------------------------
(* Packets.                                                                 *)

\* The addresses of a packet, the packet that answers it, and its gateway.
LEMMA PacketFields ==
    ASSUME NEW p \in Packet
    PROVE  /\ p.src \in Ip /\ p.dst \in Ip
           /\ sr_ip_reverse(p) \in Packet
           /\ GatewayOf(p) \in Address /\ InterfaceOf(p) \in Iface
  <1>1. p.src \in Ip /\ p.dst \in Ip /\ sr_ip_reverse(p) \in Packet
    BY PacketAssumption DEF sr_ip_reverse
  <1> QED
    BY <1>1, RoutesAssumption DEF GatewayOf, InterfaceOf

\* The error that answers a packet is a packet, if an interface can send it.
LEMMA ErrorIsPacket ==
    ASSUME NEW p \in Packet, ~ UnreachableFaults(p),
           ifidx \in [Route -> Iface \cup {NoIface}]
    PROVE  sr_icmp_unreachable(p) \in Packet
  <1>1. p.src \in Ip /\ p.dst \in Ip /\ RouteOf[p.dst] \in Route
    BY PacketFields, RoutesAssumption
  <1>2. CASE p.dst \in Own
    BY <1>2, PacketFields DEF sr_icmp_unreachable
  <1>3. CASE p.dst \notin Own
    <2>1. ifidx[RouteOf[p.dst]] \in Iface
      BY <1>1, <1>3 DEF UnreachableFaults
    <2>2. [p EXCEPT !.dst = OwnIp[ifidx[RouteOf[p.dst]]]] \in Packet
      BY <1>1, <2>1, PacketAssumption, RoutesAssumption
    <2> QED
      BY <1>3, <2>2, PacketFields DEF sr_icmp_unreachable
  <1> QED
    BY <1>2, <1>3

-----------------------------------------------------------------------------
(* The components under the handlers.                                       *)

\* What is left alone keeps its invariant.
LEMMA SameArp ==
    ASSUME ArpInv, UNCHANGED <<arp_table, sinceCheck>>, asked' = {},
           fault' \in FaultSite \cup {NoFault},
           Room => fault' \notin {"sr_arp_get", "sr_arp_set", "sr_arp_refresh"}
    PROVE  ArpInv'
  <1>1. ArpTypeOK'
    BY DEF ArpInv, ArpTypeOK
  <1>2. LookupIntegrity'
    BY SameIps DEF ArpInv
  <1>3. EntryKinds'
    BY DEF ArpInv, EntryKinds, EmptyEntry, Dummy, Answered
  <1>4. RoomMeansFound'
    BY DEF RoomMeansFound, Room
  <1> QED
    BY <1>1, <1>2, <1>3, <1>4 DEF ArpInv

\* So does a buffer that no handler touched.
LEMMA SameBuf ==
    ASSUME BufInv, UNCHANGED bufVars, fault' \in FaultSite \cup {NoFault}
    PROVE  BufInv'
  BY DEF BufInv, BufTypeOK, bufVars, ListIntegrity, PoolIntegrity, LinkIntegrity, OldestFirst

\* With room the search for a packet's gateway finds a slot.
LEMMA RoomForPacket ==
    ASSUME ArpInv, Room, NEW p \in Packet
    PROVE  /\ SlotOf(p) \in Index
           /\ Lookup(p) \in {"absent", "dead", "pending", "good"}
  <1>1. SlotOf(p) \in Index
    BY PacketFields, RoomFound DEF SlotOf, Room, ArpInv
  <1>2. SlotOf(p) # SPIN /\ SlotOf(p) # NULL
    BY <1>1 DEF SPIN, NULL, Index
  <1> QED
    BY <1>1, <1>2 DEF Lookup

\* Sending a packet touches neither the cache nor, itself, the buffer.
LEMMA ReleasePreserves ==
    ASSUME ArpInv, NEW p \in Packet, Release(p),
           ifidx \in [Route -> Iface \cup {NoIface}]
    PROVE  /\ ArpInv' /\ fault' = NoFault /\ wire' \in WireType
           /\ UNCHANGED <<arp_table, sinceCheck>>
  <1>1. NoFrame \in WireType
    BY DEF NoFrame, WireType, Fate
  <1>2. ASSUME NEW q \in Packet, NEW b \in BOOLEAN, Transmit(q, b)
        PROVE  /\ fault' = NoFault /\ asked' = {} /\ UNCHANGED <<arp_table, sinceCheck>>
               /\ wire' \in WireType
    <2>1. \A fate \in Fate : [gw |-> GatewayOf(q), bounced |-> b, fate |-> fate] \in WireType
      BY PacketFields DEF WireType
    <2>2. \E fate \in Fate : wire' = [gw |-> GatewayOf(q), bounced |-> b, fate |-> fate]
      BY <1>2 DEF Transmit, sr_send_packet, Fate
    <2> QED
      BY <1>2, <2>1, <2>2 DEF Transmit, Proceed
  <1>3. /\ fault' = NoFault /\ asked' = {} /\ UNCHANGED <<arp_table, sinceCheck>>
        /\ wire' \in WireType
    <2>1. CASE Lookup(p) = "good" /\ Transmit(p, FALSE)
      BY <1>2, <2>1
    <2>2. CASE /\ ~ UnreachableFaults(p)
               /\ Transmit(sr_icmp_unreachable(p), TRUE)
      BY <1>2, <2>2, ErrorIsPacket
    <2>3. CASE /\ Proceed /\ wire' = NoFrame /\ asked' = {}
               /\ UNCHANGED <<arp_table, sinceCheck>>
      BY <1>1, <2>3 DEF Proceed
    <2> QED
      BY <2>1, <2>2, <2>3 DEF Release
  <1> QED
    BY <1>3, SameArp DEF FaultSite, NoFault

\* Saving a packet, and asking for its gateway if that was never asked for.
LEMMA KeepPreserves ==
    ASSUME ArpInv, BufInv, NEW h, h.pkt \in Packet, Keep(h)
    PROVE  /\ ArpInv' /\ BufInv' /\ wire' = NoFrame
           /\ h.buffered => UNCHANGED bufVars
  <1>1. sr_buffer_add(h) /\ wire' = NoFrame
    BY DEF Keep
  <1>2. BufInv'
    BY <1>1, AddPreserves
  <1>3. h.buffered => UNCHANGED bufVars
    BY <1>1 DEF sr_buffer_add
  <1>4. ArpInv'
    <2>1. CASE sr_arp_refresh(GatewayOf(h.pkt), InterfaceOf(h.pkt))
      BY <2>1, PacketFields, RefreshPreserves
    <2>2. CASE asked' = {} /\ UNCHANGED <<arp_table, sinceCheck>>
      <3>1. fault' \in {NoFault, "sr_buffer_add"}
        BY <1>1 DEF sr_buffer_add, Proceed, StopIn
      <3> QED
        BY <2>2, <3>1, SameArp DEF FaultSite, NoFault
    <2> QED
      BY <2>1, <2>2 DEF Keep
  <1> QED
    BY <1>1, <1>2, <1>3, <1>4

\* A failure to send stops the process and changes nothing.
LEMMA FaultsPreserve ==
    ASSUME ArpInv, BufInv, NEW p \in Packet, SendFaults(p),
           ifidx \in [Route -> Iface \cup {NoIface}]
    PROVE  /\ ArpInv' /\ BufInv' /\ ~ Running' /\ wire' = NoFrame
           /\ UNCHANGED <<arp_table, sinceCheck, bufVars>>
  <1>1. PICK f \in {"sr_arp_get", "sr_router_send", "sr_icmp_unreachable"} : Stop(f)
    BY DEF SendFaults
  <1>2. f = "sr_arp_get" => ~ Room
    <2> SUFFICES ASSUME f = "sr_arp_get", Room PROVE FALSE
      OBVIOUS
    <2>1. fault' = "sr_arp_get"
      BY <1>1 DEF Stop, StopIn
    <2>2. \/ Lookup(p) = "spin"
          \/ ~ UnreachableFaults(p) /\ Lookup(sr_icmp_unreachable(p)) = "spin"
      BY <2>1 DEF SendFaults, Stop, StopIn
    <2> QED
      BY <2>2, RoomForPacket, ErrorIsPacket
  <1>3. /\ fault' = f /\ f \in FaultSite /\ f # NoFault
        /\ wire' = NoFrame /\ asked' = {} /\ UNCHANGED <<arp_table, sinceCheck, bufVars>>
    BY <1>1 DEF Stop, StopIn, FaultSite, NoFault
  <1> QED
    BY <1>2, <1>3, SameArp, SameBuf DEF Running

-----------------------------------------------------------------------------
(* The walk of the buffer.                                                  *)

\* The first item of the list is in use.
LEMMA StartOnList ==
    ASSUME BufInv, start # Null
    PROVE  start \in Slot /\ items[start].buffered
  <1>1. Len(order) # 0 /\ start = order[1]
    BY DEF BufInv, ListIntegrity, LinkIntegrity
  <1>2. 1 \in 1..Len(order)
    BY <1>1 DEF BufInv, BufTypeOK
  <1> QED
    BY <1>1, <1>2 DEF BufInv, BufTypeOK, ListIntegrity, PoolIntegrity

\* An item in use holds a packet, and the item after it is another one in use.
LEMMA NextOnList ==
    ASSUME BufInv, NEW i \in Slot, items[i].buffered
    PROVE  /\ items[i].pkt \in Packet
           /\ items[i].next \in Pointer
           /\ items[i].next # Null =>
                /\ items[i].next \in Slot /\ items[i].next # i
                /\ items[items[i].next].buffered
  <1>1. PICK k \in 1..Len(order) : order[k] = i
    BY DEF BufInv, ListIntegrity, PoolIntegrity
  <1>2. Len(order) \in Nat /\ \A m \in 1..Len(order) : order[m] \in Slot
    BY DEF BufInv, BufTypeOK
  <1>3. items[i].next = IF k = Len(order) THEN Null ELSE order[k + 1]
    BY <1>1 DEF BufInv, ListIntegrity, LinkIntegrity
  <1>4. items[i].pkt \in Packet
    BY DEF BufInv, ListIntegrity, LinkIntegrity
  <1>5. CASE k = Len(order)
    BY <1>3, <1>4, <1>5, BuffsizeAssumption DEF Null, Pointer
  <1>6. CASE k # Len(order)
    <2>1. k + 1 \in 1..Len(order) /\ k + 1 # k
      BY <1>2, <1>6
    <2>2. items[i].next = order[k + 1]
      BY <1>3, <1>6
    <2>3. order[k + 1] \in Slot /\ order[k + 1] # i
      BY <1>1, <1>2, <2>1 DEF BufInv, ListIntegrity, PoolIntegrity
    <2>4. items[order[k + 1]].buffered
      BY <2>1, <2>3 DEF BufInv, ListIntegrity, PoolIntegrity
    <2>5. order[k + 1] \in Pointer
      BY <2>3 DEF Slot, Pointer
    <2> QED
      BY <1>4, <2>2, <2>3, <2>4, <2>5
  <1> QED
    BY <1>5, <1>6

\* Freeing an item frees no other.
LEMMA RemoveKeepsOthers ==
    ASSUME BufInv, NEW i \in Slot, sr_buffer_remove(i),
           NEW j \in Slot, j # i
    PROVE  items'[j].buffered = items[j].buffered
  <1>1. items[j] \in Item
    BY DEF BufInv, BufTypeOK
  <1> QED
    BY <1>1 DEF sr_buffer_remove, Item

\* A handler that enters the resend loop finds a packet to stand on.
LEMMA EnterKeepsControl ==
    ASSUME BufInv, Control, NEW h \in Packet \cup {NoPacket}, EnterResend(h),
           UNCHANGED <<items, route, ifidx>>, wire' = NoFrame,
           pc = "idle"
    PROVE  Control'
  <1>1. NoFrame \in WireType
    BY DEF NoFrame, WireType, Fate
  <1>2. start \in Pointer /\ Null \in Pointer
    BY BuffsizeAssumption DEF BufInv, BufTypeOK, Pointer, Null
  <1>3. CASE start = Null
    BY <1>1, <1>2, <1>3 DEF Control, EnterResend, AfterResend
  <1>4. CASE start # Null
    BY <1>1, <1>2, <1>4, StartOnList DEF Control, EnterResend
  <1> QED
    BY <1>3, <1>4

-----------------------------------------------------------------------------
(* Every step keeps the invariant.                                          *)

\* The invariant holds when the router starts.
LEMMA RouterInitEstablishes == RouterInit => CoreInv
  <1> SUFFICES ASSUME RouterInit PROVE CoreInv
    OBVIOUS
  <1>1. ArpInv
    BY InitEstablishes DEF RouterInit, ArpInit
  <1>2. BufInv
    BY ClearEstablishes DEF RouterInit
  <1>3. Control
    <2>1. NoFrame \in WireType
      BY DEF NoFrame, WireType, Fate
    <2>2. 1 \in Route /\ Null \in Pointer
      BY RoutesAssumption, BuffsizeAssumption DEF Route, Null, Pointer
    <2> QED
      BY <2>1, <2>2 DEF RouterInit, Control, FirstIfidx
  <1> QED
    BY <1>1, <1>2, <1>3 DEF CoreInv

\* A step of the scan asks for one gateway.
LEMMA ScanKeeps ==
    ASSUME CoreInv, ScanStep
    PROVE  CoreInv'
  <1>1. ArpInv'
    <2>1. Gateway[route] \in Address /\ Interface[route] \in Iface
      BY RoutesAssumption DEF CoreInv, Control
    <2> QED
      BY <2>1, RefreshPreserves DEF CoreInv, ScanStep
  <1>2. BufInv'
    <2>1. fault' \in FaultSite \cup {NoFault}
      BY <1>1 DEF ArpInv, ArpTypeOK
    <2> QED
      BY <2>1, SameBuf DEF CoreInv, ScanStep
  <1>3. Control'
    <2>1. NoFrame \in WireType
      BY DEF NoFrame, WireType, Fate
    <2>2. route' \in Route
      BY RoutesAssumption DEF ScanStep, CoreInv, Control, Route
    <2> QED
      BY <2>1, <2>2 DEF ScanStep, CoreInv, Control, bufVars
  <1> QED
    BY <1>1, <1>2, <1>3 DEF CoreInv

\* The three ways a message is dealt with.
LEMMA HandledKeeps ==
    ASSUME CoreInv, Running, pc = "idle", Handled
    PROVE  CoreInv'
  <1>1. fault' = NoFault /\ fault' \in FaultSite \cup {NoFault}
    BY DEF Handled, Proceed
  <1>2. ArpInv'
    BY <1>1, SameArp DEF CoreInv, Handled, FaultSite, NoFault
  <1>3. BufInv'
    BY <1>1, SameBuf DEF CoreInv, Handled
  <1>4. Control'
    <2>1. NoFrame \in WireType
      BY DEF NoFrame, WireType, Fate
    <2> QED
      BY <2>1 DEF Handled, CoreInv, Control, bufVars
  <1> QED
    BY <1>2, <1>3, <1>4 DEF CoreInv

\* A packet is left to be sent.
LEMMA ToSendKeeps ==
    ASSUME CoreInv, Running, pc = "idle", NEW p \in Packet, ToSend(p)
    PROVE  CoreInv'
  <1>1. fault' = NoFault /\ fault' \in FaultSite \cup {NoFault}
    BY DEF ToSend, Proceed
  <1>2. ArpInv'
    BY <1>1, SameArp DEF CoreInv, ToSend, FaultSite, NoFault
  <1>3. BufInv'
    BY <1>1, SameBuf DEF CoreInv, ToSend
  <1>4. Control'
    BY EnterKeepsControl DEF CoreInv, ToSend, bufVars
  <1> QED
    BY <1>2, <1>3, <1>4 DEF CoreInv

\* The handler stops the process.
LEMMA MessageFaultsKeep ==
    ASSUME CoreInv, Running, pc = "idle",
           NEW f \in {"sr_icmp_unreachable", "sr_icmp_handler"}, MessageFaults(f)
    PROVE  CoreInv'
  <1>1. fault' = f /\ f # NoFault /\ f \in FaultSite
    BY DEF MessageFaults, Stop, StopIn, FaultSite, NoFault
  <1>2. ArpInv'
    BY <1>1, SameArp DEF CoreInv, MessageFaults, Stop
  <1>3. BufInv'
    BY <1>1, SameBuf DEF CoreInv, MessageFaults, Stop
  <1>4. Control'
    <2>1. NoFrame \in WireType
      BY DEF NoFrame, WireType, Fate
    <2>2. ~ Running'
      BY <1>1 DEF Running
    <2> QED
      BY <2>1, <2>2 DEF MessageFaults, Stop, CoreInv, Control
  <1> QED
    BY <1>2, <1>3, <1>4 DEF CoreInv

\* Whatever the message, the handler takes one of those ways.
LEMMA ReceiveKeeps ==
    ASSUME CoreInv, Receive
    PROVE  CoreInv'
  <1>1. ASSUME NEW f \in Flow, NEW proto \in Proto,
               NEW ttlLeft \in BOOLEAN, NEW checksumOk \in BOOLEAN,
               ReceiveIp([src |-> f[1], dst |-> f[2]], proto, ttlLeft, checksumOk)
        PROVE  CoreInv'
    <2> DEFINE p == [src |-> f[1], dst |-> f[2]]
    <2>1. p \in Packet
      BY InputsAssumption, PacketAssumption
    <2>2. Running /\ pc = "idle"
      BY <1>1 DEF ReceiveIp
    <2>3. ifidx \in [Route -> Iface \cup {NoIface}]
      BY DEF CoreInv, Control
    <2> HIDE DEF p
    <2>4. CASE Handled
      BY <2>2, <2>4, HandledKeeps
    <2>5. CASE Unreachable(p)
      BY <2>1, <2>2, <2>3, <2>5, ErrorIsPacket, ToSendKeeps, MessageFaultsKeep
         DEF Unreachable
    <2>6. CASE IcmpHandler(p, proto)
      BY <2>1, <2>2, <2>6, PacketFields, HandledKeeps, ToSendKeeps,
         MessageFaultsKeep DEF IcmpHandler
    <2>7. CASE ToSend(p)
      BY <2>1, <2>2, <2>7, ToSendKeeps
    <2>8. Handled \/ Unreachable(p) \/ IcmpHandler(p, proto) \/ ToSend(p)
      BY <1>1 DEF ReceiveIp, p
    <2> QED
      BY <2>4, <2>5, <2>6, <2>7, <2>8
  <1>2. ASSUME NEW r \in Reply, ReceiveArpReply(r[1], r[2], r[3])
        PROVE  CoreInv'
    <2>1. r[1] \in Address /\ r[2] \in Mac /\ r[3] \in Iface
      BY InputsAssumption
    <2>2. ArpInv'
      BY <1>2, <2>1, SetPreserves DEF CoreInv, ReceiveArpReply
    <2>3. fault' \in FaultSite \cup {NoFault}
      BY <2>2 DEF ArpInv, ArpTypeOK
    <2>4. BufInv'
      BY <1>2, <2>3, SameBuf DEF CoreInv, ReceiveArpReply
    <2>5. Control'
      BY <1>2, EnterKeepsControl DEF CoreInv, ReceiveArpReply, bufVars
    <2> QED
      BY <2>2, <2>4, <2>5 DEF CoreInv
  <1>3. CASE ReceiveOther
    BY <1>3, HandledKeeps DEF ReceiveOther
  <1> QED
    BY <1>1, <1>2, <1>3 DEF Receive, ReceiveIpAny, ReceiveArpReplyAny

\* One turn of the loop: whatever becomes of the item, the one after it stays.
LEMMA ResendKeeps ==
    ASSUME CoreInv, ResendStep
    PROVE  CoreInv'
  <1> DEFINE p == items[cur].pkt
             next == items[cur].next
  <1>1. /\ Running /\ pc = "resend" /\ cur \in Slot /\ items[cur].buffered
        /\ cur' = next /\ UNCHANGED <<route, hand, ifidx>>
        /\ pc' = IF next = Null THEN AfterResend(hand) ELSE "resend"
    BY DEF ResendStep, NextItem, CoreInv, Control
  <1>2. /\ p \in Packet /\ next \in Pointer
        /\ next # Null => next \in Slot /\ next # cur /\ items[next].buffered
    BY <1>1, NextOnList DEF CoreInv
  <1>3. ifidx \in [Route -> Iface \cup {NoIface}]
    BY DEF CoreInv, Control
  <1>4. NoFrame \in WireType
    BY DEF NoFrame, WireType, Fate
  <1> HIDE DEF p, next
  <1>5. /\ ArpInv' /\ BufInv' /\ wire' \in WireType
        /\ Running' /\ next # Null => items'[next].buffered
    <2>1. CASE /\ Proceed /\ sr_buffer_remove(cur) /\ wire' = NoFrame
               /\ asked' = {} /\ UNCHANGED <<arp_table, sinceCheck>>
      BY <1>1, <1>2, <1>4, <2>1, SameArp, RemovePreserves, RemoveKeepsOthers
         DEF CoreInv, Proceed, FaultSite, NoFault
    <2>2. CASE Release(p) /\ sr_buffer_remove(cur)
      BY <1>1, <1>2, <1>3, <2>2, ReleasePreserves, RemovePreserves,
         RemoveKeepsOthers DEF CoreInv
    <2>3. CASE Keep(items[cur])
      BY <1>1, <1>2, <1>4, <2>3, KeepPreserves DEF CoreInv, bufVars, p
    <2>4. CASE SendFaults(p)
      BY <1>2, <1>3, <1>4, <2>4, FaultsPreserve DEF CoreInv
    <2> QED
      BY <2>1, <2>2, <2>3, <2>4 DEF ResendStep, p
  <1>6. Control'
    BY <1>1, <1>2, <1>5 DEF CoreInv, Control, AfterResend
  <1> QED
    BY <1>5, <1>6 DEF CoreInv

\* The packet in hand is sent, saved or dropped; no slot is freed.
LEMMA SendKeeps ==
    ASSUME CoreInv, SendStep
    PROVE  CoreInv'
  <1>1. /\ Running /\ pc = "send" /\ hand \in Packet /\ cur = Null
        /\ hand' = NoPacket /\ pc' = "sweep" /\ UNCHANGED <<route, cur, ifidx>>
    BY DEF SendStep, CoreInv, Control
  <1>2. ifidx \in [Route -> Iface \cup {NoIface}]
    BY DEF CoreInv, Control
  <1>3. NoFrame \in WireType
    BY DEF NoFrame, WireType, Fate
  <1>4. ArpInv' /\ BufInv' /\ wire' \in WireType
    <2>1. CASE Release(hand) /\ UNCHANGED bufVars
      BY <1>1, <1>2, <2>1, ReleasePreserves, SameBuf DEF CoreInv
    <2>2. CASE Keep(Fresh(hand))
      BY <1>1, <1>3, <2>2, KeepPreserves DEF CoreInv, Fresh
    <2>3. CASE SendFaults(hand)
      BY <1>1, <1>2, <1>3, <2>3, FaultsPreserve DEF CoreInv
    <2> QED
      BY <2>1, <2>2, <2>3 DEF SendStep
  <1>5. Control'
    BY <1>1, <1>4 DEF CoreInv, Control
  <1> QED
    BY <1>4, <1>5 DEF CoreInv

\* The sweep touches only the cache.
LEMMA SweepKeeps ==
    ASSUME CoreInv, SweepStep
    PROVE  CoreInv'
  <1>1. ArpInv'
    BY SweepPreserves DEF CoreInv, SweepStep
  <1>2. fault' \in FaultSite \cup {NoFault}
    BY <1>1 DEF ArpInv, ArpTypeOK
  <1>3. BufInv'
    BY <1>2, SameBuf DEF CoreInv, SweepStep
  <1>4. Control'
    <2>1. NoFrame \in WireType
      BY DEF NoFrame, WireType, Fate
    <2> QED
      BY <2>1 DEF SweepStep, CoreInv, Control
  <1> QED
    BY <1>1, <1>3, <1>4 DEF CoreInv

\* Time touches the ages only.
LEMMA TickKeeps ==
    ASSUME CoreInv, Tick
    PROVE  CoreInv'
  <1>1. ArpInv'
    BY TimePreserves DEF CoreInv, Tick
  <1>2. fault' \in FaultSite \cup {NoFault}
    BY <1>1 DEF ArpInv, ArpTypeOK
  <1>3. BufInv'
    BY <1>2, AgePreserves DEF CoreInv, Tick
  <1>4. \A i \in Slot : items'[i].buffered = items[i].buffered
    <2> SUFFICES ASSUME NEW i \in Slot PROVE items'[i].buffered = items[i].buffered
      OBVIOUS
    <2>1. items[i] \in Item
      BY DEF CoreInv, BufInv, BufTypeOK
    <2> QED
      BY <2>1 DEF Tick, AgePackets, Item
  <1>5. Control'
    <2>1. NoFrame \in WireType
      BY DEF NoFrame, WireType, Fate
    <2>2. Running /\ Running'
      BY DEF Tick, Proceed, Running
    <2> QED
      BY <1>4, <2>1, <2>2 DEF Tick, CoreInv, Control
  <1> QED
    BY <1>1, <1>3, <1>5 DEF CoreInv

\* The invariant is inductive.
LEMMA RouterStep ==
    ASSUME CoreInv, [RouterNext]_routerVars
    PROVE  CoreInv'
  <1>1. CASE UNCHANGED routerVars
    BY <1>1 DEF routerVars, arpVars, bufVars, CoreInv, Control, Running,
       ArpInv, ArpTypeOK, LookupIntegrity, UniqueEntry, Reachable, Stops,
       EntryKinds, Dummy, Answered, RoomMeansFound,
       BufInv, BufTypeOK, ListIntegrity, PoolIntegrity, LinkIntegrity, OldestFirst
  <1> QED
    BY <1>1, ScanKeeps, ReceiveKeeps, ResendKeeps, SendKeeps, SweepKeeps,
       TickKeeps DEF RouterNext, Handler

\* So it holds in every state.
LEMMA RouterInductive == RouterSpec => []CoreInv
  BY RouterInitEstablishes, RouterStep, PTL DEF RouterSpec

-----------------------------------------------------------------------------
\* In every behaviour of the router (sr_router.c, sr_arp.c, sr_buffer.c) each
\* variable keeps its type.
THEOREM RouterTypeCorrect == RouterSpec => []RouterTypeOK
  <1>1. CoreInv => RouterTypeOK
    BY DEF CoreInv, Control, ArpInv, BufInv, RouterTypeOK, WireType
  <1> QED
    BY <1>1, RouterInductive, PTL

\* The resend loop stands on a packet of the list in every state, although it
\* unlinks items as it goes (sr_router.c:257-271).
THEOREM IteratorCorrect == RouterSpec => []IteratorValid
  <1>1. CoreInv => IteratorValid
    BY DEF CoreInv, Control, BufInv, ListIntegrity, PoolIntegrity, IteratorValid
  <1> QED
    BY <1>1, RouterInductive, PTL

\* The list and the pool agree whatever the handlers save and remove
\* (sr_buffer.c:71-149 as sr_router.c:186-271 uses it).
THEOREM RouterListCorrect == RouterSpec => []ListIntegrity
  <1>1. CoreInv => ListIntegrity
    BY DEF CoreInv, BufInv
  <1> QED
    BY <1>1, RouterInductive, PTL

\* With no more addresses than slots no search of the table fails in any of
\* the handlers (sr_arp.c:110-129).
THEOREM RouterRoom == RouterSpec => []RoomMeansFound
  <1>1. CoreInv => RoomMeansFound
    BY DEF CoreInv, ArpInv
  <1> QED
    BY <1>1, RouterInductive, PTL

-----------------------------------------------------------------------------
(* With a slot for every address: after the scan every gateway has an      *)
(* entry, so no request adds one, and the first sweep leaves no dummy.     *)

HasEntry(ip) == \E s \in Index : arp_table[s].ip = ip

\* The scan has asked for the gateways of the entries it has passed.
ScanAsked ==
    Room /\ Running =>
        \A r \in Route : pc # "scan" \/ r < route => HasEntry(Gateway[r])

\* A dummy is never fresh, so the first sweep finds it; only a sweep makes
\* tries of two, so there is no dummy beside them.
Dummies ==
    Room /\ Running =>
        /\ \A s \in Index : Dummy(arp_table[s]) => arp_table[s].age = ARP_TTL + 1
        /\ pc = "scan" => \A s \in Index : arp_table[s].tries <= 1
        /\ \A s, t \in Index : arp_table[s].tries >= 2 => ~ Dummy(arp_table[t])

AnswerInv == CoreInv /\ ScanAsked /\ Dummies /\ (Room => NoUnansweredSend)

\* An address with an entry is found where the entry is.
LEMMA EntryFound ==
    ASSUME ArpInv, Room, NEW ip \in Address, HasEntry(ip)
    PROVE  sr_arp_get(ip) \in Index /\ arp_table[sr_arp_get(ip)].ip = ip
  <1>1. PICK t \in Index : arp_table[t].ip = ip
    BY DEF HasEntry
  <1>2. sr_arp_get(ip) \in Index
    BY RoomFound DEF ArpInv, Room
  <1>3. PICK k \in Index :
           /\ sr_arp_get(ip) = Probe(Hash(ip), k)
           /\ Stops(ip, Probe(Hash(ip), k))
           /\ \A j \in 0..(k - 1) : ~ Stops(ip, Probe(Hash(ip), j))
    BY <1>2, GetIndex
  <1>4. t = Probe(Hash(ip), k)
    BY <1>1, <1>3, Holder DEF ArpInv
  <1> QED
    BY <1>1, <1>2, <1>3, <1>4

\* The search stops at the address's own entry or at an empty slot.
LEMMA GetStops ==
    ASSUME ArpInv, Room, NEW ip \in Address
    PROVE  sr_arp_get(ip) \in Index /\ arp_table[sr_arp_get(ip)].ip \in {ip, NoIp}
  <1>1. sr_arp_get(ip) \in Index
    BY RoomFound DEF ArpInv, Room
  <1> QED
    BY <1>1, GetIndex DEF Stops

\* After the scan the forwarding path finds the entry of a packet's gateway.
LEMMA PacketFound ==
    ASSUME CoreInv, ScanAsked, Room, Running, pc # "scan", NEW p \in Packet
    PROVE  /\ SlotOf(p) \in Index
           /\ arp_table[SlotOf(p)].ip = GatewayOf(p)
           /\ Lookup(p) \in {"dead", "pending", "good"}
  <1>1. GatewayOf(p) \in Address /\ HasEntry(GatewayOf(p))
    BY PacketFields, RoutesAssumption DEF ScanAsked, GatewayOf
  <1>2. SlotOf(p) \in Index /\ arp_table[SlotOf(p)].ip = GatewayOf(p)
    BY <1>1, EntryFound DEF CoreInv, SlotOf
  <1>3. GatewayOf(p) # NoIp
    BY <1>1, ArpConstants DEF NoIp
  <1>4. Lookup(p) \in {"absent", "dead", "pending", "good"}
    BY RoomForPacket DEF CoreInv
  <1>5. SlotOf(p) # SPIN /\ SlotOf(p) # NULL
    BY <1>2 DEF SPIN, NULL, Index
  <1>6. Lookup(p) # "absent"
    BY <1>2, <1>3, <1>5 DEF Lookup
  <1> QED
    BY <1>2, <1>4, <1>6

\* What Lookup says of the entry's tries.
LEMMA LookupTries ==
    ASSUME CoreInv, NEW p \in Packet, SlotOf(p) \in Index
    PROVE  /\ Lookup(p) = "dead" => arp_table[SlotOf(p)].tries >= ARP_MAX_TRIES
           /\ Lookup(p) = "pending" => /\ arp_table[SlotOf(p)].tries < ARP_MAX_TRIES
                                       /\ arp_table[SlotOf(p)].tries > 0
           /\ Lookup(p) = "good" => arp_table[SlotOf(p)].tries = 0
  <1>1. arp_table[SlotOf(p)].tries \in Nat
    BY DEF CoreInv, ArpInv, ArpTypeOK, Entry, Tries
  <1>2. SlotOf(p) # SPIN /\ SlotOf(p) # NULL
    BY DEF SPIN, NULL, Index
  <1>3. ARP_MAX_TRIES \in Nat \ {0}
    BY TriesAssumption
  <1> QED
    BY <1>1, <1>2, <1>3 DEF Lookup, Dead

\* An entry that was never answered is a dummy with one try.
LEMMA FacelessDummy ==
    ASSUME CoreInv, NEW s \in Index, arp_table[s].ip # NoIp,
           arp_table[s].iface = NoIface
    PROVE  Dummy(arp_table[s]) /\ arp_table[s].tries = 1
  BY ArpConstants DEF CoreInv, ArpInv, EntryKinds, EmptyEntry, Dummy, Answered

\* No frame is built from an entry without an answer.
LEMMA FramesAnswered ==
    ASSUME CoreInv, ScanAsked, Dummies, Room, Running, pc # "scan",
           NEW p \in Packet, SendFaults(p)
    PROVE  fault' # "sr_router_send"
  <1>1. ASSUME NEW q \in Packet, Faceless(q)
        PROVE  /\ Dummy(arp_table[SlotOf(q)]) /\ arp_table[SlotOf(q)].tries = 1
               /\ SlotOf(q) \in Index
    <2>1. GatewayOf(q) # NoIp
      BY PacketFields, ArpConstants DEF NoIp
    <2> QED
      BY <1>1, <2>1, PacketFound, FacelessDummy DEF Faceless
  <1>2. ~ (Lookup(p) = "good" /\ Faceless(p))
    BY <1>1, PacketFound, LookupTries
  <1>3. CASE Lookup(p) = "dead" /\ ~ UnreachableFaults(p)
    <2> DEFINE e == sr_icmp_unreachable(p)
    <2>1. e \in Packet
      BY <1>3, ErrorIsPacket DEF CoreInv, Control
    <2> HIDE DEF e
    <2>2. Lookup(e) \in {"dead", "pending", "good"}
      BY <2>1, PacketFound
    <2>3. ASSUME Lookup(e) \in {"pending", "good"}, Faceless(e)
          PROVE  FALSE
      <3>1. /\ Dummy(arp_table[SlotOf(e)]) /\ arp_table[SlotOf(e)].tries = 1
            /\ SlotOf(e) \in Index
        BY <1>1, <2>1, <2>3
      <3>2. 1 < ARP_MAX_TRIES
        BY <2>1, <2>3, <3>1, LookupTries
      <3>3. SlotOf(p) \in Index /\ arp_table[SlotOf(p)].tries >= ARP_MAX_TRIES
        BY <1>3, PacketFound, LookupTries
      <3>4. arp_table[SlotOf(p)].tries >= 2
        BY <3>2, <3>3, TriesAssumption DEF CoreInv, ArpInv, ArpTypeOK, Entry, Tries
      <3> QED
        BY <3>1, <3>3, <3>4 DEF Dummies
    <2> QED
      BY <1>3, <2>2, <2>3 DEF SendFaults, Stop, StopIn, e
  <1> QED
    BY <1>2, <1>3, PacketFound DEF SendFaults, Stop, StopIn

\* Saving a packet adds no entry.
LEMMA KeepAddsNone ==
    ASSUME CoreInv, ScanAsked, Room, Running, pc # "scan",
           NEW h, h.pkt \in Packet, Keep(h)
    PROVE  UNCHANGED arp_table /\ fault' # "sr_router_send"
  <1>1. Lookup(h.pkt) # "absent"
    BY PacketFound
  <1>2. fault' \in {NoFault, "sr_buffer_add"}
    BY DEF Keep, sr_buffer_add, Proceed, StopIn
  <1> QED
    BY <1>1, <1>2 DEF Keep, NoFault

\* Most steps leave the table as it is.
Quiet ==
    /\ pc # "scan" /\ pc' # "scan"
    /\ UNCHANGED arp_table
    /\ fault' # "sr_router_send"

\* Reading a packet leaves the table as it is.
LEMMA ReceiveIsQuiet ==
    ASSUME CoreInv, ReceiveIpAny \/ ReceiveOther
    PROVE  Running /\ Quiet
  <1>1. Handled => pc' # "scan" /\ UNCHANGED arp_table /\ fault' # "sr_router_send"
    BY DEF Handled, Proceed, NoFault
  <1>2. ASSUME NEW p, ToSend(p)
        PROVE  pc' # "scan" /\ UNCHANGED arp_table /\ fault' # "sr_router_send"
    BY <1>2 DEF ToSend, EnterResend, AfterResend, Proceed, NoFault
  <1>3. ASSUME NEW f \in {"sr_icmp_unreachable", "sr_icmp_handler"}, MessageFaults(f),
               pc = "idle"
        PROVE  pc' # "scan" /\ UNCHANGED arp_table /\ fault' # "sr_router_send"
    BY <1>3 DEF MessageFaults, Stop, StopIn
  <1>4. CASE ReceiveOther
    BY <1>1, <1>4 DEF ReceiveOther, Quiet
  <1>5. ASSUME NEW p, NEW proto, NEW ttlLeft, NEW checksumOk,
               ReceiveIp(p, proto, ttlLeft, checksumOk)
        PROVE  Running /\ Quiet
    <2>1. Running /\ pc = "idle"
      BY <1>5 DEF ReceiveIp
    <2>2. Handled \/ Unreachable(p) \/ IcmpHandler(p, proto) \/ ToSend(p)
      BY <1>5 DEF ReceiveIp
    <2>3. CASE Unreachable(p)
      BY <1>2, <1>3, <2>1, <2>3 DEF Unreachable, Quiet
    <2>4. CASE IcmpHandler(p, proto)
      BY <1>1, <1>2, <1>3, <2>1, <2>4 DEF IcmpHandler, Quiet
    <2> QED
      BY <1>1, <1>2, <2>1, <2>2, <2>3, <2>4 DEF Quiet
  <1> QED
    BY <1>4, <1>5 DEF ReceiveIpAny

\* So does sending, once every gateway has its entry.
LEMMA LoopIsQuiet ==
    ASSUME CoreInv, ScanAsked, Dummies, Room, ResendStep \/ SendStep
    PROVE  Running /\ Quiet
  <1>1. ifidx \in [Route -> Iface \cup {NoIface}]
    BY DEF CoreInv, Control
  <1>2. ASSUME NEW p \in Packet, Release(p)
        PROVE  UNCHANGED arp_table /\ fault' # "sr_router_send"
    BY <1>1, <1>2, ReleasePreserves DEF CoreInv, NoFault
  <1>3. ASSUME NEW p \in Packet, SendFaults(p), Running, pc # "scan"
        PROVE  UNCHANGED arp_table /\ fault' # "sr_router_send"
    BY <1>1, <1>3, FaultsPreserve, FramesAnswered DEF CoreInv
  <1>4. CASE ResendStep
    <2>1. /\ Running /\ pc = "resend" /\ cur \in Slot /\ items[cur].buffered
          /\ pc' # "scan"
      BY <1>4 DEF ResendStep, CoreInv, Control, AfterResend
    <2>2. items[cur].pkt \in Packet
      BY <2>1, NextOnList DEF CoreInv
    <2>3. CASE Proceed /\ UNCHANGED arp_table
      BY <2>1, <2>3 DEF Quiet, Proceed, NoFault
    <2>4. CASE Release(items[cur].pkt)
      BY <1>2, <2>1, <2>2, <2>4 DEF Quiet
    <2>5. CASE Keep(items[cur])
      BY <2>1, <2>2, <2>5, KeepAddsNone DEF Quiet
    <2>6. CASE SendFaults(items[cur].pkt)
      BY <1>3, <2>1, <2>2, <2>6 DEF Quiet
    <2> QED
      BY <1>4, <2>3, <2>4, <2>5, <2>6 DEF ResendStep
  <1>5. CASE SendStep
    <2>1. Running /\ pc = "send" /\ hand \in Packet /\ pc' # "scan"
      BY <1>5 DEF SendStep, CoreInv, Control
    <2>2. CASE Release(hand)
      BY <1>2, <2>1, <2>2 DEF Quiet
    <2>3. CASE Keep(Fresh(hand))
      BY <2>1, <2>3, KeepAddsNone DEF Quiet, Fresh
    <2>4. CASE SendFaults(hand)
      BY <1>3, <2>1, <2>4 DEF Quiet
    <2> QED
      BY <1>5, <2>2, <2>3, <2>4 DEF SendStep
  <1> QED
    BY <1>4, <1>5

\* A quiet step keeps what is known of the entries.
LEMMA QuietKeeps ==
    ASSUME ScanAsked, Dummies, Running, Quiet
    PROVE  ScanAsked' /\ Dummies'
  BY DEF ScanAsked, Dummies, Quiet, HasEntry

\* The scan adds an entry for the gateway it asks for and no other.
LEMMA ScanKeepsAnswers ==
    ASSUME CoreInv, ScanAsked, Dummies, Room, ScanStep
    PROVE  ScanAsked' /\ Dummies' /\ fault' # "sr_router_send"
  <1> DEFINE ip == Gateway[route]
             s == sr_arp_get(ip)
  <1>1. ip \in Address /\ Interface[route] \in Iface /\ route \in Route
    BY RoutesAssumption DEF CoreInv, Control
  <1>2. s \in Index /\ arp_table[s].ip \in {ip, NoIp}
    BY <1>1, GetStops DEF CoreInv
  <1>3. s # NULL /\ s # SPIN
    BY <1>2 DEF NULL, SPIN, Index
  <1>4. arp_table \in [Index -> Entry]
    BY DEF CoreInv, ArpInv, ArpTypeOK
  <1>5. /\ Running /\ pc = "scan" /\ fault' = NoFault
        /\ arp_table' = IF arp_table[s].ip = NoIp
                        THEN [arp_table EXCEPT ![s].ip = ip, ![s].tries = Bump(@)]
                        ELSE arp_table
    BY <1>1, <1>2, <1>3 DEF ScanStep, sr_arp_refresh, Proceed
  <1> HIDE DEF s
  <1>6. arp_table'[s].ip = ip /\ \A t \in Index \ {s} : arp_table'[t] = arp_table[t]
    BY <1>2, <1>4, <1>5 DEF Entry
  <1>7. \/ arp_table'[s] = arp_table[s]
        \/ arp_table'[s].age = ARP_TTL + 1 /\ arp_table'[s].tries = 1
    <2>1. CASE arp_table[s].ip = NoIp
      <3>1. arp_table[s] = EmptyEntry
        BY <1>2, <2>1, ArpConstants
           DEF CoreInv, ArpInv, EntryKinds, Dummy, Answered
      <3>2. arp_table'[s] = [EmptyEntry EXCEPT !.ip = ip, !.tries = Bump(0)]
        BY <1>2, <1>4, <1>5, <2>1, <3>1 DEF EmptyEntry, Entry
      <3>3. Bump(0) = 1
        BY ArpConstants DEF Bump
      <3> QED
        BY <3>2, <3>3 DEF EmptyEntry
    <2>2. CASE arp_table[s].ip # NoIp
      BY <1>5, <2>2
    <2> QED
      BY <2>1, <2>2
  <1>8. \A t \in Index : arp_table'[t].tries \in Nat /\ arp_table'[t].tries <= 1
    <2>1. \A t \in Index : arp_table[t].tries \in Nat /\ arp_table[t].tries <= 1
      BY <1>4, <1>5 DEF Dummies, Entry, Tries
    <2> QED
      BY <1>6, <1>7, <2>1
  <1>9. Dummies'
    <2>1. \A t \in Index : Dummy(arp_table'[t]) => arp_table'[t].age = ARP_TTL + 1
      BY <1>5, <1>6, <1>7 DEF Dummies
    <2>2. \A t \in Index : ~ (arp_table'[t].tries >= 2)
      BY <1>8
    <2> QED
      BY <1>8, <2>1, <2>2 DEF Dummies
  <1>10. ScanAsked'
    <2>1. ASSUME NEW r \in Route, r < route \/ r = route
          PROVE  \E t \in Index : arp_table'[t].ip = Gateway[r]
      <3>1. CASE r = route
        BY <1>2, <1>6, <3>1
      <3>2. CASE r < route
        <4>1. PICK t \in Index : arp_table[t].ip = Gateway[r]
          BY <1>5, <3>2 DEF ScanAsked, HasEntry
        <4>2. Gateway[r] # NoIp
          BY RoutesAssumption, ArpConstants DEF NoIp
        <4>3. CASE t # s
          BY <1>6, <4>1, <4>3
        <4>4. CASE t = s
          BY <1>2, <1>6, <4>1, <4>2, <4>4
        <4> QED
          BY <4>3, <4>4
      <3> QED
        BY <2>1, <3>1, <3>2
    <2>2. \A r \in Route : pc' # "scan" \/ r < route' => r < route \/ r = route
      BY <1>1, <1>5, RoutesAssumption DEF ScanStep, Route
    <2> QED
      BY <2>1, <2>2 DEF ScanAsked, HasEntry
  <1> QED
    BY <1>5, <1>9, <1>10 DEF NoFault

\* A reply makes its entry an answered one.
LEMMA ReplyKeepsAnswers ==
    ASSUME CoreInv, ScanAsked, Dummies, Room, ReceiveArpReplyAny
    PROVE  ScanAsked' /\ Dummies' /\ fault' # "sr_router_send"
  <1>1. PICK r \in Reply : ReceiveArpReply(r[1], r[2], r[3])
    BY DEF ReceiveArpReplyAny
  <1> DEFINE ip == r[1]
             s == sr_arp_get(ip)
             e == [ip |-> ip, mac |-> r[2], iface |-> r[3], tries |-> 0, age |-> 0]
  <1>2. ip \in Address /\ r[2] \in Mac /\ r[3] \in Iface
    BY InputsAssumption
  <1>3. s \in Index /\ arp_table[s].ip \in {ip, NoIp}
    BY <1>2, GetStops DEF CoreInv
  <1>4. s # NULL /\ s # SPIN
    BY <1>3 DEF NULL, SPIN, Index
  <1>5. arp_table \in [Index -> Entry]
    BY DEF CoreInv, ArpInv, ArpTypeOK
  <1>6. /\ Running /\ pc = "idle" /\ fault' = NoFault /\ pc' # "scan"
        /\ arp_table' = [arp_table EXCEPT ![s] = e]
    BY <1>1, <1>4 DEF ReceiveArpReply, sr_arp_set, AnsweredEntry, Proceed, EnterResend, AfterResend
  <1>7. ~ Dummy(e) /\ e.tries = 0 /\ e.ip = ip
    BY DEF Dummy
  <1> HIDE DEF s, e
  <1>8. arp_table'[s] = e /\ \A t \in Index \ {s} : arp_table'[t] = arp_table[t]
    BY <1>3, <1>5, <1>6
  <1>9. Dummies'
    BY <1>6, <1>7, <1>8 DEF Dummies
  <1>10. ScanAsked'
    <2> SUFFICES ASSUME NEW q \in Route
                 PROVE  \E t \in Index : arp_table'[t].ip = Gateway[q]
      BY DEF ScanAsked, HasEntry
    <2>1. PICK t \in Index : arp_table[t].ip = Gateway[q]
      BY <1>6 DEF ScanAsked, HasEntry
    <2>2. Gateway[q] # NoIp
      BY RoutesAssumption, ArpConstants DEF NoIp
    <2> QED
      BY <1>3, <1>7, <1>8, <2>1, <2>2
  <1> QED
    BY <1>6, <1>9, <1>10 DEF NoFault

\* A sweep that does not stop the process found no dummy.
LEMMA SweepKeepsAnswers ==
    ASSUME CoreInv, ScanAsked, Dummies, Room, SweepStep
    PROVE  ScanAsked' /\ Dummies' /\ fault' # "sr_router_send"
  <1>1. Running /\ pc = "sweep" /\ pc' = "idle" /\ sr_arp_check_refresh
    BY DEF SweepStep
  <1>2. arp_table \in [Index -> Entry]
    BY DEF CoreInv, ArpInv, ArpTypeOK
  <1>3. CASE Proceed /\ UNCHANGED arp_table
    BY <1>1, <1>3, QuietKeeps DEF Quiet, Proceed, NoFault
  <1>4. CASE StopIn("sr_arp_check_refresh")
    <2>1. fault' = "sr_arp_check_refresh" /\ ~ Running'
      BY <1>4 DEF StopIn, Running, NoFault
    <2> QED
      BY <2>1 DEF ScanAsked, Dummies
  <1>5. CASE /\ \A s \in {t \in Index : Aged(t)} : ~ Nameless(s)
             /\ Proceed
             /\ arp_table' = [s \in Index |->
                   IF Aged(s) THEN [arp_table[s] EXCEPT !.tries = Bump(@)]
                   ELSE arp_table[s]]
    <2>1. \A s \in Index : ~ Dummy(arp_table[s])
      BY <1>1, <1>2, <1>5, ArpConstants DEF Dummies, Dummy, Aged, Nameless
    <2>2. \A s \in Index : /\ arp_table'[s].ip = arp_table[s].ip
                           /\ arp_table'[s].iface = arp_table[s].iface
                           /\ arp_table'[s].mac = arp_table[s].mac
                           /\ arp_table'[s] # arp_table[s] => Aged(s)
      BY <1>2, <1>5 DEF Entry
    <2>3. ASSUME NEW s \in Index PROVE ~ Dummy(arp_table'[s])
      <3>1. CASE Aged(s)
        BY <1>5, <2>2, <3>1 DEF Dummy, Nameless
      <3>2. CASE ~ Aged(s)
        BY <2>1, <2>2, <3>2
      <3> QED
        BY <3>1, <3>2
    <2>4. Dummies'
      BY <1>1, <2>3 DEF Dummies
    <2>5. ScanAsked'
      BY <1>1, <2>2 DEF ScanAsked, HasEntry
    <2> QED
      BY <1>5, <2>4, <2>5 DEF Proceed, NoFault
  <1> QED
    BY <1>1, <1>3, <1>4, <1>5 DEF sr_arp_check_refresh

\* Time makes no dummy and answers none.
LEMMA TickKeepsAnswers ==
    ASSUME CoreInv, ScanAsked, Dummies, Room, Tick
    PROVE  ScanAsked' /\ Dummies' /\ fault' # "sr_router_send"
  <1>1. Running /\ fault' = NoFault /\ UNCHANGED <<pc, route>> /\ AgeEntries
    BY DEF Tick, Proceed
  <1>2. ASSUME NEW s \in Index
        PROVE  /\ arp_table'[s].ip = arp_table[s].ip
               /\ arp_table'[s].tries = arp_table[s].tries
               /\ Dummy(arp_table'[s]) = Dummy(arp_table[s])
               /\ arp_table[s].age = ARP_TTL + 1 => arp_table'[s].age = ARP_TTL + 1
    <2>1. arp_table[s] \in Entry
      BY DEF CoreInv, ArpInv, ArpTypeOK
    <2>2. arp_table'[s] = IF arp_table[s].age <= ARP_TTL
                          THEN [arp_table[s] EXCEPT !.age = @ + 1] ELSE arp_table[s]
      BY <1>1 DEF AgeEntries
    <2>3. CASE arp_table[s].age <= ARP_TTL
      <3>1. /\ arp_table'[s].ip = arp_table[s].ip
            /\ arp_table'[s].mac = arp_table[s].mac
            /\ arp_table'[s].iface = arp_table[s].iface
            /\ arp_table'[s].tries = arp_table[s].tries
        BY <2>1, <2>2, <2>3 DEF Entry
      <3> QED
        BY <2>3, <3>1, ArpConstants DEF Dummy
    <2>4. CASE ~ (arp_table[s].age <= ARP_TTL)
      BY <2>2, <2>4
    <2> QED
      BY <2>3, <2>4
  <1>3. ScanAsked' /\ Dummies'
    BY <1>1, <1>2 DEF ScanAsked, Dummies, HasEntry, Running
  <1> QED
    BY <1>1, <1>3 DEF NoFault

\* What is known of the entries is inductive.
LEMMA AnswerStep ==
    ASSUME AnswerInv, [RouterNext]_routerVars
    PROVE  AnswerInv'
  <1>1. CoreInv'
    BY RouterStep DEF AnswerInv
  <1>2. ASSUME Room PROVE ScanAsked' /\ Dummies' /\ NoUnansweredSend'
    <2>1. CASE UNCHANGED routerVars
      BY <1>2, <2>1 DEF routerVars, arpVars, AnswerInv, ScanAsked, Dummies,
         HasEntry, Running, NoUnansweredSend
    <2>2. CASE RouterNext
      <3>1. CASE ReceiveIpAny \/ ReceiveOther
        BY <1>2, <3>1, ReceiveIsQuiet, QuietKeeps DEF AnswerInv, Quiet, NoUnansweredSend
      <3>2. CASE ResendStep \/ SendStep
        BY <1>2, <3>2, LoopIsQuiet, QuietKeeps DEF AnswerInv, Quiet, NoUnansweredSend
      <3>3. CASE ReceiveArpReplyAny
        BY <1>2, <3>3, ReplyKeepsAnswers DEF AnswerInv, NoUnansweredSend
      <3>4. CASE ScanStep
        BY <1>2, <3>4, ScanKeepsAnswers DEF AnswerInv, NoUnansweredSend
      <3>5. CASE SweepStep
        BY <1>2, <3>5, SweepKeepsAnswers DEF AnswerInv, NoUnansweredSend
      <3>6. CASE Tick
        BY <1>2, <3>6, TickKeepsAnswers DEF AnswerInv, NoUnansweredSend
      <3> QED
        BY <2>2, <3>1, <3>2, <3>3, <3>4, <3>5, <3>6 DEF RouterNext, Receive, Handler
    <2> QED
      BY <2>1, <2>2
  <1>3. Room' = Room
    BY DEF Room
  <1> QED
    BY <1>1, <1>2, <1>3 DEF AnswerInv, ScanAsked, Dummies

\* It holds of the empty table.
LEMMA AnswerInit == RouterInit => AnswerInv
  <1> SUFFICES ASSUME RouterInit PROVE AnswerInv
    OBVIOUS
  <1>1. CoreInv
    BY RouterInitEstablishes
  <1>2. /\ pc = "scan" /\ route = 1 /\ fault = NoFault
        /\ \A s \in Index : arp_table[s] = EmptyEntry
    BY DEF RouterInit, ArpClear
  <1>3. ScanAsked
    BY <1>2 DEF ScanAsked, Route
  <1>4. Dummies
    BY <1>2 DEF Dummies, EmptyEntry, Dummy
  <1> QED
    BY <1>1, <1>2, <1>3, <1>4 DEF AnswerInv, NoUnansweredSend, NoFault

\* So it holds in every state.
LEMMA AnswerInductive == RouterSpec => []AnswerInv
  BY AnswerInit, AnswerStep, PTL DEF RouterSpec

\* With a slot for every address, the forwarding path finds an entry for every
\* gateway once the scan is over (sr_arp.c:238-258, sr_router.c:186-191).
THEOREM GatewaysCorrect == RouterSpec => []GatewaysKnown
  <1>1. ASSUME AnswerInv PROVE GatewaysKnown
    <2> SUFFICES ASSUME Running, pc # "scan", Room, NEW r \in Route
                 PROVE  \E s \in Index : arp_table[s].ip = Gateway[r] /\ sr_arp_get(Gateway[r]) = s
      BY DEF GatewaysKnown, Room
    <2>1. Gateway[r] \in Address /\ HasEntry(Gateway[r])
      BY <1>1, RoutesAssumption DEF AnswerInv, ScanAsked
    <2> QED
      BY <1>1, <2>1, EntryFound DEF AnswerInv, CoreInv
  <1> QED
    BY <1>1, AnswerInductive, PTL

\* With a slot for every address, no frame is built from an entry that was
\* never answered, the error for a dead link included (sr_router.c:197-222).
THEOREM AnsweredCorrect ==
    Cardinality(Address) <= LAN_SIZE => (RouterSpec => []NoUnansweredSend)
  <1> SUFFICES ASSUME Room PROVE RouterSpec => []NoUnansweredSend
    BY DEF Room
  <1>1. AnswerInv => NoUnansweredSend
    BY DEF AnswerInv
  <1> QED
    BY <1>1, AnswerInductive, PTL

-----------------------------------------------------------------------------
(* Order.  An answer makes a gateway good only while the router waits, and *)
(* the walk that follows leaves no packet for a good gateway behind it.    *)

GoodAt(g) == \E s \in Index : arp_table[s].ip = g /\ arp_table[s].tries = 0

FreshAt(g) == \E s \in Index : /\ arp_table[s].ip = g /\ arp_table[s].tries = 0
                               /\ arp_table[s].age <= ARP_TTL

GatewayAt(k) == GatewayOf(items[order[k]].pkt)

\* The packets the walk has passed.
Passed(k) == \A j \in 1..k : order[j] # cur

Fifo ==
    Running =>
        /\ pc = "scan" => Len(order) = 0
        /\ pc = "resend" =>
             \A k \in 1..Len(order) : Passed(k) => ~ GoodAt(GatewayAt(k))
        /\ pc = "send" => \A k \in 1..Len(order) : ~ GoodAt(GatewayAt(k))
        /\ pc \in {"idle", "sweep"} =>
             \A k \in 1..Len(order) : ~ FreshAt(GatewayAt(k))

FifoInv == CoreInv /\ Fifo /\ NoOvertaking

\* Each place of the list holds a packet.
LEMMA PlaceOnList ==
    ASSUME BufInv, NEW k \in 1..Len(order)
    PROVE  order[k] \in Slot /\ items[order[k]].buffered /\ items[order[k]].pkt \in Packet
  <1>1. order[k] \in Slot
    BY DEF BufInv, BufTypeOK
  <1>2. items[order[k]].buffered
    BY <1>1 DEF BufInv, ListIntegrity, PoolIntegrity
  <1> QED
    BY <1>1, <1>2, NextOnList

\* A good entry is found where it is, and what is found elsewhere is not good.
LEMMA GoodFound ==
    ASSUME ArpInv, NEW p \in Packet
    PROVE  /\ Lookup(p) = "good" =>
                /\ SlotOf(p) \in Index
                /\ arp_table[SlotOf(p)].ip = GatewayOf(p)
                /\ arp_table[SlotOf(p)].tries = 0
           /\ Lookup(p) \in {"absent", "pending", "dead"} => ~ GoodAt(GatewayOf(p))
  <1> DEFINE g == GatewayOf(p)
             s == SlotOf(p)
  <1>1. g \in Address /\ g # NoIp
    BY PacketFields, ArpConstants DEF NoIp
  <1>2. ASSUME NEW t \in Index, arp_table[t].ip = g
        PROVE  s = t
    <2>1. Stops(g, t)
      BY <1>2 DEF Stops
    <2>2. PICK k \in Index :
             /\ s = Probe(Hash(g), k)
             /\ Stops(g, Probe(Hash(g), k))
             /\ \A j \in 0..(k - 1) : ~ Stops(g, Probe(Hash(g), j))
      BY <1>1, <2>1, GetResult DEF SlotOf
    <2> QED
      BY <1>1, <1>2, <2>2, Holder DEF ArpInv
  <1>3. \A t \in Index : arp_table[t].tries \in Nat
    BY DEF ArpInv, ArpTypeOK, Entry, Tries
  <1>4. ARP_MAX_TRIES \in Nat \ {0}
    BY TriesAssumption
  <1>5. s \in Index \/ s \in {NULL, SPIN}
    <2>1. \A k \in Index : Probe(Hash(g), k) \in Index
      BY <1>1, HashInIndex, ProbeInIndex
    <2> QED
      BY <1>1, <2>1, GetResult DEF SlotOf
  <1>6. \A t \in Index : t # NULL /\ t # SPIN
    BY DEF NULL, SPIN, Index
  <1>7. NULL # SPIN
    BY DEF NULL, SPIN
  <1>8. CASE s \in {NULL, SPIN}
    BY <1>6, <1>7, <1>8 DEF Lookup
  <1>9. CASE s \in Index
    <2>1. Stops(g, s)
      BY <1>1, <1>9, GetIndex DEF SlotOf
    <2>2. CASE arp_table[s].ip = NoIp
      <3>1. Lookup(p) = "absent"
        BY <1>6, <1>9, <2>2 DEF Lookup
      <3> QED
        BY <1>1, <1>2, <2>2, <3>1 DEF GoodAt
    <2>3. CASE arp_table[s].ip # NoIp
      <3>1. arp_table[s].ip = g
        BY <2>1, <2>3 DEF Stops
      <3>2. Lookup(p) = "good" => arp_table[s].tries = 0
        BY <1>3, <1>4, <1>6, <1>9, <2>3 DEF Lookup
      <3>3. Lookup(p) \in {"absent", "pending", "dead"} => arp_table[s].tries # 0
        BY <1>3, <1>4, <1>6, <1>9, <2>3 DEF Lookup, Dead
      <3> QED
        BY <1>2, <1>9, <3>1, <3>2, <3>3 DEF GoodAt
    <2> QED
      BY <2>2, <2>3
  <1> QED
    BY <1>5, <1>8, <1>9

\* What the search finds tells whether the gateway is good.
LEMMA LookupTells ==
    ASSUME ArpInv, NEW p \in Packet
    PROVE  /\ Lookup(p) = "good" => GoodAt(GatewayOf(p))
           /\ Lookup(p) \in {"absent", "pending", "dead"} => ~ GoodAt(GatewayOf(p))
  BY GoodFound DEF GoodAt

\* Asking for an address makes no gateway good.
LEMMA RefreshNotGood ==
    ASSUME ArpInv, NEW ip \in Address, NEW iface \in Iface, sr_arp_refresh(ip, iface),
           NEW g, \E s \in Index : arp_table'[s].ip = g /\ arp_table'[s].tries = 0
    PROVE  GoodAt(g)
  <1> DEFINE s == sr_arp_get(ip)
  <1>1. CASE UNCHANGED arp_table
    BY <1>1 DEF GoodAt
  <1>2. CASE /\ s \in Index /\ arp_table[s].ip = NoIp
             /\ arp_table' = [arp_table EXCEPT ![s].ip = ip, ![s].tries = Bump(@)]
    <2>1. arp_table \in [Index -> Entry]
      BY DEF ArpInv, ArpTypeOK
    <2>2. arp_table[s] = EmptyEntry
      BY <1>2, ArpConstants DEF ArpInv, EntryKinds, Dummy, Answered
    <2> HIDE DEF s
    <2>3. arp_table'[s] = [EmptyEntry EXCEPT !.ip = ip, !.tries = Bump(0)]
      BY <1>2, <2>1, <2>2 DEF EmptyEntry
    <2>4. Bump(0) = 1
      BY ArpConstants DEF Bump
    <2>5. arp_table'[s].tries = 1
      BY <2>3, <2>4 DEF EmptyEntry
    <2>6. \A t \in Index \ {s} : arp_table'[t] = arp_table[t]
      BY <1>2, <2>1
    <2> QED
      BY <2>5, <2>6 DEF GoodAt
  <1> QED
    BY <1>1, <1>2 DEF sr_arp_refresh

\* Whatever is done with the item, the walk has then passed what it had passed
\* and, if the item is still there, the item.
LEMMA WalkRemoved ==
    ASSUME BufInv, NEW i \in Slot, items[i].buffered, sr_buffer_remove(i),
           NEW k \in 1..Len(order'), \A j \in 1..k : order'[j] # items[i].next
    PROVE  /\ k \in 1..Len(order) /\ order'[k] = order[k]
           /\ \A j \in 1..k : order[j] # i
           /\ items'[order[k]].pkt = items[order[k]].pkt
  <1> DEFINE n == Len(order)
             p == Position(i)
  <1>1. n \in Nat /\ order \in Seq(Slot) /\ items \in [Slot -> Item]
    BY DEF BufInv, BufTypeOK
  <1>2. p \in 1..n /\ order[p] = i
    BY DEF BufInv, ListIntegrity, PoolIntegrity, Position
  <1> HIDE DEF p
  <1>3. order' = [j \in 1..(n - 1) |-> IF j < p THEN order[j] ELSE order[j + 1]]
    BY DEF sr_buffer_remove, Without, p
  <1>4. Len(order') = n - 1
    <2>1. \A j \in 1..(n - 1) : order'[j] \in Slot
      BY <1>1, <1>2, <1>3
    <2>2. order' \in [1..(n - 1) -> Slot] /\ n - 1 \in Nat
      BY <1>1, <1>2, <1>3, <2>1
    <2> QED
      BY <2>2
  <1>5. k < p
    <2> SUFFICES ASSUME k >= p PROVE FALSE
      BY <1>1, <1>2, <1>4
    <2>1. p \in 1..k /\ p \in 1..(n - 1) /\ p # n /\ p + 1 \in 1..n
      BY <1>1, <1>2, <1>4
    <2>2. order'[p] = order[p + 1]
      BY <1>2, <1>3, <2>1
    <2>3. items[i].next = order[p + 1]
      BY <1>2, <2>1 DEF BufInv, ListIntegrity, LinkIntegrity
    <2> QED
      BY <2>1, <2>2, <2>3
  <1>6. k \in 1..n /\ order'[k] = order[k]
    BY <1>1, <1>2, <1>3, <1>4, <1>5
  <1>7. \A j \in 1..k : order[j] # i
    <2> SUFFICES ASSUME NEW j \in 1..k PROVE order[j] # i
      OBVIOUS
    <2>1. j \in 1..n /\ j # p
      BY <1>1, <1>2, <1>5, <1>6
    <2> QED
      BY <1>2, <2>1 DEF BufInv, ListIntegrity, PoolIntegrity
  <1>8. items'[order[k]].pkt = items[order[k]].pkt
    <2>1. order[k] \in Slot /\ order[k] # i
      BY <1>1, <1>6, <1>7
    <2>2. items[order[k]] \in Item
      BY <1>1, <2>1
    <2> QED
      BY <2>1, <2>2 DEF sr_buffer_remove, Item
  <1> QED
    BY <1>6, <1>7, <1>8

\* The same when the item stays: the walk has then passed the item too.
LEMMA WalkKept ==
    ASSUME BufInv, NEW i \in Slot, items[i].buffered,
           NEW k \in 1..Len(order), \A j \in 1..k : order[j] # items[i].next
    PROVE  order[k] = i \/ \A j \in 1..k : order[j] # i
  <1>1. Len(order) \in Nat
    BY DEF BufInv, BufTypeOK
  <1>2. PICK p \in 1..Len(order) : order[p] = i
    BY DEF BufInv, ListIntegrity, PoolIntegrity
  <1>3. k <= p
    <2> SUFFICES ASSUME k > p PROVE FALSE
      BY <1>1, <1>2
    <2>1. p # Len(order) /\ p + 1 \in 1..k
      BY <1>1, <1>2
    <2>2. items[i].next = order[p + 1]
      BY <1>2, <2>1 DEF BufInv, ListIntegrity, LinkIntegrity
    <2> QED
      BY <2>1, <2>2
  <1>4. CASE k = p
    BY <1>2, <1>4
  <1>5. CASE k < p
    <2> SUFFICES ASSUME NEW j \in 1..k PROVE order[j] # i
      OBVIOUS
    <2>1. j \in 1..Len(order) /\ j # p
      BY <1>1, <1>2, <1>5
    <2> QED
      BY <1>2, <2>1 DEF BufInv, ListIntegrity, PoolIntegrity
  <1> QED
    BY <1>1, <1>2, <1>3, <1>4, <1>5

\* Where a walk begins it has passed nothing.
LEMMA EnterFifo ==
    ASSUME CoreInv, NEW h, EnterResend(h), UNCHANGED <<items, start, order>>
    PROVE  Fifo'
  <1>1. Len(order) \in Nat /\ (Len(order) # 0 => order[1] \in Slot /\ start = order[1])
    BY DEF CoreInv, BufInv, BufTypeOK, ListIntegrity, LinkIntegrity
  <1>2. ASSUME NEW k \in 1..Len(order)
        PROVE  pc' = "resend" /\ order[1] = cur' /\ 1 \in 1..k
    BY <1>1, <1>2 DEF EnterResend, Null, Slot
  <1>3. pc' # "scan"
    BY DEF EnterResend, AfterResend
  <1> QED
    BY <1>2, <1>3 DEF Fifo, Passed

\* A frame that is not for a dead link is for the gateway of the packet sent.
LEMMA ReleaseFrame ==
    ASSUME CoreInv, NEW p \in Packet, Release(p), wire' # NoFrame, ~ wire'.bounced
    PROVE  wire'.gw = GatewayOf(p) /\ GoodAt(GatewayOf(p))
  <1>1. ASSUME NEW q, NEW b \in BOOLEAN, Transmit(q, b)
        PROVE  b = FALSE /\ wire'.gw = GatewayOf(q)
    BY <1>1 DEF Transmit, sr_send_packet
  <1>2. CASE Lookup(p) = "good" /\ Transmit(p, FALSE)
    BY <1>1, <1>2, LookupTells DEF CoreInv
  <1> QED
    BY <1>1, <1>2 DEF Release

\* Saving a packet makes no gateway good, and its own is not good.
LEMMA KeepNotGood ==
    ASSUME CoreInv, NEW h, h.pkt \in Packet, Keep(h), NEW g,
           \E s \in Index : arp_table'[s].ip = g /\ arp_table'[s].tries = 0
    PROVE  GoodAt(g) /\ g # GatewayOf(h.pkt)
  <1>1. ~ GoodAt(GatewayOf(h.pkt))
    BY LookupTells DEF Keep, CoreInv
  <1>2. GatewayOf(h.pkt) \in Address /\ InterfaceOf(h.pkt) \in Iface
    BY PacketFields
  <1>3. GoodAt(g)
    <2>1. CASE sr_arp_refresh(GatewayOf(h.pkt), InterfaceOf(h.pkt))
      BY <1>2, <2>1, RefreshNotGood DEF CoreInv
    <2>2. CASE UNCHANGED arp_table
      BY <2>2 DEF GoodAt
    <2> QED
      BY <2>1, <2>2 DEF Keep
  <1> QED
    BY <1>1, <1>3

\* One turn of the loop.
LEMMA ResendFifo ==
    ASSUME CoreInv, Fifo, ResendStep
    PROVE  Fifo' /\ NoOvertaking'
  <1> DEFINE p == items[cur].pkt
             good(g) == \E s \in Index : arp_table'[s].ip = g /\ arp_table'[s].tries = 0
  <1>1. /\ Running /\ pc = "resend" /\ cur \in Slot /\ items[cur].buffered
        /\ cur' = items[cur].next
        /\ pc' = IF cur' = Null THEN AfterResend(hand) ELSE "resend"
    BY DEF ResendStep, NextItem, CoreInv, Control
  <1>2. p \in Packet
    BY <1>1, NextOnList DEF CoreInv
  <1>3. ifidx \in [Route -> Iface \cup {NoIface}]
    BY DEF CoreInv, Control
  <1>4. BufInv'
    BY ResendKeeps DEF CoreInv
  <1>5. \A k \in 1..Len(order) : Passed(k) => ~ GoodAt(GatewayAt(k))
    BY <1>1 DEF Fifo
  <1>6. ASSUME Running',
               \A k \in 1..Len(order') :
                  (\A j \in 1..k : order'[j] # cur')
                     => ~ good(GatewayOf(items'[order'[k]].pkt))
        PROVE  Fifo'
    <2>1. cur' = Null => \A k \in 1..Len(order') : \A j \in 1..k : order'[j] # cur'
      <3> SUFFICES ASSUME cur' = Null, NEW k \in 1..Len(order'), NEW j \in 1..k
                   PROVE  order'[j] # Null
        OBVIOUS
      <3>1. Len(order') \in Nat /\ order' \in Seq(Slot)
        BY <1>4 DEF BufInv, BufTypeOK
      <3>2. j \in 1..Len(order')
        BY <3>1
      <3>3. order'[j] \in Slot
        BY <3>1, <3>2
      <3> QED
        BY <3>3 DEF Null, Slot
    <2>2. cur' = Null => \A k \in 1..Len(order') : ~ good(GatewayOf(items'[order'[k]].pkt))
      BY <1>6, <2>1
    <2>3. pc' \in {"resend", "send", "sweep"} /\ (cur' = Null <=> pc' # "resend")
      BY <1>1 DEF AfterResend
    <2> QED
      BY <1>6, <2>2, <2>3 DEF Fifo, Passed, GatewayAt, GoodAt, FreshAt
  <1>7. CASE ~ Running' /\ wire' = NoFrame
    BY <1>7 DEF Fifo, NoOvertaking
  <1>8. CASE /\ sr_buffer_remove(cur) /\ UNCHANGED arp_table
             /\ wire' # NoFrame /\ ~ wire'.bounced => wire'.gw = GatewayOf(p) /\ GoodAt(GatewayOf(p))
             /\ Running'
    <2>1. ASSUME NEW k \in 1..Len(order'), \A j \in 1..k : order'[j] # cur'
          PROVE  ~ good(GatewayOf(items'[order'[k]].pkt)) /\ ~ GoodAt(GatewayOf(items'[order'[k]].pkt))
      <3>1. /\ k \in 1..Len(order) /\ order'[k] = order[k]
            /\ Passed(k) /\ items'[order[k]].pkt = items[order[k]].pkt
        BY <1>1, <1>8, <2>1, WalkRemoved DEF CoreInv, Passed
      <3> QED
        BY <1>5, <1>8, <3>1 DEF GatewayAt, GoodAt
    <2>2. NoOvertaking'
      <3> SUFFICES ASSUME wire' # NoFrame, ~ wire'.bounced, NEW k \in 1..Len(order'),
                          GatewayOf(items'[order'[k]].pkt) = wire'.gw,
                          \A j \in 1..k : order'[j] # cur'
                   PROVE  FALSE
        BY DEF NoOvertaking, GatewayOf
      <3> QED
        BY <1>8, <2>1
    <2> QED
      BY <1>6, <1>8, <2>1, <2>2
  <1>9. CASE Keep(items[cur]) /\ Running'
    <2>1. wire' = NoFrame /\ UNCHANGED bufVars
      BY <1>1, <1>2, <1>9, KeepPreserves DEF CoreInv
    <2>2. ASSUME NEW k \in 1..Len(order'), \A j \in 1..k : order'[j] # cur',
                 good(GatewayOf(items'[order'[k]].pkt))
          PROVE  FALSE
      <3>1. UNCHANGED <<items, order>>
        BY <2>1 DEF bufVars
      <3>2. GoodAt(GatewayAt(k)) /\ GatewayAt(k) # GatewayOf(p)
        BY <1>2, <1>9, <2>2, <3>1, KeepNotGood DEF GatewayAt
      <3>3. order[k] = cur \/ Passed(k)
        BY <1>1, <2>2, <3>1, WalkKept DEF CoreInv, Passed
      <3> QED
        BY <1>5, <2>2, <3>1, <3>2, <3>3 DEF GatewayAt
    <2> QED
      BY <1>6, <1>9, <2>1, <2>2 DEF NoOvertaking
  <1>10. Keep(items[cur]) => Running'
    BY <1>1 DEF Keep, sr_buffer_add, Proceed, Running
  <1>11. Proceed => Running'
    BY DEF Proceed, Running
  <1>12. CASE Release(p) /\ sr_buffer_remove(cur)
    <2>1. UNCHANGED arp_table /\ Running'
      BY <1>2, <1>3, <1>12, ReleasePreserves DEF CoreInv, Running
    <2> QED
      BY <1>2, <1>8, <1>12, <2>1, ReleaseFrame
  <1>13. CASE SendFaults(p)
    BY <1>2, <1>3, <1>7, <1>13, FaultsPreserve DEF CoreInv
  <1> QED
    BY <1>8, <1>9, <1>10, <1>11, <1>12, <1>13 DEF ResendStep

\* The packet in hand, after the walk.
LEMMA SendFifo ==
    ASSUME CoreInv, Fifo, SendStep
    PROVE  Fifo' /\ NoOvertaking'
  <1>1. /\ Running /\ pc = "send" /\ hand \in Packet /\ pc' = "sweep"
        /\ \A k \in 1..Len(order) : ~ GoodAt(GatewayAt(k))
    BY DEF SendStep, CoreInv, Control, Fifo
  <1>2. ifidx \in [Route -> Iface \cup {NoIface}]
    BY DEF CoreInv, Control
  <1>3. CASE Release(hand) /\ UNCHANGED bufVars
    <2>1. UNCHANGED arp_table
      BY <1>1, <1>2, <1>3, ReleasePreserves DEF CoreInv
    <2>2. Fifo'
      BY <1>1, <1>3, <2>1 DEF Fifo, bufVars, GoodAt, FreshAt, GatewayAt, GatewayOf
    <2>3. NoOvertaking'
      <3> SUFFICES ASSUME wire' # NoFrame, ~ wire'.bounced, NEW k \in 1..Len(order),
                          GatewayOf(items[order[k]].pkt) = wire'.gw
                   PROVE  FALSE
        BY <1>3 DEF NoOvertaking, bufVars, GatewayOf
      <3> QED
        BY <1>1, <1>3, ReleaseFrame DEF GatewayAt
    <2> QED
      BY <2>2, <2>3
  <1>4. CASE Keep(Fresh(hand))
    <2>1. wire' = NoFrame /\ sr_buffer_add(Fresh(hand)) /\ Fresh(hand).pkt = hand
      BY <1>4 DEF Keep, Fresh
    <2>2. CASE FreeSlots = {}
      BY <2>1, <2>2 DEF sr_buffer_add, Fresh, StopIn, Fifo, Running, NoOvertaking,
         NoFault
    <2>3. CASE FreeSlots # {}
      <3> DEFINE i == sr_buffer_malloc
      <3>1. i \in FreeSlots /\ Append_item(i, hand)
        BY <2>1, <2>3, MallocFree DEF sr_buffer_add, Fresh
      <3> HIDE DEF i
      <3>2. order \in Seq(Slot) /\ Len(order) \in Nat /\ items \in [Slot -> Item]
        BY DEF CoreInv, BufInv, BufTypeOK
      <3>3. i \in Slot /\ order' = Append(order, i)
        BY <3>1 DEF FreeSlots, Append_item
      <3>4. ASSUME NEW k \in 1..Len(order')
            PROVE  \/ order'[k] = i
                   \/ k \in 1..Len(order) /\ order'[k] = order[k] /\ order[k] # i
        <4>1. k \in 1..Len(order) \/ order'[k] = i
          BY <3>2, <3>3
        <4>2. CASE k \in 1..Len(order)
          <5>1. items[order[k]].buffered /\ ~ items[i].buffered
            BY <3>1, <4>2, PlaceOnList DEF CoreInv, FreeSlots
          <5> QED
            BY <3>2, <3>3, <4>2, <5>1
        <4> QED
          BY <4>1, <4>2
      <3>5. /\ items'[i].pkt = hand
            /\ \A j \in Slot : j # i => items'[j].pkt = items[j].pkt
        BY <3>1, <3>2, <3>3 DEF Append_item, Item
      <3>6. ASSUME NEW k \in 1..Len(order'),
                   \E s \in Index : /\ arp_table'[s].ip = GatewayOf(items'[order'[k]].pkt)
                                    /\ arp_table'[s].tries = 0
            PROVE  FALSE
        <4> DEFINE g == GatewayOf(items'[order'[k]].pkt)
        <4>1. GoodAt(g) /\ g # GatewayOf(hand)
          BY <1>1, <1>4, <2>1, <3>6, KeepNotGood
        <4>2. k \in 1..Len(order) /\ order'[k] = order[k] /\ order[k] # i
          BY <3>4, <3>5, <4>1
        <4>3. order[k] \in Slot
          BY <3>2, <4>2
        <4>4. g = GatewayAt(k)
          BY <3>5, <4>2, <4>3 DEF GatewayAt
        <4> QED
          BY <1>1, <4>1, <4>2, <4>4
      <3>7. Fifo'
        BY <1>1, <3>6 DEF Fifo, FreshAt, GatewayAt
      <3> QED
        BY <2>1, <3>7 DEF NoOvertaking
    <2> QED
      BY <2>2, <2>3
  <1>5. CASE SendFaults(hand)
    BY <1>1, <1>2, <1>5, FaultsPreserve DEF CoreInv, Fifo, NoOvertaking
  <1> QED
    BY <1>3, <1>4, <1>5 DEF SendStep

\* Time makes no entry fresh.
LEMMA TimeFifo ==
    ASSUME CoreInv, Fifo, Tick
    PROVE  Fifo' /\ NoOvertaking'
  <1>1. Running /\ UNCHANGED <<pc, cur, order>> /\ wire' = NoFrame
        /\ AgeEntries /\ AgePackets
    BY DEF Tick, AgePackets
  <1>2. ASSUME NEW s \in Index
        PROVE  /\ arp_table'[s].ip = arp_table[s].ip
               /\ arp_table'[s].tries = arp_table[s].tries
               /\ arp_table'[s].age <= ARP_TTL => arp_table[s].age <= ARP_TTL
    <2>1. arp_table[s] \in Entry
      BY DEF CoreInv, ArpInv, ArpTypeOK
    <2>2. arp_table'[s] = IF arp_table[s].age <= ARP_TTL
                          THEN [arp_table[s] EXCEPT !.age = @ + 1] ELSE arp_table[s]
      BY <1>1 DEF AgeEntries
    <2> QED
      BY <2>1, <2>2 DEF Entry
  <1>3. ASSUME NEW k \in 1..Len(order)
        PROVE  items'[order[k]].pkt = items[order[k]].pkt
    <2>1. order[k] \in Slot /\ items[order[k]] \in Item
      BY DEF CoreInv, BufInv, BufTypeOK
    <2>2. items'[order[k]] = IF items[order[k]].buffered /\ items[order[k]].age <= PACKET_TOO_OLD
                             THEN [items[order[k]] EXCEPT !.age = @ + 1]
                             ELSE items[order[k]]
      BY <1>1, <2>1 DEF AgePackets
    <2> QED
      BY <2>1, <2>2 DEF Item
  <1>4. ASSUME NEW k \in 1..Len(order)
        PROVE  /\ GoodAt(GatewayAt(k))' => GoodAt(GatewayAt(k))
               /\ FreshAt(GatewayAt(k))' => FreshAt(GatewayAt(k))
               /\ Passed(k)' => Passed(k)
    <2>1. GatewayOf(items[order[k]].pkt)' = GatewayOf(items[order[k]].pkt)
      BY <1>1, <1>3 DEF GatewayOf
    <2>2. GatewayAt(k)' = GatewayAt(k)
      BY <2>1 DEF GatewayAt
    <2>3. GoodAt(GatewayAt(k))' => GoodAt(GatewayAt(k))
      BY <1>2, <2>2 DEF GoodAt
    <2>4. FreshAt(GatewayAt(k))' => FreshAt(GatewayAt(k))
      BY <1>2, <2>2 DEF FreshAt
    <2> QED
      BY <1>1, <2>3, <2>4 DEF Passed
  <1>5. Fifo'
    BY <1>1, <1>4 DEF Fifo, Running
  <1> QED
    BY <1>1, <1>5 DEF NoOvertaking

\* The sweep makes no entry fresh: what it changes is past its TTL.
LEMMA SweepFifo ==
    ASSUME CoreInv, Fifo, SweepStep
    PROVE  Fifo' /\ NoOvertaking'
  <1>1. /\ Running /\ pc = "sweep" /\ pc' = "idle" /\ UNCHANGED <<items, order>>
        /\ wire' = NoFrame /\ sr_arp_check_refresh
    BY DEF SweepStep, bufVars
  <1>2. ASSUME NEW g, \E s \in Index : /\ arp_table'[s].ip = g
                                       /\ arp_table'[s].tries = 0
                                       /\ arp_table'[s].age <= ARP_TTL
        PROVE  FreshAt(g)
    <2>1. arp_table \in [Index -> Entry]
      BY DEF CoreInv, ArpInv, ArpTypeOK
    <2>2. CASE UNCHANGED arp_table
      BY <1>2, <2>2 DEF FreshAt
    <2>3. CASE arp_table' = [s \in Index |->
                 IF Aged(s) THEN [arp_table[s] EXCEPT !.tries = Bump(@)]
                 ELSE arp_table[s]]
      <3>1. PICK s \in Index : /\ arp_table'[s].ip = g /\ arp_table'[s].tries = 0
                               /\ arp_table'[s].age <= ARP_TTL
        BY <1>2
      <3>2. arp_table[s] \in Entry
        BY <2>1
      <3>3. arp_table'[s] = IF Aged(s) THEN [arp_table[s] EXCEPT !.tries = Bump(@)]
                            ELSE arp_table[s]
        BY <2>3
      <3>4. arp_table'[s].age = arp_table[s].age
        BY <3>2, <3>3 DEF Entry
      <3>5. ~ Aged(s)
        BY <3>1, <3>2, <3>4, ArpTimesAssumption DEF Aged, Entry, EntryAge
      <3> QED
        BY <3>1, <3>3, <3>5 DEF FreshAt
    <2> QED
      BY <1>1, <2>2, <2>3 DEF sr_arp_check_refresh
  <1>3. Fifo'
    BY <1>1, <1>2 DEF Fifo, GatewayAt, GatewayOf, FreshAt
  <1> QED
    BY <1>1, <1>3 DEF NoOvertaking

\* During the scan the buffer is empty.
LEMMA ScanFifo ==
    ASSUME CoreInv, Fifo, ScanStep
    PROVE  Fifo' /\ NoOvertaking'
  <1>1. Len(order) = 0 /\ UNCHANGED order /\ pc' \in {"scan", "sweep"} /\ wire' = NoFrame
    BY DEF Fifo, ScanStep, bufVars
  <1> QED
    BY <1>1 DEF Fifo, NoOvertaking

\* A message begins a walk, or leaves entries and packets alone.
LEMMA ReceiveFifo ==
    ASSUME CoreInv, Fifo, Receive
    PROVE  Fifo' /\ NoOvertaking'
  <1>1. CASE Running /\ pc = "idle" /\ Handled
    <2>1. /\ Running /\ pc = "idle" /\ pc' = "sweep" /\ wire' = NoFrame
          /\ UNCHANGED <<items, order, arp_table>>
      BY <1>1 DEF Handled, bufVars
    <2> QED
      BY <2>1 DEF Fifo, GatewayAt, GatewayOf, FreshAt, NoOvertaking
  <1>2. ASSUME NEW p, ToSend(p)
        PROVE  Fifo' /\ NoOvertaking'
    <2>1. EnterResend(p) /\ UNCHANGED <<items, start, order>> /\ wire' = NoFrame
      BY <1>2 DEF ToSend, bufVars
    <2> QED
      BY <2>1, EnterFifo DEF NoOvertaking
  <1>3. ASSUME NEW f \in {"sr_icmp_unreachable", "sr_icmp_handler"}, MessageFaults(f)
        PROVE  Fifo' /\ NoOvertaking'
    <2>1. ~ Running' /\ wire' = NoFrame
      BY <1>3 DEF MessageFaults, Stop, StopIn, Running, NoFault
    <2> QED
      BY <2>1 DEF Fifo, NoOvertaking
  <1>4. ASSUME NEW p, NEW proto, NEW ttlLeft, NEW checksumOk,
               ReceiveIp(p, proto, ttlLeft, checksumOk)
        PROVE  Fifo' /\ NoOvertaking'
    <2>1. Running /\ pc = "idle"
      BY <1>4 DEF ReceiveIp
    <2>2. Handled \/ Unreachable(p) \/ IcmpHandler(p, proto) \/ ToSend(p)
      BY <1>4 DEF ReceiveIp
    <2>3. CASE Unreachable(p)
      BY <1>2, <1>3, <2>3 DEF Unreachable
    <2>4. CASE IcmpHandler(p, proto)
      BY <1>1, <1>2, <1>3, <2>1, <2>4 DEF IcmpHandler
    <2> QED
      BY <1>1, <1>2, <2>1, <2>2, <2>3, <2>4
  <1>5. ASSUME NEW ip, NEW mac, NEW iface, ReceiveArpReply(ip, mac, iface)
        PROVE  Fifo' /\ NoOvertaking'
    <2>1. EnterResend(NoPacket) /\ UNCHANGED <<items, start, order>> /\ wire' = NoFrame
      BY <1>5 DEF ReceiveArpReply, bufVars
    <2> QED
      BY <2>1, EnterFifo DEF NoOvertaking
  <1> QED
    BY <1>1, <1>4, <1>5 DEF Receive, ReceiveIpAny, ReceiveArpReplyAny, ReceiveOther

\* The order is inductive.
LEMMA FifoStep ==
    ASSUME FifoInv, [RouterNext]_routerVars
    PROVE  FifoInv'
  <1>1. CASE UNCHANGED routerVars
    BY <1>1, RouterStep DEF routerVars, arpVars, bufVars, FifoInv, Fifo, Passed,
       GatewayAt, GatewayOf, GoodAt, FreshAt, NoOvertaking, Running
  <1> QED
    BY <1>1, RouterStep, ScanFifo, ReceiveFifo, ResendFifo, SendFifo, SweepFifo,
       TimeFifo DEF RouterNext, Handler, FifoInv

\* So it holds in every state.
LEMMA FifoInductive == RouterSpec => []FifoInv
  <1>1. RouterInit => FifoInv
    <2> SUFFICES ASSUME RouterInit PROVE FifoInv
      OBVIOUS
    <2>1. order = <<>> /\ pc = "scan" /\ wire = NoFrame
      BY DEF RouterInit, sr_buffer_clear
    <2> QED
      BY <2>1, RouterInitEstablishes DEF FifoInv, Fifo, NoOvertaking
  <1> QED
    BY <1>1, FifoStep, PTL DEF RouterSpec

\* Packets for one gateway leave in the order they arrived, whatever is
\* answered, lost or too old on the way (sr_router.c:186-271).
THEOREM OrderCorrect == RouterSpec => []NoOvertaking
  <1>1. FifoInv => NoOvertaking
    BY DEF FifoInv
  <1> QED
    BY <1>1, FifoInductive, PTL

\* While the router waits for a message no packet waits for a gateway whose
\* answer is fresh (sr_router.c:166-180, 257-271).
THEOREM StrandedCorrect == RouterSpec => []NoStranded
  <1>1. ASSUME FifoInv PROVE NoStranded
    <2> SUFFICES ASSUME Running, pc = "idle", NEW i \in Slot, items[i].buffered,
                        Lookup(items[i].pkt) = "good"
                 PROVE  arp_table[SlotOf(items[i].pkt)].age > ARP_TTL
      BY DEF NoStranded
    <2>1. PICK k \in 1..Len(order) : order[k] = i
      BY <1>1 DEF FifoInv, CoreInv, BufInv, ListIntegrity, PoolIntegrity
    <2>2. items[i].pkt \in Packet /\ ~ FreshAt(GatewayOf(items[i].pkt))
      BY <1>1, <2>1, PlaceOnList DEF FifoInv, CoreInv, Fifo, GatewayAt
    <2>3. /\ SlotOf(items[i].pkt) \in Index
          /\ arp_table[SlotOf(items[i].pkt)].ip = GatewayOf(items[i].pkt)
          /\ arp_table[SlotOf(items[i].pkt)].tries = 0
      BY <1>1, <2>2, GoodFound DEF FifoInv, CoreInv
    <2>4. arp_table[SlotOf(items[i].pkt)] \in Entry
      BY <1>1, <2>3 DEF FifoInv, CoreInv, ArpInv, ArpTypeOK
    <2> QED
      BY <2>2, <2>3, <2>4, ArpTimesAssumption DEF FreshAt, Entry, EntryAge
  <1> QED
    BY <1>1, FifoInductive, PTL

-----------------------------------------------------------------------------
(* Loss.  A frame is refused only if its entry was learnt on another       *)
(* interface than the route's.                                             *)

\* The interface of an entry is one its address was heard on.
Faces ==
    \A s \in Index : arp_table[s].iface # NoIface =>
        \E r \in Reply : arp_table[s].ip = r[1] /\ arp_table[s].iface = r[3]

FaceInv == CoreInv /\ Faces

\* What an entry's interface can become: it stays, there is none, or a reply
\* was heard on it.
FaceStays(s) ==
    \/ /\ arp_table'[s].ip = arp_table[s].ip
       /\ arp_table'[s].iface = arp_table[s].iface
    \/ arp_table'[s].iface = NoIface
    \/ \E r \in Reply : arp_table'[s].ip = r[1] /\ arp_table'[s].iface = r[3]

\* Asking for an address gives no entry an interface.
LEMMA RefreshFaces ==
    ASSUME ArpInv, NEW ip \in Address, NEW iface, sr_arp_refresh(ip, iface),
           NEW s \in Index
    PROVE  FaceStays(s)
  <1> DEFINE t == sr_arp_get(ip)
  <1>1. arp_table \in [Index -> Entry]
    BY DEF ArpInv, ArpTypeOK
  <1>2. CASE UNCHANGED arp_table
    BY <1>2 DEF FaceStays
  <1>3. CASE /\ t \in Index /\ arp_table[t].ip = NoIp
             /\ arp_table' = [arp_table EXCEPT ![t].ip = ip, ![t].tries = Bump(@)]
    <2>1. arp_table[t] = EmptyEntry
      BY <1>3, ArpConstants DEF ArpInv, EntryKinds, Dummy, Answered
    <2> HIDE DEF t
    <2>2. arp_table'[t] = [EmptyEntry EXCEPT !.ip = ip, !.tries = Bump(0)]
      BY <1>1, <1>3, <2>1 DEF EmptyEntry
    <2>3. arp_table'[t].iface = NoIface
      BY <2>2 DEF EmptyEntry
    <2>4. s # t => arp_table'[s] = arp_table[s]
      BY <1>1, <1>3
    <2> QED
      BY <2>3, <2>4 DEF FaceStays
  <1> QED
    BY <1>2, <1>3 DEF sr_arp_refresh

\* No step gives an entry another interface than a reply's.
LEMMA StepFaces ==
    ASSUME CoreInv, RouterNext, NEW s \in Index
    PROVE  FaceStays(s)
  <1>1. arp_table \in [Index -> Entry]
    BY DEF CoreInv, ArpInv, ArpTypeOK
  <1>2. UNCHANGED arp_table => FaceStays(s)
    BY DEF FaceStays
  <1>3. ifidx \in [Route -> Iface \cup {NoIface}]
    BY DEF CoreInv, Control
  <1>4. ASSUME NEW p \in Packet, Release(p) \/ SendFaults(p)
        PROVE  FaceStays(s)
    BY <1>2, <1>3, <1>4, ReleasePreserves, FaultsPreserve DEF CoreInv
  <1>5. ASSUME NEW h, h.pkt \in Packet, Keep(h)
        PROVE  FaceStays(s)
    BY <1>2, <1>5, PacketFields, RefreshFaces DEF Keep, CoreInv
  <1>6. CASE ScanStep
    BY <1>6, RoutesAssumption, RefreshFaces DEF ScanStep, CoreInv, Control
  <1>7. CASE ReceiveIpAny \/ ReceiveOther
    BY <1>2, <1>7, ReceiveIsQuiet DEF Quiet
  <1>8. CASE ReceiveArpReplyAny
    <2>1. PICK r \in Reply : sr_arp_set(r[1], r[2], r[3])
      BY <1>8 DEF ReceiveArpReplyAny, ReceiveArpReply
    <2> DEFINE t == sr_arp_get(r[1])
    <2>2. CASE UNCHANGED arp_table
      BY <1>2, <2>2
    <2>3. CASE /\ t \in Index
               /\ arp_table' = [arp_table EXCEPT ![t] =
                     [ip |-> r[1], mac |-> r[2], iface |-> r[3],
                      tries |-> 0, age |-> 0]]
      <3> HIDE DEF t
      <3>1. s # t => arp_table'[s] = arp_table[s]
        BY <1>1, <2>3
      <3>2. arp_table'[t].ip = r[1] /\ arp_table'[t].iface = r[3]
        BY <1>1, <2>3
      <3> QED
        BY <3>1, <3>2 DEF FaceStays
    <2> QED
      BY <2>1, <2>2, <2>3 DEF sr_arp_set, AnsweredEntry
  <1>9. CASE ResendStep
    <2>1. items[cur].pkt \in Packet
      BY <1>9, NextOnList DEF ResendStep, CoreInv, Control
    <2>2. CASE UNCHANGED arp_table
      BY <1>2, <2>2
    <2> QED
      BY <1>4, <1>5, <1>9, <2>1, <2>2 DEF ResendStep
  <1>10. CASE SendStep
    <2>1. hand \in Packet
      BY <1>10 DEF SendStep, CoreInv, Control
    <2> QED
      BY <1>4, <1>5, <1>10, <2>1 DEF SendStep, Fresh
  <1>11. CASE SweepStep
    <2>1. CASE UNCHANGED arp_table
      BY <1>2, <2>1
    <2>2. CASE arp_table' = [t \in Index |->
                 IF Aged(t) THEN [arp_table[t] EXCEPT !.tries = Bump(@)]
                 ELSE arp_table[t]]
      <3>1. arp_table[s] \in Entry
        BY <1>1
      <3>2. arp_table'[s] = IF Aged(s) THEN [arp_table[s] EXCEPT !.tries = Bump(@)]
                            ELSE arp_table[s]
        BY <2>2
      <3> QED
        BY <3>1, <3>2 DEF FaceStays, Entry
    <2> QED
      BY <1>11, <2>1, <2>2 DEF SweepStep, sr_arp_check_refresh
  <1>12. CASE Tick
    <2>1. arp_table[s] \in Entry
      BY <1>1
    <2>2. arp_table'[s] = IF arp_table[s].age <= ARP_TTL
                          THEN [arp_table[s] EXCEPT !.age = @ + 1] ELSE arp_table[s]
      BY <1>12 DEF Tick, AgeEntries
    <2> QED
      BY <2>1, <2>2 DEF FaceStays, Entry
  <1> QED
    BY <1>6, <1>7, <1>8, <1>9, <1>10, <1>11, <1>12 DEF RouterNext, Receive, Handler

\* The interfaces of the entries, in every state.
LEMMA FaceInductive == RouterSpec => []FaceInv
  <1>1. RouterInit => FaceInv
    <2> SUFFICES ASSUME RouterInit PROVE FaceInv
      OBVIOUS
    <2>1. \A s \in Index : arp_table[s].iface = NoIface
      BY DEF RouterInit, ArpClear, EmptyEntry
    <2> QED
      BY <2>1, RouterInitEstablishes DEF FaceInv, Faces
  <1>2. FaceInv /\ [RouterNext]_routerVars => FaceInv'
    <2> SUFFICES ASSUME FaceInv, [RouterNext]_routerVars PROVE FaceInv'
      OBVIOUS
    <2>1. CASE UNCHANGED routerVars
      BY <2>1, RouterStep DEF routerVars, arpVars, FaceInv, Faces
    <2>2. CASE RouterNext
      <3>1. \A s \in Index : FaceStays(s)
        BY <2>2, StepFaces DEF FaceInv
      <3>2. Faces'
        BY <3>1 DEF FaceInv, Faces, FaceStays
      <3> QED
        BY <3>2, RouterStep DEF FaceInv
    <2> QED
      BY <2>1, <2>2
  <1> QED
    BY <1>1, <1>2, PTL DEF RouterSpec

\* What sr_router_send takes for sent was given to the server, and refused only for
\* a MAC of another interface.
LEMMA ReleaseAccounted ==
    ASSUME FaceInv, NEW p \in Packet, Release(p), NEW age
    PROVE  Accounted(p, FALSE, age)
  <1> SUFFICES ASSUME Lookup(p) = "good", Transmit(p, FALSE)
               PROVE  /\ wire'.gw = GatewayOf(p)
                      /\ \/ wire'.fate \in {"sent", "unwritten"}
                         \/ wire'.fate = "refused" /\ HeardElsewhere(p)
    BY DEF Release, Accounted
  <1> DEFINE source == arp_table[SlotOf(p)].iface
  <1>1. SlotOf(p) \in Index /\ arp_table[SlotOf(p)].ip = GatewayOf(p)
    BY GoodFound DEF FaceInv, CoreInv
  <1>2. PICK fate \in IF source = InterfaceOf(p) THEN {"sent", "unwritten"} ELSE {"refused"} :
          wire' = [gw |-> GatewayOf(p), bounced |-> FALSE, fate |-> fate]
    BY DEF Transmit, sr_send_packet, sr_ether_addrs_match_interface
  <1>3. \E r \in Reply : GatewayOf(p) = r[1] /\ source = r[3]
    BY <1>1 DEF FaceInv, Faces, Transmit, Faceless
  <1>4. source # InterfaceOf(p) => HeardElsewhere(p)
    BY <1>3 DEF HeardElsewhere, InterfaceOf
  <1> QED
    BY <1>2, <1>4

\* No packet that the router accepted leaves it silently but by age, over a dead
\* link, in a failed write, or refused where a reply was heard on another
\* interface than the route's (sr_router.c:186-238, 263-269; sr_vns_comm.c:592-608).
THEOREM LossCorrect == RouterSpec => NoSilentLoss
  <1>1. ASSUME FaceInv, RouterNext, pc = "resend", Running'
        PROVE  Accounted(items[cur].pkt, items'[cur].buffered, items[cur].age) \/ cur' = cur
    <2>1. CASE ResendStep
      <3>1. items[cur].pkt \in Packet /\ items[cur].buffered /\ cur \in Slot
        BY <1>1, <2>1, NextOnList DEF ResendStep, FaceInv, CoreInv, Control
      <3>2. ASSUME sr_buffer_remove(cur) PROVE items'[cur].buffered = FALSE
        <4>1. items'[cur] = FreeItem
          BY <3>1, <3>2 DEF sr_buffer_remove
        <4> QED
          BY <4>1 DEF FreeItem
      <3>3. CASE TooOld(cur) /\ sr_buffer_remove(cur)
        BY <3>2, <3>3 DEF Accounted, TooOld
      <3>4. CASE Release(items[cur].pkt) /\ sr_buffer_remove(cur)
        BY <1>1, <3>1, <3>2, <3>4, ReleaseAccounted
      <3>5. CASE ~ TooOld(cur) /\ Keep(items[cur])
        <4>1. UNCHANGED bufVars /\ wire' = NoFrame
          BY <1>1, <3>1, <3>5, KeepPreserves DEF FaceInv, CoreInv
        <4>2. items[cur].age <= PACKET_TOO_OLD
          <5>1. items[cur].age \in Nat /\ PACKET_TOO_OLD \in Nat
            BY <1>1, <3>1, TooOldAssumption DEF FaceInv, CoreInv, BufInv, BufTypeOK,
               Item, PacketAge
          <5> QED
            BY <3>5, <5>1 DEF TooOld
        <4> QED
          BY <3>1, <4>1, <4>2 DEF Accounted, bufVars
      <3>6. CASE SendFaults(items[cur].pkt)
        BY <3>1, <3>6, <1>1, FaultsPreserve DEF FaceInv, CoreInv, Control
      <3> QED
        BY <2>1, <3>3, <3>4, <3>5, <3>6 DEF ResendStep
    <2>2. CASE Tick
      BY <2>2 DEF Tick
    <2> QED
      BY <1>1, <2>1, <2>2 DEF RouterNext, Receive, Handler, ReceiveIpAny, ReceiveIp,
         ReceiveArpReplyAny, ReceiveArpReply, ReceiveOther, ScanStep, SendStep, SweepStep
  <1>2. ASSUME FaceInv, RouterNext, pc = "send", Running'
        PROVE  Accounted(hand, Len(order') = Len(order) + 1, 0) \/ pc' = pc
    <2>1. CASE SendStep
      <3>1. hand \in Packet /\ order \in Seq(Slot)
        BY <1>2, <2>1 DEF SendStep, FaceInv, CoreInv, Control, BufInv, BufTypeOK
      <3>2. CASE Release(hand) /\ UNCHANGED bufVars
        <4>1. (Len(order') = Len(order) + 1) = FALSE
          BY <3>1, <3>2 DEF bufVars
        <4> QED
          BY <1>2, <3>1, <3>2, <4>1, ReleaseAccounted
      <3>3. CASE Keep(Fresh(hand))
        <4>1. sr_buffer_add(Fresh(hand)) /\ ~ Fresh(hand).buffered
          BY <3>3 DEF Keep, Fresh
        <4>2. FreeSlots # {} /\ Append_item(sr_buffer_malloc, Fresh(hand).pkt)
          BY <1>2, <4>1 DEF sr_buffer_add, StopIn, Running, NoFault
        <4>3. order' = Append(order, sr_buffer_malloc) /\ sr_buffer_malloc \in Slot
          BY <4>2, MallocFree DEF Append_item, FreeSlots
        <4>4. Len(order') = Len(order) + 1 /\ wire' = NoFrame /\ 0 <= PACKET_TOO_OLD
          BY <3>1, <3>3, <4>3, TooOldAssumption DEF Keep
        <4> QED
          BY <4>4 DEF Accounted
      <3>4. CASE SendFaults(hand)
        BY <3>1, <3>4, <1>2, FaultsPreserve DEF FaceInv, CoreInv, Control
      <3> QED
        BY <2>1, <3>2, <3>3, <3>4 DEF SendStep
    <2>2. CASE Tick
      BY <2>2 DEF Tick
    <2> QED
      BY <1>2, <2>1, <2>2 DEF RouterNext, Receive, Handler, ReceiveIpAny, ReceiveIp,
         ReceiveArpReplyAny, ReceiveArpReply, ReceiveOther, ScanStep, ResendStep, SweepStep
  <1>3. FaceInv /\ [RouterNext]_routerVars
          => [/\ pc = "resend" /\ cur' # cur /\ Running'
                   => Accounted(items[cur].pkt, items'[cur].buffered, items[cur].age)
              /\ pc = "send" /\ pc' # pc /\ Running'
                   => Accounted(hand, Len(order') = Len(order) + 1, 0)
             ]_routerVars
    BY <1>1, <1>2
  <1> QED
    BY <1>3, FaceInductive, PTL DEF RouterSpec, NoSilentLoss

-----------------------------------------------------------------------------
(* The thread comes nearer to reading with every step.                      *)

\* The place that Position finds is the only one.
LEMMA OnlyPlace ==
    ASSUME NEW s, NEW i, NEW p \in 1..Len(s), s[p] = i,
           \A k \in 1..Len(s) : s[k] = i => k = p
    PROVE  (CHOOSE k \in 1..Len(s) : s[k] = i) = p
  OBVIOUS

\* Where an item stands, and where the item after it stands.
LEMMA PlaceOfItem ==
    ASSUME BufInv, NEW i \in Slot, items[i].buffered
    PROVE  /\ Position(i) \in 1..Len(order) /\ order[Position(i)] = i
           /\ items[i].next = IF Position(i) = Len(order) THEN Null
                              ELSE order[Position(i) + 1]
  <1>1. Position(i) \in 1..Len(order) /\ order[Position(i)] = i
    BY DEF BufInv, ListIntegrity, PoolIntegrity, Position
  <1> QED
    BY <1>1 DEF BufInv, ListIntegrity, LinkIntegrity

\* The item after the one the walk stands on is one place nearer to the end, whether
\* the one it stands on is unlinked or not.
LEMMA WalkAdvances ==
    ASSUME BufInv, BufInv', NEW i \in Slot, items[i].buffered, items[i].next # Null,
           sr_buffer_remove(i) \/ UNCHANGED order
    PROVE  /\ Len(order) \in Nat /\ Position(i) \in 1..Len(order)
           /\ LET q == CHOOSE k \in 1..Len(order') : order'[k] = items[i].next
              IN  Len(order') - q = Len(order) - Position(i) - 1
  <1> DEFINE n == Len(order)
             p == Position(i)
             next == items[i].next
             q == CHOOSE k \in 1..Len(order') : order'[k] = next
  <1>1. n \in Nat /\ order \in Seq(Slot) /\ order' \in Seq(Slot)
    BY DEF BufInv, BufTypeOK
  <1>2. /\ p \in 1..n /\ order[p] = i /\ p # n /\ next = order[p + 1]
    BY PlaceOfItem
  <1>3. \A j, k \in 1..Len(order') : order'[j] = order'[k] => j = k
    BY DEF BufInv, ListIntegrity, PoolIntegrity
  <1> HIDE DEF p, next
  <1>4. ASSUME sr_buffer_remove(i)
        PROVE  Len(order') - q = n - p - 1
    <2>1. order' = [j \in 1..(n - 1) |-> IF j < p THEN order[j] ELSE order[j + 1]]
      BY <1>4 DEF sr_buffer_remove, Without, p
    <2>2. Len(order') = n - 1
      <3>1. \A j \in 1..(n - 1) : order'[j] \in Slot
        BY <1>1, <1>2, <2>1
      <3>2. order' \in [1..(n - 1) -> Slot] /\ n - 1 \in Nat
        BY <1>1, <1>2, <2>1, <3>1
      <3> QED
        BY <3>2
    <2>3. p \in 1..Len(order') /\ order'[p] = next
      BY <1>1, <1>2, <2>1, <2>2
    <2>4. q = p
      BY <1>3, <2>3, OnlyPlace
    <2> HIDE DEF q
    <2> QED
      BY <1>1, <1>2, <2>2, <2>4
  <1>5. ASSUME UNCHANGED order
        PROVE  Len(order') - q = n - p - 1
    <2>1. p + 1 \in 1..Len(order') /\ order'[p + 1] = next
      BY <1>1, <1>2, <1>5
    <2>2. q = p + 1
      BY <1>3, <2>1, OnlyPlace
    <2> HIDE DEF q
    <2> QED
      BY <1>1, <1>2, <1>5, <2>2
  <1>6. Len(order') - q = n - p - 1
    BY <1>4, <1>5
  <1> QED
    BY <1>1, <1>2, <1>6 DEF p, next, q

\* One turn of the resend loop.
LEMMA ResendAdvances ==
    ASSUME CoreInv, CoreInv', ResendStep, Running'
    PROVE  Distance' \in 0..(Distance - 1)
  <1> DEFINE next == items[cur].next
  <1>1. /\ Running /\ pc = "resend" /\ cur \in Slot /\ items[cur].buffered
        /\ cur' = next /\ pc' = IF next = Null THEN AfterResend(hand) ELSE "resend"
    BY DEF ResendStep, NextItem, CoreInv, Control
  <1>2. items[cur].pkt \in Packet
    BY <1>1, NextOnList DEF CoreInv
  <1>3. sr_buffer_remove(cur) \/ UNCHANGED order
    <2>1. CASE Keep(items[cur])
      BY <1>1, <1>2, <2>1, KeepPreserves DEF CoreInv, bufVars
    <2>2. ~ SendFaults(items[cur].pkt)
      BY <1>2, FaultsPreserve DEF CoreInv, Control
    <2> QED
      BY <2>1, <2>2 DEF ResendStep
  <1>4. Len(order) \in Nat /\ Position(cur) \in 1..Len(order)
    BY <1>1, PlaceOfItem DEF CoreInv, BufInv, BufTypeOK
  <1>5. cur # Null
    BY <1>1 DEF Slot, Null
  <1>6. Distance = Len(order) + 1 - Position(cur) + 2
    BY <1>1, <1>5 DEF Distance, ItemsLeft
  <1>7. CASE next = Null
    <2>1. Distance' \in {1, 2}
      BY <1>1, <1>7 DEF Distance, AfterResend
    <2> QED
      BY <1>4, <1>6, <2>1
  <1>8. CASE next # Null
    <2> DEFINE q == CHOOSE k \in 1..Len(order') : order'[k] = next
    <2>1. Len(order') - q = Len(order) - Position(cur) - 1
      BY <1>1, <1>3, <1>8, WalkAdvances DEF CoreInv
    <2>2. pc' = "resend" /\ cur' # Null
      BY <1>1, <1>8
    <2>3. Distance' = Len(order') + 1 - q + 2
      BY <1>1, <2>2 DEF Distance, ItemsLeft, Position
    <2>4. Len(order') \in Nat /\ q \in 1..Len(order')
      <3>1. order' \in Seq(Slot) /\ next \in Slot /\ items'[next].buffered
        BY <1>1, <2>2 DEF CoreInv, Control, BufInv, BufTypeOK
      <3>2. \E k \in 1..Len(order') : order'[k] = next
        BY <3>1 DEF CoreInv, BufInv, ListIntegrity, PoolIntegrity
      <3> QED
        BY <3>1, <3>2
    <2> HIDE DEF q
    <2> QED
      BY <1>4, <1>6, <2>1, <2>3, <2>4
  <1> QED
    BY <1>7, <1>8

\* A search that never ends has a full table before it, without its address.
LEMMA SpinOverfull ==
    ASSUME NEW ip \in Address, sr_arp_get(ip) = SPIN
    PROVE  Overfull
  <1>1. \A k \in Index : Probe(Hash(ip), k) \in Index
    BY HashInIndex, ProbeInIndex
  <1>2. ~ (sr_arp_get(ip) \in Index)
    BY DEF SPIN, Index
  <1>3. \A s \in Index : arp_table[s].ip \notin {ip, NoIp}
    BY <1>1, <1>2, GetResult DEF Stops
  <1>4. ~ \E k \in Index : Stops(ip, Probe(Hash(ip), k))
    BY <1>1, <1>3 DEF Stops
  <1>5. sr_arp_get(ip) = IF Hash(ip) = 0 THEN SPIN ELSE NULL
    BY <1>4 DEF sr_arp_get
  <1>6. Hash(ip) = 0
    BY <1>5 DEF SPIN, NULL
  <1> QED
    BY <1>3, <1>6 DEF Overfull

\* So has the search for a packet's gateway.
LEMMA LookupSpins ==
    ASSUME NEW p \in Packet, Lookup(p) = "spin"
    PROVE  Overfull
  <1>1. GatewayOf(p) \in Address
    BY PacketFields
  <1>2. SlotOf(p) \in Index \cup {NULL, SPIN}
    BY <1>1, GetResult, HashInIndex, ProbeInIndex DEF SlotOf
  <1>3. CASE SlotOf(p) \in Index
    <2>1. SlotOf(p) # SPIN /\ SlotOf(p) # NULL
      BY <1>3 DEF SPIN, NULL, Index
    <2> QED
      BY <1>3, <2>1 DEF Lookup
  <1>4. CASE SlotOf(p) = NULL
    BY <1>4 DEF Lookup, SPIN, NULL
  <1> QED
    BY <1>1, <1>2, <1>3, <1>4, SpinOverfull DEF SlotOf

\* The router is caught in the probe of sr_arp_get only over such a table.
LEMMA EndlessOverfull ==
    ASSUME CoreInv, RouterNext, fault' = "sr_arp_get"
    PROVE  Overfull'
  <1>1. UNCHANGED arp_table /\ Overfull => Overfull'
    BY DEF Overfull
  <1>2. ASSUME NEW p \in Packet, SendFaults(p)
        PROVE  Overfull'
    <2>1. ifidx \in [Route -> Iface \cup {NoIface}]
      BY DEF CoreInv, Control
    <2>2. \/ Lookup(p) = "spin"
          \/ ~ UnreachableFaults(p) /\ Lookup(sr_icmp_unreachable(p)) = "spin"
      BY <1>2 DEF SendFaults, Stop, StopIn
    <2>3. UNCHANGED arp_table
      BY <1>2, <2>1, FaultsPreserve DEF CoreInv
    <2> QED
      BY <1>1, <2>1, <2>2, <2>3, LookupSpins, ErrorIsPacket
  <1>3. ASSUME NEW ip \in Address, NEW iface, sr_arp_refresh(ip, iface)
        PROVE  Overfull'
    BY <1>1, <1>3, SpinOverfull DEF sr_arp_refresh, Proceed, StopIn, NoFault
  <1>4. ASSUME NEW h, h.pkt \in Packet, Keep(h)
        PROVE  Overfull'
    <2>1. fault' \in {NoFault, "sr_buffer_add"}
      BY <1>4 DEF Keep, sr_buffer_add, Proceed, StopIn
    <2> QED
      BY <2>1 DEF NoFault
  <1>5. \A p \in Packet : ~ Release(p)
    <2>1. ifidx \in [Route -> Iface \cup {NoIface}]
      BY DEF CoreInv, Control
    <2> QED
      BY <2>1, ReleasePreserves DEF CoreInv, NoFault
  <1>6. CASE ScanStep
    BY <1>3, <1>6, RoutesAssumption DEF ScanStep, CoreInv, Control
  <1>7. CASE ReceiveIpAny \/ ReceiveOther
    <2>1. ~ Handled /\ \A p : ~ ToSend(p)
      BY DEF Handled, ToSend, Proceed, NoFault
    <2>2. \A f \in {"sr_icmp_unreachable", "sr_icmp_handler"} : ~ MessageFaults(f)
      BY DEF MessageFaults, Stop, StopIn
    <2>3. \A p, proto, ttlLeft, checksumOk : ~ ReceiveIp(p, proto, ttlLeft, checksumOk)
      BY <2>1, <2>2 DEF ReceiveIp, Unreachable, IcmpHandler
    <2> QED
      BY <1>7, <2>1, <2>3 DEF ReceiveIpAny, ReceiveOther
  <1>8. CASE ReceiveArpReplyAny
    <2>1. PICK r \in Reply : sr_arp_set(r[1], r[2], r[3])
      BY <1>8 DEF ReceiveArpReplyAny, ReceiveArpReply
    <2>2. r[1] \in Address
      BY InputsAssumption
    <2> QED
      BY <1>1, <2>1, <2>2, SpinOverfull DEF sr_arp_set, Proceed, StopIn, NoFault
  <1>9. CASE ResendStep
    <2>1. items[cur].pkt \in Packet
      BY <1>9, NextOnList DEF ResendStep, CoreInv, Control
    <2>2. ~ Proceed
      BY DEF Proceed, NoFault
    <2> QED
      BY <1>2, <1>4, <1>5, <1>9, <2>1, <2>2 DEF ResendStep
  <1>10. CASE SendStep
    <2>1. hand \in Packet /\ Fresh(hand).pkt = hand
      BY <1>10 DEF SendStep, CoreInv, Control, Fresh
    <2> QED
      BY <1>2, <1>4, <1>5, <1>10, <2>1 DEF SendStep
  <1>11. ~ SweepStep /\ ~ Tick
    BY DEF SweepStep, Tick, sr_arp_check_refresh, Proceed, StopIn, NoFault
  <1> QED
    BY <1>6, <1>7, <1>8, <1>9, <1>10, <1>11 DEF RouterNext, Receive, Handler

\* Every turn of every loop of the thread (sr_main.c:135-139, sr_arp.c:238-258,
\* sr_router.c:257-271) brings it nearer to reading, for a buffer and a routing table
\* of any size: no walk is restarted or lengthened by what it does to the list.  The
\* probe of sr_arp_get is the exception, and runs for ever only over a full table
\* without the address.
THEOREM AdvancesCorrect == RouterSpec => HandlerAdvances
  <1>1. ASSUME CoreInv, CoreInv', Handler, Running'
        PROVE  Distance' \in 0..(Distance - 1)
    <2>1. CASE ScanStep
      <3>1. pc = "scan" /\ route \in 1..Routes /\ Routes \in Nat
        BY <1>1, <2>1, RoutesAssumption DEF ScanStep, CoreInv, Control, Route
      <3>2. Distance = Routes - route + 2
        BY <3>1 DEF Distance
      <3>3. CASE route < Routes
        <4>1. Distance' = Routes - (route + 1) + 2
          BY <2>1, <3>1, <3>3 DEF ScanStep, Distance
        <4> QED
          BY <3>1, <3>2, <3>3, <4>1
      <3>4. CASE ~ (route < Routes)
        <4>1. Distance' = 1
          BY <2>1, <3>4 DEF ScanStep, Distance
        <4> QED
          BY <3>1, <3>2, <4>1
      <3> QED
        BY <3>3, <3>4
    <2>2. CASE ResendStep
      BY <1>1, <2>2, ResendAdvances
    <2>3. CASE SendStep
      BY <2>3 DEF SendStep, Distance
    <2>4. CASE SweepStep
      BY <2>4 DEF SweepStep, Distance
    <2> QED
      BY <1>1, <2>1, <2>2, <2>3, <2>4 DEF Handler
  <1>2. Tick => Distance' = Distance
    BY DEF Tick, AgePackets, Distance, ItemsLeft, Position
  <1>3. CoreInv /\ CoreInv' /\ [RouterNext]_routerVars =>
          [ /\ Handler /\ Running' => Distance' \in 0..(Distance - 1)
            /\ Tick => Distance' = Distance
            /\ fault' = "sr_arp_get" => Overfull' ]_routerVars
    BY <1>1, <1>2, EndlessOverfull
  <1> QED
    BY <1>3, RouterInitEstablishes, RouterStep, PTL DEF RouterSpec, HandlerAdvances
=============================================================================
