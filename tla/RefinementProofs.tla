-------------------------- MODULE RefinementProofs --------------------------
(***************************************************************************)
(* The packet buffer implements PacketQueue and the ARP cache implements   *)
(* ArpMap, for every size, limit and set of packets or addresses.  Each    *)
(* operation of the pool is an operation of the queue seen through the     *)
(* list alone, and each operation of the table an operation of the map     *)
(* seen through its search alone.                                          *)
(* The last sections prove the same of both when the handlers of Router    *)
(* use them, with a packet in hand and a walk under way.                   *)
(***************************************************************************)
EXTENDS RouterProofs, SequenceTheorems

-----------------------------------------------------------------------------
(* The buffer is a queue.                                                   *)

QueueView == [k \in 1..Len(order) |->
                [pkt |-> items[order[k]].pkt, age |-> items[order[k]].age]]

View == [pkt : Packet \cup {NoPacket}, age : PacketAge]

queueVars == <<QueueView, fault # NoFault>>

\* The list is as long as the pool exactly when no slot is free.
LEMMA LengthOfList ==
  ASSUME BufInv
  PROVE  /\ Len(order) \in Nat /\ Len(order) <= BUFFSIZE
         /\ FreeSlots = {} <=> Len(order) = BUFFSIZE
  <1> DEFINE n == Len(order)
  <1>1. n \in Nat /\ BUFFSIZE \in Nat /\ order \in [1..n -> Slot]
    BY ConstantsOK DEF Assumptions, BufInv, BufTypeOK
  <1>2. \A m \in Nat : IsFiniteSet(1..m) /\ Cardinality(1..m) = m
    <2> TAKE m \in Nat
    <2>1. /\ IsFiniteSet(1..m)
          /\ Cardinality(1..m) = IF 1 > m THEN 0 ELSE m - 1 + 1
      BY FS_Interval
    <2> QED
      BY <2>1
  <1>3. order \in Injection(1..n, Slot)
    BY <1>1 DEF BufInv, ListIntegrity, PoolIntegrity, Injection, IsInjective
  <1>4. n <= BUFFSIZE /\ (n = BUFFSIZE <=> order \in Surjection(1..n, Slot))
    <2>1. IsFiniteSet(Slot) /\ Cardinality(Slot) = BUFFSIZE /\ Cardinality(1..n) = n
      BY <1>1, <1>2 DEF Slot
    <2>2. /\ Cardinality(1..n) <= Cardinality(Slot)
          /\ Cardinality(1..n) = Cardinality(Slot) <=> order \in Surjection(1..n, Slot)
      BY <1>3, <2>1, FS_Injection
    <2> QED
      BY <2>1, <2>2
  <1>5. order \in Surjection(1..n, Slot)
          <=> \A i \in Slot : \E k \in 1..n : order[k] = i
    BY <1>1 DEF Surjection
  <1>6. FreeSlots = {} <=> \A i \in Slot : items[i].buffered
    BY DEF FreeSlots
  <1> QED
    BY <1>1, <1>4, <1>5, <1>6 DEF BufInv, ListIntegrity, PoolIntegrity

\* A packet that arrives goes to the end of the queue, or finds it full.
LEMMA ArriveStep ==
  ASSUME BufInv, NEW p \in Packet, Arrive(p)
  PROVE  Queue!Next
  <1> DEFINE n == Len(order)
  <1>1. Running /\ sr_buffer_add(Fresh(p)) /\ ~ Fresh(p).buffered /\ Fresh(p).pkt = p
    BY DEF Arrive, Fresh
  <1>2. n \in Nat /\ BUFFSIZE \in Nat /\ order \in Seq(Slot) /\ items \in [Slot -> Item]
    BY ConstantsOK DEF Assumptions, BufInv, BufTypeOK
  <1>3. Len(QueueView) = n
    BY <1>2 DEF QueueView
  <1>4. CASE FreeSlots = {}
    <2>1. fault' # NoFault /\ UNCHANGED bufVars
      BY <1>1, <1>4 DEF sr_buffer_add, StopIn, NoFault
    <2>2. Len(QueueView) = BUFFSIZE
      BY <1>3, <1>4, LengthOfList
    <2>3. UNCHANGED QueueView
      BY <2>1 DEF bufVars, QueueView
    <2> QED
      BY <1>1, <2>1, <2>2, <2>3 DEF Queue!Next, Queue!Overflow, Running, QueueView
  <1>5. CASE FreeSlots # {}
    <2> DEFINE i == sr_buffer_malloc
    <2>1. i \in FreeSlots /\ Append_item(i, p) /\ fault' = NoFault
      BY <1>1, <1>5, MallocFree DEF sr_buffer_add, Proceed
    <2> HIDE DEF i
    <2>2. n < BUFFSIZE
      BY <1>2, <1>5, LengthOfList
    <2>3. i \in Slot /\ ~ items[i].buffered /\ order' = Append(order, i)
      BY <2>1 DEF FreeSlots, Append_item
    <2>4. ASSUME NEW k \in 1..n
          PROVE  /\ order'[k] = order[k]
                 /\ items'[order[k]].pkt = items[order[k]].pkt
                 /\ items'[order[k]].age = items[order[k]].age
      <3>1. order[k] \in Slot /\ items[order[k]].buffered /\ items[order[k]] \in Item
        BY <1>2 DEF BufInv, ListIntegrity, PoolIntegrity
      <3> QED
        BY <1>2, <2>1, <2>3, <3>1 DEF Append_item, Item
    <2>5. items'[i].pkt = p /\ items'[i].age = 0
      BY <2>1, <2>3 DEF Append_item
    <2>6. Len(order') = n + 1 /\ order'[n + 1] = i
      BY <1>2, <2>3
    <2>7. QueueView' = Append(QueueView, [pkt |-> p, age |-> 0])
      <3> DEFINE new == [k \in 1..Len(order') |->
                           [pkt |-> items'[order'[k]].pkt, age |-> items'[order'[k]].age]]
                 old == [k \in 1..n |->
                           [pkt |-> items[order[k]].pkt, age |-> items[order[k]].age]]
                 e == [pkt |-> p, age |-> 0]
      <3>1. QueueView' = new /\ QueueView = old
        BY DEF QueueView
      <3>2. \A k \in 1..n : new[k] = old[k]
        BY <1>2, <2>4, <2>6
      <3>3. new[n + 1] = e
        BY <1>2, <2>5, <2>6
      <3> HIDE DEF e
      <3>4. old \in Seq(View) /\ Len(old) = n
        <4>1. ASSUME NEW k \in 1..n PROVE old[k] \in View
          <5>1. order[k] \in Slot /\ items[order[k]] \in Item
            BY <1>2
          <5> QED
            BY <5>1 DEF View, Item
        <4> QED
          BY <1>2, <4>1
      <3>5. e \in View
        BY ConstantsOK DEF Assumptions, e, View, PacketAge
      <3> QED
        <4>1. new = [k \in 1..(n + 1) |-> new[k]]
          BY <2>6
        <4> HIDE DEF new, old
        <4>2. new = Append(old, e)
          <5>1. /\ Append(old, e) \in Seq(View) /\ Len(Append(old, e)) = n + 1
                /\ Append(old, e)[n + 1] = e
                /\ \A k \in 1..n : Append(old, e)[k] = old[k]
            BY <1>2, <3>4, <3>5
          <5>2. Append(old, e) = [k \in 1..(n + 1) |-> Append(old, e)[k]]
            BY <5>1, LenProperties
          <5>3. \A k \in 1..(n + 1) : Append(old, e)[k] = new[k]
            BY <1>2, <3>2, <3>3, <5>1
          <5> QED
            BY <4>1, <5>2, <5>3
        <4> QED
          BY <3>1, <4>2 DEF e
    <2> QED
      BY <1>1, <1>3, <2>1, <2>2, <2>7 DEF Queue!Next, Queue!Enqueue, Running, QueueView
  <1> QED
    BY <1>4, <1>5

\* An item unlinked from the list is taken from its place in the queue.
LEMMA RemoveStep ==
  ASSUME BufInv, NEW i \in Slot, Remove(i)
  PROVE  Queue!Next
  <1> DEFINE n == Len(order)
  <1>1. /\ Running /\ items[i].buffered /\ fault' = NoFault /\ sr_buffer_remove(i)
    BY DEF Remove, Proceed
  <1>2. n \in Nat /\ order \in Seq(Slot) /\ items \in [Slot -> Item]
    BY DEF BufInv, BufTypeOK
  <1>3. PICK p \in 1..n : p = Position(i) /\ order[p] = i
    BY <1>1 DEF BufInv, ListIntegrity, PoolIntegrity, Position
  <1> DEFINE old(k) == IF k < p THEN k ELSE k + 1
  <1>4. order' = [k \in 1..(n - 1) |-> IF k < p THEN order[k] ELSE order[k + 1]]
    BY <1>1, <1>3 DEF sr_buffer_remove, Without
  <1>5. \A k \in 1..(n - 1) : /\ old(k) \in 1..n /\ old(k) # p
                              /\ order'[k] = order[old(k)]
    BY <1>2, <1>3, <1>4
  <1>6. Len(order') = n - 1
    <2>1. \A k \in 1..(n - 1) : order'[k] \in Slot
      BY <1>2, <1>5
    <2>2. order' \in [1..(n - 1) -> Slot] /\ n - 1 \in Nat
      BY <1>2, <1>3, <1>4, <2>1
    <2> QED
      BY <2>2
  <1>7. ASSUME NEW k \in 1..(n - 1)
        PROVE  /\ items'[order'[k]].pkt = items[order[old(k)]].pkt
               /\ items'[order'[k]].age = items[order[old(k)]].age
    <2>1. order[old(k)] \in Slot /\ order[old(k)] # i
      BY <1>2, <1>3, <1>5 DEF BufInv, ListIntegrity, PoolIntegrity
    <2>2. items[order[old(k)]] \in Item
      BY <1>2, <2>1
    <2> HIDE DEF old
    <2> QED
      BY <1>1, <1>5, <2>1, <2>2 DEF sr_buffer_remove, Item
  <1>8. Len(QueueView) = n
    BY <1>2 DEF QueueView
  <1>9. QueueView' = [k \in 1..(Len(QueueView) - 1) |->
                        IF k < p THEN QueueView[k] ELSE QueueView[k + 1]]
    <2>1. \A k \in 1..(n - 1) : (IF k < p THEN QueueView[k] ELSE QueueView[k + 1])
                                  = QueueView[old(k)]
      OBVIOUS
    <2>2. \A k \in 1..(n - 1) :
             QueueView[old(k)] = [pkt |-> items[order[old(k)]].pkt,
                                  age |-> items[order[old(k)]].age]
      BY <1>5 DEF QueueView
    <2>3. QueueView' = [k \in 1..(n - 1) |->
                          [pkt |-> items'[order'[k]].pkt, age |-> items'[order'[k]].age]]
      BY <1>6 DEF QueueView
    <2> HIDE DEF old
    <2> QED
      BY <1>7, <1>8, <2>1, <2>2, <2>3
  <1>10. Queue!Take(p)
    BY <1>1, <1>9 DEF Queue!Take, QueueView
  <1>11. p \in 1..Len(QueueView)
    BY <1>3, <1>8
  <1>12. \E k \in 1..Len(QueueView) : Queue!Take(k)
    BY <1>10, <1>11
  <1> QED
    BY <1>1, <1>12 DEF Queue!Next, Running, QueueView

\* A second passes for the queue as for the items.
LEMMA TickStep ==
  ASSUME BufInv, BufTick
  PROVE  Queue!Next
  <1>1. Running /\ fault' = NoFault /\ AgePackets /\ UNCHANGED order
    BY DEF BufTick, Proceed, AgePackets
  <1>2. Len(order) \in Nat /\ order \in Seq(Slot) /\ items \in [Slot -> Item]
    BY DEF BufInv, BufTypeOK
  <1>3. Len(QueueView) = Len(order)
    BY <1>2 DEF QueueView
  <1>4. ASSUME NEW k \in 1..Len(order)
        PROVE  [pkt |-> items'[order[k]].pkt, age |-> items'[order[k]].age]
                 = IF QueueView[k].age < PACKET_TOO_OLD + 1
                   THEN [QueueView[k] EXCEPT !.age = @ + 1] ELSE QueueView[k]
    <2>1. order[k] \in Slot /\ items[order[k]].buffered /\ items[order[k]] \in Item
      BY <1>2 DEF BufInv, ListIntegrity, PoolIntegrity
    <2>2. items'[order[k]] = IF items[order[k]].age <= PACKET_TOO_OLD
                             THEN [items[order[k]] EXCEPT !.age = @ + 1]
                             ELSE items[order[k]]
      BY <1>1, <2>1 DEF AgePackets
    <2>3. QueueView[k] = [pkt |-> items[order[k]].pkt, age |-> items[order[k]].age]
      BY DEF QueueView
    <2>4. items[order[k]].age \in Nat /\ PACKET_TOO_OLD \in Nat
      BY <2>1, ConstantsOK DEF Assumptions, Item, PacketAge
    <2> QED
      BY <2>1, <2>2, <2>3, <2>4 DEF Item
  <1>5. QueueView' = [k \in 1..Len(QueueView) |->
                        IF QueueView[k].age < PACKET_TOO_OLD + 1
                        THEN [QueueView[k] EXCEPT !.age = @ + 1] ELSE QueueView[k]]
    <2>1. QueueView' = [k \in 1..Len(order) |->
                          [pkt |-> items'[order[k]].pkt, age |-> items'[order[k]].age]]
      BY <1>1 DEF QueueView
    <2> QED
      BY <1>3, <1>4, <2>1
  <1> QED
    BY <1>1, <1>5 DEF Queue!Next, Queue!Tick, Running, QueueView

\* Every step of the buffer is a step of the queue, or is not seen there.
LEMMA QueueStep ==
  ASSUME BufInv, [BufNext]_bufSpecVars
  PROVE  [Queue!Next]_queueVars
  <1>1. CASE UNCHANGED bufSpecVars
    <2>1. UNCHANGED <<items, order, fault>>
      BY <1>1 DEF bufSpecVars
    <2>2. UNCHANGED QueueView
      BY <2>1 DEF QueueView
    <2> QED
      BY <2>1, <2>2 DEF queueVars
  <1>2. ASSUME NEW i \in Slot, AddAgain(i)
        PROVE  UNCHANGED queueVars
    <2>1. UNCHANGED <<items, order, fault>>
      BY <1>2 DEF AddAgain, sr_buffer_add, bufVars, Proceed, Running
    <2>2. UNCHANGED QueueView
      BY <2>1 DEF QueueView
    <2> QED
      BY <2>1, <2>2 DEF queueVars
  <1> QED
    BY <1>1, <1>2, ArriveStep, RemoveStep, TickStep DEF BufNext

\* The pool with its links is a queue (sr_buffer.c:71-149): whatever arrives,
\* leaves from the middle or grows old, the caller sees a bounded queue in
\* arrival order that loses and doubles no packet.
THEOREM QueueCorrect == BufSpec => ImplementsQueue
  <1>1. BufInit => Queue!Init
    BY DEF BufInit, sr_buffer_clear, Queue!Init
  <1>2. BufInv /\ [BufNext]_bufSpecVars => [Queue!Next]_queueVars
    BY QueueStep
  <1>3. BufInit => BufInv
    BY ClearEstablishes DEF BufInit
  <1>4. BufInv /\ [BufNext]_bufSpecVars => BufInv'
    BY BufStep
  <1> QED
    BY <1>1, <1>2, <1>3, <1>4, PTL DEF BufSpec, ImplementsQueue, Queue!Spec, queueVars, QueueView

-----------------------------------------------------------------------------
(* The cache is a map.                                                      *)

\* What the map knows of the entry in a slot, and the map that is read
\* through the search.
Known(s) == [mac |-> arp_table[s].mac, iface |-> arp_table[s].iface,
             tries |-> arp_table[s].tries, age |-> arp_table[s].age]

CacheView == [a \in Address |->
                LET s == sr_arp_get(a)
                IN  IF s \in Index /\ arp_table[s].ip = a THEN Known(s) ELSE Absent]

mapVars == <<CacheView, sinceCheck, asked, fault # NoFault>>

\* The map in terms of the slots, without the search.
Reads ==
    /\ CacheView = [a \in Address |-> CacheView[a]]
    /\ \A s \in Index :
         arp_table[s].ip # NoIp => /\ CacheView[arp_table[s].ip] = Known(s)
                                   /\ CacheView[arp_table[s].ip] # Absent
    /\ \A a \in Address : (\A s \in Index : arp_table[s].ip # a) => CacheView[a] = Absent

\* The search finds each entry in its slot and no other.
LEMMA MapReads == ArpInv => Reads
  <1> SUFFICES ASSUME ArpInv PROVE Reads
    OBVIOUS
  <1>1. CacheView = [a \in Address |-> CacheView[a]]
    BY DEF CacheView
  <1>2. ASSUME NEW s \in Index, arp_table[s].ip # NoIp
        PROVE  /\ CacheView[arp_table[s].ip] = Known(s)
               /\ CacheView[arp_table[s].ip] # Absent
    <2> DEFINE a == arp_table[s].ip
    <2>1. arp_table[s] \in Entry /\ a \in Address
      BY <1>2 DEF ArpInv, ArpTypeOK, Entry
    <2>2. Stops(a, s)
      BY DEF Stops
    <2>3. PICK k \in Index :
             /\ sr_arp_get(a) = Probe(Hash(a), k)
             /\ Stops(a, Probe(Hash(a), k))
             /\ \A j \in 0..(k - 1) : ~ Stops(a, Probe(Hash(a), j))
      BY <2>1, <2>2, GetResult
    <2>4. sr_arp_get(a) = s
      BY <2>1, <2>3, Holder DEF ArpInv
    <2>5. CacheView[a] = Known(s)
      BY <2>1, <2>4 DEF CacheView
    <2>6. Known(s) \in [mac : Mac \cup {NoMac}, iface : Iface \cup {NoIface},
                        tries : Tries, age : EntryAge]
      BY <2>1 DEF Known, Entry
    <2> QED
      BY <2>5, <2>6, AbsentAssumption
  <1>3. ASSUME NEW a \in Address, \A s \in Index : arp_table[s].ip # a
        PROVE  CacheView[a] = Absent
    BY <1>3 DEF CacheView
  <1> QED
    BY <1>1, <1>2, <1>3 DEF Reads

\* The map has room for another address exactly when a slot is empty.
LEMMA MapRoom ==
    ASSUME ArpInv
    PROVE  Cardinality({a \in Address : CacheView[a] # Absent}) < LAN_SIZE
             <=> \E s \in Index : arp_table[s].ip = NoIp
  <1> DEFINE used == {s \in Index : arp_table[s].ip # NoIp}
             present == {a \in Address : CacheView[a] # Absent}
             f == [s \in used |-> arp_table[s].ip]
  <1>1. Reads
    BY MapReads
  <1>2. \A s \in used : arp_table[s].ip \in present
    <2> SUFFICES ASSUME NEW s \in used PROVE arp_table[s].ip \in present
      OBVIOUS
    <2>1. arp_table[s].ip \in Address
      BY DEF ArpInv, ArpTypeOK, Entry
    <2> QED
      BY <1>1, <2>1 DEF Reads
  <1>3. \A a \in present : \E s \in used : arp_table[s].ip = a
    <2> SUFFICES ASSUME NEW a \in present PROVE \E s \in used : arp_table[s].ip = a
      OBVIOUS
    <2>1. \E s \in Index : arp_table[s].ip = a
      BY <1>1 DEF Reads
    <2> QED
      BY <2>1, ArpConstants DEF NoIp
  <1>4. \A s, t \in used : arp_table[s].ip = arp_table[t].ip => s = t
    BY DEF ArpInv, LookupIntegrity, UniqueEntry
  <1>5. IsFiniteSet(Index) /\ Cardinality(Index) = LAN_SIZE
    <2>1. /\ IsFiniteSet(0..(LAN_SIZE - 1))
          /\ Cardinality(0..(LAN_SIZE - 1)) =
               IF 0 > LAN_SIZE - 1 THEN 0 ELSE LAN_SIZE - 1 - 0 + 1
      BY FS_Interval, ArpConstants
    <2> QED
      BY <2>1, ArpConstants DEF Index
  <1>6. /\ IsFiniteSet(used) /\ Cardinality(used) <= LAN_SIZE
        /\ Cardinality(used) = LAN_SIZE <=> used = Index
    <2>1. used \in SUBSET Index
      OBVIOUS
    <2> HIDE DEF used
    <2> QED
      BY <1>5, <2>1, FS_Subset
  <1>7. Cardinality(used) \in Nat
    <2> HIDE DEF used
    <2> QED
      BY <1>6, FS_CardinalityType
  <1>8. Cardinality(present) = Cardinality(used)
    <2>1. f \in [used -> present]
      BY <1>2
    <2>2. \A s, t \in used : f[s] = f[t] => s = t
      BY <1>4
    <2>3. \A a \in present : \E s \in used : f[s] = a
      BY <1>3
    <2> HIDE DEF used, present, f
    <2>4. f \in Bijection(used, present)
      BY <2>1, <2>2, <2>3 DEF Bijection, Injection, Surjection, IsInjective
    <2>5. ExistsBijection(used, present)
      BY <2>4 DEF ExistsBijection
    <2> QED
      BY <1>6, <2>5, FS_Bijection
  <1>9. used = Index <=> ~ \E s \in Index : arp_table[s].ip = NoIp
    OBVIOUS
  <1> HIDE DEF used, present
  <1>10. Cardinality(present) < LAN_SIZE <=> \E s \in Index : arp_table[s].ip = NoIp
    BY <1>6, <1>7, <1>8, <1>9, ArpConstants
  <1> QED
    BY <1>10 DEF present

\* Room in the map.
LEMMA RoomIs ==
    ASSUME NEW a \in Address
    PROVE  Map!Room(a) <=>
             \/ CacheView[a] # Absent
             \/ Cardinality({b \in Address : CacheView[b] # Absent}) < LAN_SIZE
  <1>1. Map!Present = {b \in Address : CacheView[b] # Absent}
    BY DEF Map!Present, CacheView, Known
  <1>2. Map!Cardinality(Map!Present) = Cardinality(Map!Present)
    BY DEF Map!Cardinality, Cardinality
  <1>3. Map!Room(a) <=>
          CacheView[a] # Absent \/ Map!Cardinality(Map!Present) < LAN_SIZE
    BY DEF Map!Room, CacheView, Known
  <1> QED
    BY <1>1, <1>2, <1>3

\* Writing one slot is writing one address of the map, which has room for it.
LEMMA MapWrite ==
    ASSUME ArpInv, Reads, Reads', NEW ip \in Address, NEW s \in Index,
           arp_table[s].ip \in {ip, NoIp}, arp_table'[s].ip = ip,
           \A t \in Index \ {s} : arp_table'[t] = arp_table[t]
    PROVE  /\ CacheView' = [CacheView EXCEPT ![ip] = Known(s)']
           /\ \/ CacheView[ip] # Absent
              \/ Cardinality({a \in Address : CacheView[a] # Absent}) < LAN_SIZE
  <1>1. ip # NoIp
    BY ArpConstants DEF NoIp
  <1>2. CacheView'[ip] = Known(s)'
    BY <1>1 DEF Reads
  <1>3. ASSUME NEW a \in Address, a # ip
        PROVE  CacheView'[a] = CacheView[a]
    <2>1. CASE \E t \in Index : arp_table[t].ip = a
      <3>1. PICK t \in Index : arp_table[t].ip = a
        BY <2>1
      <3>2. a # NoIp
        BY ArpConstants DEF NoIp
      <3>3. arp_table'[t] = arp_table[t]
        BY <1>3, <3>1, <3>2
      <3>4. Known(t)' = Known(t)
        BY <3>3 DEF Known
      <3> QED
        BY <3>1, <3>2, <3>3, <3>4 DEF Reads
    <2>2. CASE ~ \E t \in Index : arp_table[t].ip = a
      <3>1. \A t \in Index : arp_table'[t].ip # a
        BY <1>3, <2>2
      <3> QED
        BY <2>2, <3>1 DEF Reads
    <2> QED
      BY <2>1, <2>2
  <1>4. CacheView' = [CacheView EXCEPT ![ip] = Known(s)']
    <2>1. CacheView = [a \in Address |-> CacheView[a]]
      BY DEF Reads
    <2>2. CacheView' = [a \in Address |-> CacheView'[a]]
      BY DEF Reads
    <2> QED
      BY <1>2, <1>3, <2>1, <2>2
  <1>5. CASE arp_table[s].ip = ip
    BY <1>1, <1>4, <1>5 DEF Reads
  <1>6. CASE arp_table[s].ip = NoIp
    BY <1>4, <1>6, MapRoom
  <1> QED
    BY <1>4, <1>5, <1>6

\* While no slot changes its address, neither does the map.
LEMMA MapSame ==
    ASSUME Reads, Reads', NEW a \in Address,
           \A s \in Index : arp_table'[s].ip = arp_table[s].ip
    PROVE  \/ /\ CacheView[a] = Absent /\ CacheView'[a] = Absent
              /\ \A s \in Index : arp_table[s].ip # a
           \/ \E s \in Index : /\ arp_table[s].ip = a /\ CacheView[a] # Absent
                               /\ CacheView[a] = Known(s)
                               /\ CacheView'[a] = Known(s)'
  <1>1. a # NoIp
    BY ArpConstants DEF NoIp
  <1>2. CASE \A s \in Index : arp_table[s].ip # a
    BY <1>2 DEF Reads
  <1>3. ASSUME NEW s \in Index, arp_table[s].ip = a
        PROVE  /\ CacheView[a] # Absent /\ CacheView[a] = Known(s)
               /\ CacheView'[a] = Known(s)'
    BY <1>1, <1>3 DEF Reads
  <1> QED
    BY <1>2, <1>3

\* An address that finds no slot finds no room in the map.
LEMMA MapFull ==
    ASSUME ArpInv, NEW ip \in Address, sr_arp_get(ip) \in {NULL, SPIN},
           UNCHANGED <<arp_table, sinceCheck>>, asked' = {}, fault' # NoFault,
           UNCHANGED CacheView
    PROVE  Map!NoRoom
  <1>1. Reads
    BY MapReads
  <1>2. \A s \in Index : sr_arp_get(ip) # s
    BY DEF NULL, SPIN, Index
  <1>3. \A s \in Index : arp_table[s].ip \notin {ip, NoIp}
    <2>1. \A k \in Index : Probe(Hash(ip), k) \in Index
      BY HashInIndex, ProbeInIndex
    <2> QED
      BY <1>2, <2>1, GetResult DEF Stops
  <1>4. CacheView[ip] = Absent
    BY <1>1, <1>3 DEF Reads
  <1>5. ~ (Cardinality({a \in Address : CacheView[a] # Absent}) < LAN_SIZE)
    BY <1>3, MapRoom
  <1> QED
    <2>1. ~ Map!Room(ip)
      BY <1>4, <1>5, RoomIs
    <2> QED
      BY <2>1 DEF Map!NoRoom, CacheView, Known

\* An answer is learnt, or finds no room.
LEMMA AnswerMaps ==
    ASSUME ArpInv, Reads', NEW ip \in Address, NEW mac \in Mac, NEW iface \in Iface,
           Answer(ip, mac, iface)
    PROVE  Map!Next
  <1> DEFINE s == sr_arp_get(ip)
             e == [mac |-> mac, iface |-> iface, tries |-> 0, age |-> 0]
  <1>1. Running /\ asked' = {} /\ UNCHANGED sinceCheck
    BY DEF Answer, sr_arp_set
  <1>2. Reads
    BY MapReads
  <1>3. CASE s \in Index
    <2>1. PICK t \in Index : t = s /\ arp_table[t].ip \in {ip, NoIp}
      BY <1>3, GetIndex DEF Stops
    <2>2. t # NULL /\ t # SPIN
      BY DEF NULL, SPIN, Index
    <2>3. /\ fault' = NoFault
          /\ arp_table' = [arp_table EXCEPT ![t] =
                [ip |-> ip, mac |-> mac, iface |-> iface, tries |-> 0, age |-> 0]]
      BY <2>1, <2>2 DEF Answer, sr_arp_set, Proceed, AnsweredEntry
    <2>4. arp_table \in [Index -> Entry]
      BY DEF ArpInv, ArpTypeOK
    <2>5. /\ arp_table'[t].ip = ip /\ Known(t)' = e
          /\ \A u \in Index \ {t} : arp_table'[u] = arp_table[u]
      BY <2>3, <2>4 DEF Known
    <2>6. /\ CacheView' = [CacheView EXCEPT ![ip] = e]
          /\ \/ CacheView[ip] # Absent
             \/ Cardinality({a \in Address : CacheView[a] # Absent}) < LAN_SIZE
      BY <1>2, <2>1, <2>5, MapWrite
    <2>7. Map!Learn(ip, mac, iface)
      <3>1. Map!Room(ip)
        BY <2>6, RoomIs
      <3> QED
        BY <1>1, <2>3, <2>6, <3>1 DEF Map!Learn, CacheView, Known, Running
    <2> QED
      BY <1>1, <2>7 DEF Map!Next, Running
  <1>4. CASE s \in {NULL, SPIN}
    <2>1. UNCHANGED arp_table /\ fault' # NoFault
      BY <1>4 DEF Answer, sr_arp_set, StopIn, NoFault, NULL, SPIN, Index
    <2>2. UNCHANGED CacheView
      BY <2>1 DEF CacheView, Known, sr_arp_get, Stops
    <2>3. Map!NoRoom
      BY <1>1, <1>4, <2>1, <2>2, MapFull
    <2> QED
      BY <1>1, <2>3 DEF Map!Next, Running
  <1> QED
    BY <1>3, <1>4 DEF Answer, sr_arp_set

\* An address is asked for and, the first time, noted as unanswered.
LEMMA RequestMaps ==
    ASSUME ArpInv, Reads', NEW ip \in Address, NEW iface \in Iface \cup {NoIface},
           Request(ip, iface)
    PROVE  Map!Next
  <1> DEFINE s == sr_arp_get(ip)
             dummy == [mac |-> NoMac, iface |-> NoIface, tries |-> 1,
                       age |-> ARP_TTL + 1]
  <1>1. Running /\ UNCHANGED sinceCheck
    BY DEF Request, sr_arp_refresh
  <1>2. Reads
    BY MapReads
  <1>3. UNCHANGED arp_table => UNCHANGED CacheView
    BY DEF CacheView, Known, sr_arp_get, Stops
  <1>4. CASE iface \notin Iface
    <2>1. UNCHANGED arp_table /\ asked' = {} /\ fault' = NoFault
      BY <1>4 DEF Request, sr_arp_refresh, Proceed
    <2> QED
      BY <1>1, <1>3, <2>1 DEF Map!Next, Map!Quiet, CacheView, Known, Running
  <1>5. CASE iface \in Iface /\ s \in Index
    <2>1. PICK t \in Index : t = s /\ arp_table[t].ip \in {ip, NoIp}
      BY <1>5, GetIndex DEF Stops
    <2>2. t # NULL /\ t # SPIN
      BY DEF NULL, SPIN, Index
    <2>3. /\ fault' = NoFault /\ asked' = {ip}
          /\ arp_table' = IF arp_table[t].ip = NoIp
                          THEN [arp_table EXCEPT ![t].ip = ip, ![t].tries = Bump(@)]
                          ELSE arp_table
      BY <1>5, <2>1, <2>2 DEF Request, sr_arp_refresh, Proceed
    <2>4. arp_table \in [Index -> Entry]
      BY DEF ArpInv, ArpTypeOK
    <2>5. CASE arp_table[t].ip = NoIp
      <3>1. arp_table[t] = EmptyEntry
        BY <2>5, ArpConstants DEF ArpInv, EntryKinds, Dummy, Answered
      <3>2. arp_table'[t] = [EmptyEntry EXCEPT !.ip = ip, !.tries = Bump(0)]
        BY <2>3, <2>4, <2>5, <3>1 DEF EmptyEntry
      <3>3. Bump(0) = 1
        BY ArpConstants DEF Bump
      <3>4. arp_table'[t].ip = ip /\ Known(t)' = dummy
        BY <3>2, <3>3 DEF EmptyEntry, Known
      <3>5. \A u \in Index \ {t} : arp_table'[u] = arp_table[u]
        BY <2>3, <2>4
      <3>6. /\ CacheView' = [CacheView EXCEPT ![ip] = dummy]
            /\ \/ CacheView[ip] # Absent
               \/ Cardinality({a \in Address : CacheView[a] # Absent}) < LAN_SIZE
        BY <1>2, <2>1, <3>4, <3>5, MapWrite
      <3>7. CacheView[ip] = Absent
        <4> SUFFICES ASSUME NEW u \in Index, arp_table[u].ip = ip PROVE FALSE
          BY <1>2 DEF Reads
        <4>1. PICK k \in Index :
                /\ sr_arp_get(ip) = Probe(Hash(ip), k)
                /\ Stops(ip, Probe(Hash(ip), k))
                /\ \A j \in 0..(k - 1) : ~ Stops(ip, Probe(Hash(ip), j))
          BY <1>5, GetIndex
        <4>2. u = t
          BY <2>1, <4>1, Holder DEF ArpInv
        <4> QED
          BY <2>5, <4>2, ArpConstants DEF NoIp
      <3>8. Map!Ask(ip)
        <4>1. Map!Room(ip)
          BY <3>6, RoomIs
        <4> QED
          BY <1>1, <2>3, <3>6, <3>7, <4>1 DEF Map!Ask, Map!Unanswered, CacheView,
             Known, Running
      <3> QED
        BY <1>1, <3>8 DEF Map!Next, Running
    <2>6. CASE arp_table[t].ip # NoIp
      <3>1. CacheView[ip] # Absent
        BY <1>2, <2>1, <2>6 DEF Reads
      <3>2. UNCHANGED CacheView
        BY <1>3, <2>3, <2>6
      <3>3. Map!Ask(ip)
        BY <1>1, <2>3, <3>1, <3>2 DEF Map!Ask, Map!Room, CacheView, Known, Running
      <3> QED
        BY <1>1, <3>3 DEF Map!Next, Running
    <2> QED
      BY <2>5, <2>6
  <1>6. CASE iface \in Iface /\ s \in {NULL, SPIN}
    <2>1. UNCHANGED arp_table /\ fault' # NoFault /\ asked' = {}
      BY <1>6 DEF Request, sr_arp_refresh, StopIn, NoFault, NULL, SPIN, Index
    <2>2. Map!NoRoom
      BY <1>1, <1>3, <1>6, <2>1, MapFull
    <2> QED
      BY <1>1, <2>2 DEF Map!Next, Running
  <1> QED
    BY <1>4, <1>5, <1>6 DEF Request, sr_arp_refresh

\* The sweep of the slots is the sweep of the addresses.
LEMMA SweepMaps ==
    ASSUME ArpInv, Reads', Sweep
    PROVE  Map!Next
  <1> DEFINE aged == {s \in Index : Aged(s)}
  <1>1. Running /\ sr_arp_check_refresh
    BY DEF Sweep
  <1>2. Reads
    BY MapReads
  <1>3. UNCHANGED arp_table => UNCHANGED CacheView
    BY DEF CacheView, Known, sr_arp_get, Stops
  <1>4. /\ arp_table \in [Index -> Entry] /\ sinceCheck \in 0..ARP_CHECK_EVERY
        /\ ARP_CHECK_EVERY \in Nat
    BY ArpConstants DEF ArpInv, ArpTypeOK
  <1>5. ASSUME NEW a \in Address
        PROVE  Map!Expired(a) <=> \E s \in aged : arp_table[s].ip = a
    <2>1. Map!Expired(a) <=> CacheView[a] # Absent /\ CacheView[a].age > ARP_TTL
      BY DEF Map!Expired, CacheView, Known
    <2>2. a # NoIp
      BY ArpConstants DEF NoIp
    <2>3. ASSUME NEW s \in Index, arp_table[s].ip = a
          PROVE  /\ Map!Expired(a) <=> Aged(s)
                 /\ \A t \in Index : arp_table[t].ip = a => t = s
      <3>1. CacheView[a] # Absent /\ CacheView[a] = Known(s)
        BY <1>2, <2>2, <2>3 DEF Reads
      <3>2. CacheView[a].age = arp_table[s].age
        BY <3>1 DEF Known
      <3>3. Aged(s) <=> arp_table[s].age > ARP_TTL
        BY <2>2, <2>3 DEF Aged
      <3>4. \A t \in Index : arp_table[t].ip = a => t = s
        BY <2>2, <2>3 DEF ArpInv, LookupIntegrity, UniqueEntry
      <3> QED
        BY <2>1, <3>1, <3>2, <3>3, <3>4
    <2>4. (\A s \in Index : arp_table[s].ip # a) => ~ Map!Expired(a)
      BY <1>2, <2>1 DEF Reads
    <2> QED
      BY <2>3, <2>4
  <1>6. CASE /\ sinceCheck < ARP_CHECK_EVERY /\ Proceed /\ asked' = {}
             /\ UNCHANGED <<arp_table, sinceCheck>>
    BY <1>1, <1>3, <1>6 DEF Map!Next, Map!Quiet, CacheView, Known, Running, Proceed
  <1>7. CASE /\ sinceCheck >= ARP_CHECK_EVERY
             /\ \A s \in aged : ~ Nameless(s)
             /\ Proceed
             /\ arp_table' = [s \in Index |->
                   IF Aged(s) THEN [arp_table[s] EXCEPT !.tries = Bump(@)]
                   ELSE arp_table[s]]
             /\ asked' = {arp_table[s].ip : s \in aged}
             /\ sinceCheck' = 0
    <2>1. sinceCheck = ARP_CHECK_EVERY /\ fault' = NoFault
      BY <1>4, <1>7 DEF Proceed
    <2>2. asked' = {a \in Address : Map!Expired(a)}
      <3>1. \A s \in aged : arp_table[s].ip \in Address
        BY <1>4 DEF Aged, Entry
      <3> HIDE DEF aged
      <3> QED
        BY <1>5, <1>7, <3>1
    <2>3. ASSUME NEW s \in Index
          PROVE  /\ arp_table'[s].ip = arp_table[s].ip
                 /\ Known(s)' = IF Aged(s)
                                THEN [Known(s) EXCEPT !.tries = (@ + 1) % TRIES_MOD]
                                ELSE Known(s)
      <3>1. arp_table[s] \in Entry
        BY <1>4
      <3>2. arp_table'[s] = IF Aged(s) THEN [arp_table[s] EXCEPT !.tries = Bump(@)]
                            ELSE arp_table[s]
        BY <1>7
      <3>3. Bump(arp_table[s].tries) = (arp_table[s].tries + 1) % TRIES_MOD
        <4>1. arp_table[s].tries \in 0..(TRIES_MOD - 1) /\ TRIES_MOD \in Nat \ {0}
          BY <3>1, ArpConstants DEF Entry, Tries
        <4>2. CASE arp_table[s].tries = TRIES_MOD - 1
          BY <4>1, <4>2 DEF Bump
        <4>3. CASE arp_table[s].tries # TRIES_MOD - 1
          BY <4>1, <4>3 DEF Bump
        <4> QED
          BY <4>2, <4>3
      <3>4. CASE Aged(s)
        <4>1. arp_table'[s] = [arp_table[s] EXCEPT
                                 !.tries = (arp_table[s].tries + 1) % TRIES_MOD]
          BY <3>1, <3>2, <3>3, <3>4 DEF Entry
        <4>2. /\ arp_table'[s].ip = arp_table[s].ip
              /\ arp_table'[s].mac = arp_table[s].mac
              /\ arp_table'[s].iface = arp_table[s].iface
              /\ arp_table'[s].age = arp_table[s].age
              /\ arp_table'[s].tries = (arp_table[s].tries + 1) % TRIES_MOD
          BY <3>1, <4>1 DEF Entry
        <4> QED
          BY <3>4, <4>2 DEF Known
      <3>5. CASE ~ Aged(s)
        BY <3>2, <3>5 DEF Known
      <3> QED
        BY <3>4, <3>5
    <2>4. ASSUME NEW a \in Address
          PROVE  /\ CacheView'[a] = IF a \in asked'
                                    THEN [CacheView[a] EXCEPT !.tries = (@ + 1) % TRIES_MOD]
                                    ELSE CacheView[a]
                 /\ a \in asked' => CacheView[a].iface # NoIface
      <3>1. CASE CacheView[a] = Absent /\ CacheView'[a] = Absent
                 /\ \A s \in Index : arp_table[s].ip # a
        BY <1>5, <2>2, <3>1
      <3>2. ASSUME NEW s \in Index, arp_table[s].ip = a, CacheView[a] = Known(s),
                   CacheView'[a] = Known(s)'
            PROVE  /\ CacheView'[a] = IF a \in asked'
                                      THEN [CacheView[a] EXCEPT !.tries = (@ + 1) % TRIES_MOD]
                                      ELSE CacheView[a]
                   /\ a \in asked' => CacheView[a].iface # NoIface
        <4>1. a \in asked' <=> Aged(s)
          <5>1. a # NoIp
            BY ArpConstants DEF NoIp
          <5>2. \A t \in Index : arp_table[t].ip = a => t = s
            BY <3>2, <5>1 DEF ArpInv, LookupIntegrity, UniqueEntry
          <5> QED
            BY <1>5, <2>2, <3>2, <5>2
        <4>2. Aged(s) => Known(s).iface # NoIface
          BY <1>7 DEF Nameless, Known
        <4> QED
          BY <2>3, <3>2, <4>1, <4>2
      <3>3. \A s \in Index : arp_table'[s].ip = arp_table[s].ip
        BY <2>3
      <3> QED
        BY <1>2, <3>1, <3>2, <3>3, MapSame
    <2>5. CacheView' = [a \in Address |->
             IF a \in asked' THEN [CacheView[a] EXCEPT !.tries = (@ + 1) % TRIES_MOD]
             ELSE CacheView[a]]
      <3>1. CacheView' = [a \in Address |-> CacheView'[a]]
        BY DEF Reads
      <3> QED
        BY <2>4, <3>1
    <2>6. \A a \in asked' : CacheView[a].iface # NoIface
      BY <2>2, <2>4
    <2>7. Map!Sweep
      BY <1>1, <1>7, <2>1, <2>2, <2>5, <2>6 DEF Map!Sweep, CacheView, Known, Running
    <2> QED
      BY <1>1, <2>7 DEF Map!Next, Running
  <1>8. CASE /\ sinceCheck >= ARP_CHECK_EVERY
             /\ \E s \in aged : Nameless(s)
             /\ StopIn("sr_arp_check_refresh")
             /\ asked' = {}
             /\ UNCHANGED <<arp_table, sinceCheck>>
    <2>1. sinceCheck = ARP_CHECK_EVERY /\ fault' # NoFault /\ UNCHANGED CacheView
      BY <1>3, <1>4, <1>8 DEF StopIn, NoFault
    <2>2. PICK s \in aged : Nameless(s)
      BY <1>8
    <2>3. arp_table[s].ip \in Address /\ arp_table[s].ip # NoIp
      BY <1>4, <2>2 DEF Aged, Entry
    <2>4. PICK a \in Address : a = arp_table[s].ip /\ a # NoIp
      BY <2>3
    <2>5. Map!Expired(a) /\ CacheView[a].iface = NoIface
      <3>1. Map!Expired(a)
        BY <1>5, <2>2, <2>4
      <3>2. CacheView[a] = Known(s)
        BY <1>2, <2>2, <2>4 DEF Reads
      <3> QED
        BY <2>2, <3>1, <3>2 DEF Known, Nameless
    <2>6. Map!SweepStops
      BY <1>8, <2>1, <2>5 DEF Map!SweepStops, CacheView, Known
    <2> QED
      BY <1>1, <2>6 DEF Map!Next, Running
  <1> QED
    BY <1>1, <1>6, <1>7, <1>8 DEF sr_arp_check_refresh

\* A second passes for the map as for the slots.
LEMMA TimeMaps ==
    ASSUME ArpInv, Reads', ArpTick
    PROVE  Map!Next
  <1>1. /\ Running /\ fault' = NoFault /\ AgeEntries /\ asked' = {}
        /\ sinceCheck' = IF sinceCheck < ARP_CHECK_EVERY THEN sinceCheck + 1
                         ELSE sinceCheck
    BY DEF ArpTick, Proceed, AgeEntries
  <1>2. Reads
    BY MapReads
  <1>3. ASSUME NEW s \in Index
        PROVE  /\ arp_table'[s].ip = arp_table[s].ip
               /\ Known(s)' = IF Known(s).age <= ARP_TTL
                              THEN [Known(s) EXCEPT !.age = @ + 1] ELSE Known(s)
    <2>1. arp_table[s] \in Entry
      BY DEF ArpInv, ArpTypeOK
    <2>2. arp_table'[s] = IF arp_table[s].age <= ARP_TTL
                          THEN [arp_table[s] EXCEPT !.age = @ + 1] ELSE arp_table[s]
      BY <1>1 DEF AgeEntries
    <2>3. CASE arp_table[s].age <= ARP_TTL
      <3>1. /\ arp_table'[s].ip = arp_table[s].ip
            /\ arp_table'[s].mac = arp_table[s].mac
            /\ arp_table'[s].iface = arp_table[s].iface
            /\ arp_table'[s].tries = arp_table[s].tries
            /\ arp_table'[s].age = arp_table[s].age + 1
        BY <2>1, <2>2, <2>3 DEF Entry
      <3> QED
        BY <2>3, <3>1 DEF Known
    <2>4. CASE ~ (arp_table[s].age <= ARP_TTL)
      BY <2>2, <2>4 DEF Known
    <2> QED
      BY <2>3, <2>4
  <1>4. ASSUME NEW a \in Address
        PROVE  CacheView'[a] = IF CacheView[a] # Absent /\ CacheView[a].age <= ARP_TTL
                               THEN [CacheView[a] EXCEPT !.age = @ + 1] ELSE CacheView[a]
    BY <1>2, <1>3, MapSame
  <1>5. CacheView' = [a \in Address |->
           IF CacheView[a] # Absent /\ CacheView[a].age <= ARP_TTL
           THEN [CacheView[a] EXCEPT !.age = @ + 1] ELSE CacheView[a]]
    <2>1. CacheView' = [a \in Address |-> CacheView'[a]]
      BY DEF Reads
    <2> QED
      BY <1>4, <2>1
  <1>6. Map!Tick
    BY <1>1, <1>5 DEF Map!Tick, CacheView, Known, Running
  <1> QED
    BY <1>1, <1>6 DEF Map!Next, Running

\* Every step of the cache is a step of the map, or is not seen there.
LEMMA MapStep ==
    ASSUME ArpInv, Reads', [ArpNext]_arpSpecVars
    PROVE  [Map!Next]_mapVars
  <1>1. CASE UNCHANGED arpSpecVars
    <2>1. UNCHANGED <<arp_table, sinceCheck, asked, fault>>
      BY <1>1 DEF arpSpecVars
    <2>2. UNCHANGED CacheView
      BY <2>1 DEF CacheView, Known, sr_arp_get, Stops
    <2> QED
      BY <2>1, <2>2 DEF mapVars
  <1> QED
    BY <1>1, AnswerMaps, RequestMaps, SweepMaps, TimeMaps DEF ArpNext

\* The hashed table is a map (sr_arp.c:31-188): whatever collides or is
\* displaced, a lookup finds what was last learnt of its address, and an
\* address is refused only when as many others as there are slots are known.
THEOREM MapCorrect == ArpSpec => ImplementsMap
  <1>1. ArpInit => Map!Init
    <2> SUFFICES ASSUME ArpInit PROVE Map!Init
      OBVIOUS
    <2>1. /\ \A s \in Index : arp_table[s].ip = NoIp
          /\ sinceCheck = 0 /\ asked = {} /\ fault = NoFault
      BY DEF ArpInit, ArpClear, EmptyEntry
    <2>2. CacheView = [a \in Address |-> Absent]
      BY <2>1, ArpConstants DEF CacheView, NoIp
    <2> QED
      BY <2>1, <2>2 DEF Map!Init, CacheView, Known
  <1>2. ArpInv /\ Reads' /\ [ArpNext]_arpSpecVars => [Map!Next]_mapVars
    BY MapStep
  <1> QED
    BY <1>1, <1>2, MapReads, InitEstablishes, ArpStep, PTL
       DEF ArpSpec, ImplementsMap, Map!Spec, Map!vars, mapVars, CacheView, Known

-----------------------------------------------------------------------------
(* Under the handlers the buffer is still a queue.                          *)

backlogVars == <<QueueView, fault = "sr_buffer_add">>

\* A step of the queue is one of the backlog if only a full queue stops it.
LEMMA QueueIsBacklog ==
    ASSUME Running, Queue!Next, fault' \in {NoFault, "sr_buffer_add"}
    PROVE  Backlog!Next
  <1>1. /\ (fault # NoFault) = FALSE /\ (fault = "sr_buffer_add") = FALSE
        /\ (fault' # NoFault) = (fault' = "sr_buffer_add")
    BY DEF Running, NoFault
  <1>2. \A p \in Packet : Queue!Enqueue(p) => Backlog!Enqueue(p)
    BY <1>1 DEF Queue!Enqueue, Backlog!Enqueue
  <1>3. Queue!Overflow => Backlog!Overflow
    BY <1>1 DEF Queue!Overflow, Backlog!Overflow
  <1>4. \A k : Queue!Take(k) => Backlog!Take(k)
    BY <1>1 DEF Queue!Take, Backlog!Take
  <1>5. Queue!Tick => Backlog!Tick
    BY <1>1 DEF Queue!Tick, Backlog!Tick
  <1> QED
    BY <1>1, <1>2, <1>3, <1>4, <1>5 DEF Queue!Next, Backlog!Next

\* A step that leaves the buffer alone, or stops elsewhere, is not seen there.
LEMMA BacklogStutters ==
    ASSUME Running, UNCHANGED <<items, order>>, fault' # "sr_buffer_add"
    PROVE  UNCHANGED backlogVars
  <1>1. UNCHANGED QueueView
    BY DEF QueueView
  <1>2. fault # "sr_buffer_add"
    BY DEF Running, NoFault
  <1> QED
    BY <1>1, <1>2 DEF backlogVars

\* A message is read, asked about or swept for without the buffer.
LEMMA ReceiveSparesBuffer ==
    ASSUME Receive \/ ScanStep \/ SweepStep
    PROVE  Running /\ UNCHANGED bufVars /\ fault' # "sr_buffer_add"
  <1>1. ASSUME NEW p, NEW proto, NEW ttlLeft, NEW checksumOk,
               ReceiveIp(p, proto, ttlLeft, checksumOk)
        PROVE  Running /\ UNCHANGED bufVars /\ fault' # "sr_buffer_add"
    <2>1. Handled \/ (\E q : ToSend(q))
          \/ (\E f \in {"sr_icmp_unreachable", "sr_icmp_handler"} : MessageFaults(f))
      BY <1>1 DEF ReceiveIp, Unreachable, IcmpHandler
    <2> QED
      BY <1>1, <2>1 DEF ReceiveIp, Handled, ToSend, MessageFaults, Stop, StopIn, Proceed,
         NoFault
  <1>2. ASSUME NEW ip, NEW mac, NEW iface, ReceiveArpReply(ip, mac, iface)
        PROVE  Running /\ UNCHANGED bufVars /\ fault' # "sr_buffer_add"
    BY <1>2 DEF ReceiveArpReply, sr_arp_set, Proceed, StopIn, NoFault
  <1>3. CASE ReceiveOther
    BY <1>3 DEF ReceiveOther, Handled, Proceed, NoFault
  <1>4. CASE ScanStep
    BY <1>4 DEF ScanStep, sr_arp_refresh, Proceed, StopIn, NoFault
  <1>5. CASE SweepStep
    BY <1>5 DEF SweepStep, sr_arp_check_refresh, Proceed, StopIn, NoFault
  <1> QED
    BY <1>1, <1>2, <1>3, <1>4, <1>5 DEF Receive, ReceiveIpAny, ReceiveArpReplyAny

\* So is a packet released, or the process stopped on the way.
LEMMA SendSparesBuffer ==
    ASSUME CoreInv, NEW p \in Packet
    PROVE  /\ Release(p) => fault' = NoFault
           /\ SendFaults(p) => UNCHANGED bufVars /\ fault' # "sr_buffer_add"
  <1>1. ifidx \in [Route -> Iface \cup {NoIface}]
    BY DEF CoreInv, Control
  <1>2. Release(p) => fault' = NoFault
    BY <1>1, ReleasePreserves DEF CoreInv
  <1>3. SendFaults(p) => \E f \in {"sr_arp_get", "sr_router_send", "sr_icmp_unreachable"} :
                            Stop(f)
    BY DEF SendFaults
  <1> QED
    BY <1>2, <1>3 DEF Stop, StopIn

\* Every step of the router is one step of the queue, or is not seen there.
LEMMA BacklogStep ==
    ASSUME CoreInv, [RouterNext]_routerVars
    PROVE  [Backlog!Next]_backlogVars
  <1>1. CASE UNCHANGED routerVars
    <2>1. UNCHANGED <<items, order, fault>>
      BY <1>1 DEF routerVars, bufVars
    <2>2. UNCHANGED QueueView
      BY <2>1 DEF QueueView
    <2> QED
      BY <2>1, <2>2 DEF backlogVars
  <1>2. CASE Receive \/ ScanStep \/ SweepStep
    BY <1>2, ReceiveSparesBuffer, BacklogStutters DEF bufVars
  <1>3. CASE ResendStep
    <2>1. /\ Running /\ cur \in Slot /\ items[cur].buffered /\ items[cur].pkt \in Packet
      BY <1>3, NextOnList DEF ResendStep, CoreInv, Control
    <2>2. CASE sr_buffer_remove(cur) /\ fault' = NoFault
      <3>1. Remove(cur)
        BY <2>1, <2>2 DEF Remove, Proceed
      <3>2. Queue!Next
        BY <2>1, <3>1, RemoveStep DEF CoreInv
      <3> QED
        BY <2>1, <2>2, <3>2, QueueIsBacklog
    <2>3. CASE Keep(items[cur])
      <3>1. UNCHANGED bufVars /\ fault' = NoFault
        BY <2>1, <2>3 DEF Keep, sr_buffer_add, Proceed
      <3> QED
        BY <2>1, <3>1, BacklogStutters DEF bufVars, NoFault
    <2>4. CASE SendFaults(items[cur].pkt)
      BY <2>1, <2>4, SendSparesBuffer, BacklogStutters DEF bufVars
    <2> QED
      BY <1>3, <2>1, <2>2, <2>3, <2>4, SendSparesBuffer DEF ResendStep, Proceed
  <1>4. CASE SendStep
    <2>1. Running /\ hand \in Packet
      BY <1>4 DEF SendStep, CoreInv, Control
    <2>2. CASE Release(hand) /\ UNCHANGED bufVars
      BY <2>1, <2>2, SendSparesBuffer, BacklogStutters DEF bufVars, NoFault
    <2>3. CASE Keep(Fresh(hand))
      <3>1. Arrive(hand)
        BY <2>1, <2>3 DEF Keep, Arrive
      <3>2. Queue!Next
        BY <2>1, <3>1, ArriveStep DEF CoreInv
      <3>3. fault' \in {NoFault, "sr_buffer_add"}
        BY <3>1 DEF Arrive, sr_buffer_add, Proceed, StopIn
      <3> QED
        BY <2>1, <3>2, <3>3, QueueIsBacklog
    <2>4. CASE SendFaults(hand)
      BY <2>1, <2>4, SendSparesBuffer, BacklogStutters DEF bufVars
    <2> QED
      BY <1>4, <2>2, <2>3, <2>4 DEF SendStep
  <1>5. CASE Tick
    <2>1. Running /\ fault' = NoFault /\ BufTick
      BY <1>5 DEF Tick, BufTick, Proceed
    <2>2. Queue!Next
      BY <2>1, TickStep DEF CoreInv
    <2> QED
      BY <2>1, <2>2, QueueIsBacklog
  <1> QED
    BY <1>1, <1>2, <1>3, <1>4, <1>5 DEF RouterNext, Handler

\* Whatever the handlers do with it (sr_router.c:186-271), the pool is the bounded
\* queue it is on its own: each step of the thread is at most one operation of the
\* queue, and nothing but a full queue stops the router in it.
THEOREM BacklogCorrect == RouterSpec => KeepsQueue
  <1>1. RouterInit => Backlog!Init
    BY DEF RouterInit, sr_buffer_clear, Backlog!Init, NoFault
  <1>2. CoreInv /\ [RouterNext]_routerVars => [Backlog!Next]_backlogVars
    BY BacklogStep
  <1> QED
    BY <1>1, <1>2, RouterInitEstablishes, RouterStep, PTL
       DEF RouterSpec, KeepsQueue, Backlog!Spec, backlogVars, QueueView

-----------------------------------------------------------------------------
(* Under the handlers the cache is still a map.                             *)

neighbourVars == <<CacheView, sinceCheck, asked, fault \in CacheFaults>>

\* What the map of the cache does, the map of the neighbours does, if the router
\* stops in the cache or not at all.
LEMMA MapIsNeighbours ==
    ASSUME Running, Map!Next, fault' \in CacheFaults \cup {NoFault}
    PROVE  Neighbours!Next
  <1>1. /\ (fault # NoFault) = FALSE /\ (fault \in CacheFaults) = FALSE
        /\ (fault' # NoFault) = (fault' \in CacheFaults)
    BY DEF Running, NoFault, CacheFaults
  <1>2. ASSUME NEW a \in Address
        PROVE  Map!Room(a) <=> Neighbours!Room(a)
    <2>1. Neighbours!Present = {b \in Address : CacheView[b] # Absent}
      BY DEF Neighbours!Present, CacheView, Known
    <2>2. Neighbours!Cardinality(Neighbours!Present) = Cardinality(Neighbours!Present)
      BY DEF Neighbours!Cardinality, Cardinality
    <2>3. Neighbours!Room(a) <=>
            \/ CacheView[a] # Absent
            \/ Neighbours!Cardinality(Neighbours!Present) < LAN_SIZE
      BY DEF Neighbours!Room, CacheView, Known
    <2> QED
      BY <2>1, <2>2, <2>3, RoomIs
  <1>3. \A a \in Address, m \in Mac, i \in Iface :
           Map!Learn(a, m, i) => Neighbours!Learn(a, m, i)
    BY <1>1, <1>2 DEF Map!Learn, Neighbours!Learn
  <1>4. \A a \in Address : Map!Ask(a) => Neighbours!Ask(a)
    BY <1>1, <1>2 DEF Map!Ask, Neighbours!Ask, Map!Unanswered, Neighbours!Unanswered
  <1>5. Map!NoRoom => Neighbours!NoRoom
    BY <1>1, <1>2 DEF Map!NoRoom, Neighbours!NoRoom
  <1>6. \A a : Map!Expired(a) <=> Neighbours!Expired(a)
    BY DEF Map!Expired, Neighbours!Expired
  <1>7. Map!Sweep => Neighbours!Sweep
    BY <1>1, <1>6 DEF Map!Sweep, Neighbours!Sweep
  <1>8. Map!SweepStops => Neighbours!SweepStops
    BY <1>1, <1>6 DEF Map!SweepStops, Neighbours!SweepStops
  <1>9. Map!Quiet => Neighbours!Quiet
    BY <1>1 DEF Map!Quiet, Neighbours!Quiet
  <1>10. Map!Tick => Neighbours!Tick
    BY <1>1 DEF Map!Tick, Neighbours!Tick
  <1> QED
    BY <1>1, <1>3, <1>4, <1>5, <1>7, <1>8, <1>9, <1>10 DEF Map!Next, Neighbours!Next

\* A step that neither writes the table nor asks is quiet there.
LEMMA NeighboursQuiet ==
    ASSUME Running, UNCHANGED <<arp_table, sinceCheck>>, asked' = {},
           fault' \notin CacheFaults
    PROVE  Neighbours!Next
  <1>1. UNCHANGED CacheView
    BY DEF CacheView, Known, sr_arp_get, Stops
  <1>2. fault \notin CacheFaults
    BY DEF Running, NoFault, CacheFaults
  <1>3. Neighbours!Quiet
    BY <1>1, <1>2 DEF Neighbours!Quiet, CacheView, Known
  <1> QED
    BY <1>2, <1>3 DEF Neighbours!Next

\* A packet is received without the cache.
LEMMA ReceiveSparesCache ==
    ASSUME ReceiveIpAny \/ ReceiveOther
    PROVE  /\ Running /\ UNCHANGED <<arp_table, sinceCheck>> /\ asked' = {}
           /\ fault' \notin CacheFaults
  <1>1. ASSUME Handled \/ (\E q : ToSend(q))
               \/ (\E f \in {"sr_icmp_unreachable", "sr_icmp_handler"} : MessageFaults(f))
        PROVE  /\ UNCHANGED <<arp_table, sinceCheck>> /\ asked' = {}
               /\ fault' \notin CacheFaults
    BY <1>1 DEF Handled, ToSend, MessageFaults, Stop, StopIn, Proceed, NoFault, CacheFaults
  <1>2. ASSUME NEW p, NEW proto, NEW ttlLeft, NEW checksumOk,
               ReceiveIp(p, proto, ttlLeft, checksumOk)
        PROVE  /\ Running /\ UNCHANGED <<arp_table, sinceCheck>> /\ asked' = {}
               /\ fault' \notin CacheFaults
    <2>1. Handled \/ (\E q : ToSend(q))
          \/ (\E f \in {"sr_icmp_unreachable", "sr_icmp_handler"} : MessageFaults(f))
      BY <1>2 DEF ReceiveIp, Unreachable, IcmpHandler
    <2> QED
      BY <1>1, <1>2, <2>1 DEF ReceiveIp
  <1> QED
    BY <1>1, <1>2 DEF ReceiveIpAny, ReceiveOther

\* A search that spins in sr_arp_get has found no room for its address.
LEMMA SpinIsNoRoom ==
    ASSUME ArpInv, Running, NEW p \in Packet, Lookup(p) = "spin", Stop("sr_arp_get")
    PROVE  Neighbours!Next
  <1>1. GatewayOf(p) \in Address
    BY PacketFields
  <1>2. sr_arp_get(GatewayOf(p)) = SPIN
    <2>1. CASE SlotOf(p) \in Index
      <3>1. SlotOf(p) # SPIN /\ SlotOf(p) # NULL
        BY <2>1 DEF SPIN, NULL, Index
      <3> QED
        BY <2>1, <3>1 DEF Lookup
    <2>2. CASE SlotOf(p) = NULL
      BY <2>2 DEF Lookup, SPIN, NULL
    <2>3. SlotOf(p) \in Index \cup {NULL, SPIN}
      BY <1>1, GetResult, HashInIndex, ProbeInIndex DEF SlotOf
    <2> QED
      BY <2>1, <2>2, <2>3 DEF SlotOf
  <1>3. /\ UNCHANGED <<arp_table, sinceCheck>> /\ asked' = {} /\ fault' = "sr_arp_get"
    BY DEF Stop, StopIn
  <1>4. UNCHANGED CacheView
    BY <1>3 DEF CacheView, Known, sr_arp_get, Stops
  <1>5. Map!NoRoom
    BY <1>1, <1>2, <1>3, <1>4, MapFull DEF NoFault
  <1>6. Map!Next
    BY <1>5 DEF Map!Next, Running
  <1> QED
    BY <1>3, <1>6, MapIsNeighbours DEF CacheFaults

\* Sending a packet is quiet, asks for its gateway, or finds no room for it.
LEMMA SendMaps ==
    ASSUME CoreInv, Reads', Running, NEW h, h.pkt \in Packet,
           Release(h.pkt) \/ Keep(h) \/ SendFaults(h.pkt)
    PROVE  Neighbours!Next
  <1> DEFINE p == h.pkt
  <1>1. ifidx \in [Route -> Iface \cup {NoIface}]
    BY DEF CoreInv, Control
  <1>2. CASE Release(p)
    <2>1. UNCHANGED <<arp_table, sinceCheck>> /\ fault' = NoFault
      BY <1>1, <1>2, ReleasePreserves DEF CoreInv
    <2>2. asked' = {}
      BY <1>2 DEF Release, Transmit
    <2> QED
      BY <2>1, <2>2, NeighboursQuiet DEF CacheFaults, NoFault
  <1>3. CASE Keep(h)
    <2>1. fault' \in {NoFault, "sr_buffer_add"}
      BY <1>3 DEF Keep, sr_buffer_add, Proceed, StopIn
    <2>2. CASE /\ h.buffered \/ FreeSlots # {}
               /\ sr_arp_refresh(GatewayOf(p), InterfaceOf(p))
      <3>1. fault' = NoFault
        BY <1>3, <2>2 DEF Keep, sr_buffer_add, Proceed
      <3>2. Request(GatewayOf(p), InterfaceOf(p))
        BY <2>2 DEF Request
      <3>3. Map!Next
        BY <3>2, PacketFields, RequestMaps DEF CoreInv
      <3> QED
        BY <3>1, <3>3, MapIsNeighbours
    <2>3. CASE asked' = {} /\ UNCHANGED <<arp_table, sinceCheck>>
      BY <2>1, <2>3, NeighboursQuiet DEF CacheFaults, NoFault
    <2> QED
      BY <1>3, <2>2, <2>3 DEF Keep
  <1>4. CASE SendFaults(p)
    <2>1. CASE Stop("sr_router_send") \/ Stop("sr_icmp_unreachable")
      BY <2>1, NeighboursQuiet DEF Stop, StopIn, CacheFaults
    <2>2. CASE Stop("sr_arp_get")
      <3>1. \/ Lookup(p) = "spin"
            \/ ~ UnreachableFaults(p) /\ Lookup(sr_icmp_unreachable(p)) = "spin"
        BY <1>4, <2>2 DEF SendFaults, Stop, StopIn
      <3> QED
        BY <1>1, <2>2, <3>1, SpinIsNoRoom, ErrorIsPacket DEF CoreInv
    <2> QED
      BY <1>4, <2>1, <2>2 DEF SendFaults
  <1> QED
    BY <1>2, <1>3, <1>4

\* Every step of the router is a step of the map, or is not seen there.
LEMMA NeighboursStep ==
    ASSUME CoreInv, Reads', [RouterNext]_routerVars
    PROVE  [Neighbours!Next]_neighbourVars
  <1>1. CASE UNCHANGED routerVars
    <2>1. UNCHANGED <<arp_table, sinceCheck, asked, fault>>
      BY <1>1 DEF routerVars, arpVars
    <2>2. UNCHANGED CacheView
      BY <2>1 DEF CacheView, Known, sr_arp_get, Stops
    <2> QED
      BY <2>1, <2>2 DEF neighbourVars
  <1>2. CASE ReceiveIpAny \/ ReceiveOther
    BY <1>2, ReceiveSparesCache, NeighboursQuiet
  <1>3. CASE ReceiveArpReplyAny
    <2>1. PICK r \in Reply : ReceiveArpReply(r[1], r[2], r[3])
      BY <1>3 DEF ReceiveArpReplyAny
    <2>2. r[1] \in Address /\ r[2] \in Mac /\ r[3] \in Iface
      BY InputsAssumption
    <2>3. Running /\ Answer(r[1], r[2], r[3])
      BY <2>1 DEF ReceiveArpReply, Answer
    <2>4. fault' \in CacheFaults \cup {NoFault}
      BY <2>3 DEF Answer, sr_arp_set, Proceed, StopIn, CacheFaults
    <2>5. Map!Next
      BY <2>2, <2>3, AnswerMaps DEF CoreInv
    <2> QED
      BY <2>3, <2>4, <2>5, MapIsNeighbours
  <1>4. CASE ScanStep
    <2>1. Gateway[route] \in Address /\ Interface[route] \in Iface
      BY RoutesAssumption DEF CoreInv, Control
    <2>2. Running /\ Request(Gateway[route], Interface[route])
      BY <1>4 DEF ScanStep, Request
    <2>3. fault' \in CacheFaults \cup {NoFault}
      BY <2>2 DEF Request, sr_arp_refresh, Proceed, StopIn, CacheFaults
    <2>4. Map!Next
      BY <2>1, <2>2, RequestMaps DEF CoreInv
    <2> QED
      BY <2>2, <2>3, <2>4, MapIsNeighbours
  <1>5. CASE ResendStep
    <2>1. Running /\ items[cur].pkt \in Packet
      BY <1>5, NextOnList DEF ResendStep, CoreInv, Control
    <2>2. CASE Proceed /\ asked' = {} /\ UNCHANGED <<arp_table, sinceCheck>>
      BY <2>1, <2>2, NeighboursQuiet DEF Proceed, CacheFaults, NoFault
    <2>3. CASE Release(items[cur].pkt) \/ Keep(items[cur]) \/ SendFaults(items[cur].pkt)
      BY <2>1, <2>3, SendMaps
    <2> QED
      BY <1>5, <2>2, <2>3 DEF ResendStep
  <1>6. CASE SendStep
    <2>1. Running /\ hand \in Packet /\ Fresh(hand).pkt = hand
      BY <1>6 DEF SendStep, CoreInv, Control, Fresh
    <2>2. Release(hand) \/ Keep(Fresh(hand)) \/ SendFaults(hand)
      BY <1>6 DEF SendStep
    <2> QED
      BY <2>1, <2>2, SendMaps
  <1>7. CASE SweepStep
    <2>1. Running /\ Sweep
      BY <1>7 DEF SweepStep, Sweep
    <2>2. fault' \in CacheFaults \cup {NoFault}
      BY <2>1 DEF Sweep, sr_arp_check_refresh, Proceed, StopIn, CacheFaults
    <2>3. Map!Next
      BY <2>1, SweepMaps DEF CoreInv
    <2> QED
      BY <2>1, <2>2, <2>3, MapIsNeighbours
  <1>8. CASE Tick
    <2>1. Running /\ fault' = NoFault /\ ArpTick
      BY <1>8 DEF Tick, ArpTick, Proceed
    <2>2. Map!Next
      BY <2>1, TimeMaps DEF CoreInv
    <2> QED
      BY <2>1, <2>2, MapIsNeighbours
  <1> QED
    BY <1>1, <1>2, <1>3, <1>4, <1>5, <1>6, <1>7, <1>8 DEF RouterNext, Receive, Handler

\* Whatever the handlers do with it (sr_router.c:91-271, sr_main.c:135-139), the table
\* is the map it is on its own: forwarding writes no entry but that of an address it asks
\* for the first time, and the cache stops the router only where the map does.
THEOREM NeighboursCorrect == RouterSpec => KeepsMap
  <1>1. RouterInit => Neighbours!Init
    <2> SUFFICES ASSUME RouterInit PROVE Neighbours!Init
      OBVIOUS
    <2>1. /\ \A s \in Index : arp_table[s].ip = NoIp
          /\ sinceCheck = 0 /\ asked = {} /\ fault \notin CacheFaults
      BY DEF RouterInit, ArpClear, EmptyEntry, NoFault, CacheFaults
    <2>2. CacheView = [a \in Address |-> Absent]
      BY <2>1, ArpConstants DEF CacheView, NoIp
    <2> QED
      BY <2>1, <2>2 DEF Neighbours!Init, CacheView, Known
  <1>2. CoreInv => Reads
    BY MapReads DEF CoreInv
  <1>3. CoreInv /\ Reads' /\ [RouterNext]_routerVars => [Neighbours!Next]_neighbourVars
    BY NeighboursStep
  <1> QED
    BY <1>1, <1>2, <1>3, RouterInitEstablishes, RouterStep, PTL
       DEF RouterSpec, KeepsMap, Neighbours!Spec, Neighbours!vars, neighbourVars,
           CacheView, Known
=============================================================================
