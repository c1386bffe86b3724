------------------------- MODULE PacketBufferProofs -------------------------
(***************************************************************************)
(* Proofs about the packet buffer, for every BUFFSIZE, PACKET_TOO_OLD and  *)
(* set of packets.  The inductive invariant is the type invariant with     *)
(* ListIntegrity; each operation is shown to preserve it by a lemma of its *)
(* own, so that a module that uses the operations can cite the lemma.      *)
(***************************************************************************)
EXTENDS PacketBuffer, LeastNatural, TLAPS

BufInv == BufTypeOK /\ ListIntegrity

Assumptions == /\ BUFFSIZE \in Nat \ {0}
               /\ PACKET_TOO_OLD \in Nat
               /\ NoPacket \notin Packet

\* What is assumed of the constants.
LEMMA ConstantsOK == Assumptions
  BY BuffsizeAssumption, TooOldAssumption, NoPacketAssumption DEF Assumptions

\* sr_buffer_clear leaves an empty, consistent buffer.
LEMMA ClearEstablishes == sr_buffer_clear /\ fault = NoFault => BufInv
  <1> SUFFICES ASSUME sr_buffer_clear, fault = NoFault PROVE BufInv
    OBVIOUS
  <1> USE ConstantsOK DEF Assumptions, sr_buffer_clear
  <1>1. BufTypeOK
    BY DEF BufTypeOK, Item, FreeItem, Pointer, PacketAge, Null, Slot
  <1>2. PoolIntegrity
    BY DEF PoolIntegrity, FreeItem
  <1>3. LinkIntegrity
    BY DEF LinkIntegrity, FreeItem, Null
  <1>4. OldestFirst
    BY DEF OldestFirst
  <1> QED BY <1>1, <1>2, <1>3, <1>4 DEF BufInv, ListIntegrity

\* sr_buffer_malloc returns a free slot when there is one.
LEMMA MallocFree ==
  ASSUME FreeSlots # {}
  PROVE  sr_buffer_malloc \in FreeSlots
  <1>1. FreeSlots \subseteq Nat
    BY ConstantsOK DEF Assumptions, FreeSlots, Slot
  <1>2. \E i \in FreeSlots : \A j \in FreeSlots : i <= j
    BY <1>1, LeastExists
  <1> QED BY <1>2 DEF sr_buffer_malloc

\* Linking a free slot at the end of the list keeps the buffer consistent.
LEMMA AppendPreserves ==
  ASSUME BufInv, NEW i \in FreeSlots, NEW p \in Packet,
         Append_item(i, p), fault' \in FaultSite \cup {NoFault}
  PROVE  BufInv'
  <1> DEFINE n == Len(order)
  <1> USE ConstantsOK DEF Assumptions, Slot
  <1>1. /\ i \in Slot /\ ~ items[i].buffered
        /\ n \in Nat
        /\ \A k \in 1..n : order[k] \in Slot /\ order[k] # i
        /\ (start = Null) = (n = 0)
        /\ n # 0 => end = order[n]
    <2>1. i \in Slot /\ ~ items[i].buffered
      BY DEF FreeSlots
    <2>2. n \in Nat /\ \A k \in 1..n : order[k] \in Slot
      BY DEF BufInv, BufTypeOK
    <2>3. \A k \in 1..n : items[order[k]].buffered
      BY <2>2 DEF BufInv, ListIntegrity, PoolIntegrity
    <2>4. /\ start = IF n = 0 THEN Null ELSE order[1]
          /\ end = IF n = 0 THEN Null ELSE order[n]
      BY DEF BufInv, ListIntegrity, LinkIntegrity
    <2>5. n # 0 => order[1] \in Slot
      BY <2>2
    <2> QED BY <2>1, <2>2, <2>3, <2>4, <2>5 DEF Null
  <1>2. /\ order' \in Seq(Slot)
        /\ Len(order') = n + 1
        /\ order'[n + 1] = i
        /\ \A k \in 1..n : order'[k] = order[k]
    BY <1>1 DEF Append_item, BufInv, BufTypeOK
  <1>3. /\ items'[i] = [buffered |-> TRUE, pkt |-> p, age |-> 0,
                        prev |-> IF n = 0 THEN Null ELSE order[n], next |-> Null]
        /\ \A j \in Slot \ {i} :
             items'[j] = IF n # 0 /\ j = order[n] THEN [items[j] EXCEPT !.next = i]
                         ELSE items[j]
        /\ items' = [j \in Slot |-> items'[j]]
    <2>1. start # Null => end \in Slot
      BY <1>1
    <2>2. items' = [j \in Slot |->
            IF j = i THEN [buffered |-> TRUE, pkt |-> p, age |-> 0,
                           prev |-> IF n = 0 THEN Null ELSE order[n],
                           next |-> Null]
            ELSE IF n # 0 /\ j = order[n] THEN [items[j] EXCEPT !.next = i]
            ELSE items[j]]
      BY <1>1, Zenon DEF Append_item
    <2> QED BY <1>1, <2>2
  <1>4. BufTypeOK'
    <2>1. ASSUME NEW j \in Slot PROVE items'[j] \in Item
      <3>1. CASE j = i
        <4>1. n # 0 => order[n] \in Slot
          BY <1>1
        <4> QED BY <3>1, <4>1, <1>3 DEF Item, Pointer, PacketAge, Null
      <3>2. CASE j # i
        <4>1. items[j] \in Item /\ i \in Pointer
          BY <1>1 DEF BufInv, BufTypeOK, Pointer
        <4>2. items'[j] = [items[j] EXCEPT !.next = i] \/ items'[j] = items[j]
          BY <3>2, <1>3
        <4> QED BY <4>1, <4>2 DEF Item
      <3> QED BY <3>1, <3>2
    <2>2. items' \in [Slot -> Item]
      BY <2>1, <1>3
    <2>3. start' \in Pointer /\ end' \in Pointer
      BY <1>1 DEF Append_item, BufInv, BufTypeOK, Pointer
    <2> QED BY <2>2, <2>3, <1>2 DEF BufTypeOK
  <1>5. PoolIntegrity'
    <2>1. \A j, k \in 1..(n + 1) : order'[j] = order'[k] => j = k
      BY <1>1, <1>2 DEF BufInv, ListIntegrity, PoolIntegrity
    <2>2. ASSUME NEW j \in Slot
          PROVE  items'[j].buffered <=> \E k \in 1..(n + 1) : order'[k] = j
      <3>1. CASE j = i
        <4>1. items'[j].buffered
          BY <3>1, <1>3
        <4>2. n + 1 \in 1..(n + 1) /\ order'[n + 1] = j
          BY <3>1, <1>1, <1>2
        <4> QED BY <4>1, <4>2
      <3>2. CASE j # i
        <4>1. items'[j].buffered <=> items[j].buffered
          BY <3>2, <1>3 DEF BufInv, BufTypeOK, Item
        <4>2. items[j].buffered <=> \E k \in 1..n : order[k] = j
          BY DEF BufInv, ListIntegrity, PoolIntegrity
        <4>3. \A k \in 1..(n + 1) : order'[k] = j => k \in 1..n /\ order[k] = j
          BY <3>2, <1>1, <1>2
        <4>4. \A k \in 1..n : order[k] = j => k \in 1..(n + 1) /\ order'[k] = j
          BY <1>1, <1>2
        <4> QED BY <4>1, <4>2, <4>3, <4>4, Zenon
      <3> QED BY <3>1, <3>2
    <2> QED BY <2>1, <2>2, <1>2 DEF PoolIntegrity
  <1>6. LinkIntegrity'
    <2>1. start' = order'[1] /\ end' = order'[n + 1]
      BY <1>1, <1>2 DEF Append_item, BufInv, ListIntegrity, LinkIntegrity, Null
    <2>2. ASSUME NEW k \in 1..(n + 1)
          PROVE  /\ items'[order'[k]].prev = IF k = 1 THEN Null ELSE order'[k - 1]
                 /\ items'[order'[k]].next = IF k = n + 1 THEN Null ELSE order'[k + 1]
      <3>1. CASE k = n + 1
        BY <3>1, <1>1, <1>2, <1>3
      <3>2. CASE k \in 1..n
        <4>1. /\ items[order[k]].prev = IF k = 1 THEN Null ELSE order[k - 1]
              /\ items[order[k]].next = IF k = n THEN Null ELSE order[k + 1]
          BY <3>2 DEF BufInv, ListIntegrity, LinkIntegrity
        <4>2. /\ items'[order[k]].prev = items[order[k]].prev
              /\ items'[order[k]].next = IF k = n THEN i ELSE items[order[k]].next
          <5>1. order[k] = order[n] <=> k = n
            BY <3>2, <1>1 DEF BufInv, ListIntegrity, PoolIntegrity
          <5>2. items[order[k]] \in Item
            BY <3>2, <1>1 DEF BufInv, BufTypeOK
          <5>3. order[k] \in Slot \ {i} /\ n # 0
            BY <3>2, <1>1
          <5>4. items'[order[k]] = IF k = n THEN [items[order[k]] EXCEPT !.next = i]
                                   ELSE items[order[k]]
            BY <5>1, <5>3, <1>3
          <5> QED BY <5>2, <5>4 DEF Item
        <4>3. /\ order'[k] = order[k]
              /\ order'[k + 1] = IF k = n THEN i ELSE order[k + 1]
              /\ k # 1 => order'[k - 1] = order[k - 1]
          <5>1. order'[k] = order[k]
            BY <3>2, <1>2
          <5>2. k # n => k + 1 \in 1..n
            BY <3>2, <1>1
          <5>3. k # 1 => k - 1 \in 1..n
            BY <3>2, <1>1
          <5> QED BY <5>1, <5>2, <5>3, <1>2
        <4> QED BY <3>2, <4>1, <4>2, <4>3, <1>1
      <3> QED BY <3>1, <3>2, <1>1
    <2>3. ASSUME NEW j \in Slot
          PROVE  IF items'[j].buffered THEN items'[j].pkt \in Packet
                 ELSE items'[j] = FreeItem
      <3>1. IF items[j].buffered THEN items[j].pkt \in Packet
            ELSE items[j] = FreeItem
        BY DEF BufInv, ListIntegrity, LinkIntegrity
      <3>2. n # 0 => items[order[n]].buffered
        BY <1>1 DEF BufInv, ListIntegrity, PoolIntegrity
      <3>3. items[j] \in Item
        BY DEF BufInv, BufTypeOK
      <3>4. CASE j = i
        BY <3>4, <1>3
      <3>5. CASE j # i /\ n # 0 /\ j = order[n]
        <4>1. items'[j] = [items[j] EXCEPT !.next = i]
          BY <3>5, <1>3
        <4>2. items'[j].buffered = items[j].buffered /\ items'[j].pkt = items[j].pkt
          BY <3>3, <4>1 DEF Item
        <4> QED BY <3>1, <3>2, <3>5, <4>2, Zenon
      <3>6. CASE j # i /\ ~ (n # 0 /\ j = order[n])
        BY <3>6, <3>1, <1>3
      <3> QED BY <3>4, <3>5, <3>6
    <2> QED BY <2>1, <2>2, <2>3, <1>1, <1>2 DEF LinkIntegrity
  <1>7. OldestFirst'
    <2>1. items'[i].age = 0
      BY <1>3
    <2>2. ASSUME NEW k \in 1..n
          PROVE  /\ items'[order[k]].age = items[order[k]].age
                 /\ items[order[k]].age \in Nat
      <3>1. items[order[k]] \in Item /\ order[k] \in Slot \ {i}
        BY <1>1 DEF BufInv, BufTypeOK
      <3>2. \/ items'[order[k]] = [items[order[k]] EXCEPT !.next = i]
            \/ items'[order[k]] = items[order[k]]
        BY <3>1, <1>3
      <3> QED BY <3>1, <3>2 DEF Item, PacketAge
    <2>3. \A j, k \in 1..n : j < k => items[order[j]].age >= items[order[k]].age
      BY DEF BufInv, ListIntegrity, OldestFirst
    <2>4. ASSUME NEW j \in 1..(n + 1), NEW k \in 1..(n + 1), j < k
          PROVE  items'[order'[j]].age >= items'[order'[k]].age
      <3>1. j \in 1..n
        BY <2>4, <1>1
      <3>2. CASE k = n + 1
        BY <3>1, <3>2, <2>1, <2>2, <1>1, <1>2
      <3>3. CASE k \in 1..n
        BY <3>1, <3>3, <2>2, <2>3, <2>4, <1>1, <1>2
      <3> QED BY <3>2, <3>3, <1>1
    <2> QED BY <2>4, <1>2 DEF OldestFirst
  <1> QED BY <1>4, <1>5, <1>6, <1>7 DEF BufInv, ListIntegrity

\* Unlinking a used slot keeps the buffer consistent, wherever it stands.
LEMMA RemovePreserves ==
  ASSUME BufInv, NEW i \in Slot, items[i].buffered,
         sr_buffer_remove(i), fault' \in FaultSite \cup {NoFault}
  PROVE  BufInv'
  <1> DEFINE n == Len(order)
             p == Position(i)
             before == IF p = 1 THEN Null ELSE order[p - 1]
             after == IF p = n THEN Null ELSE order[p + 1]
             old(k) == IF k < p THEN k ELSE k + 1
  <1> HIDE DEF p, before, after, old
  <1> USE ConstantsOK DEF Assumptions, Slot
  <1>1. n \in Nat /\ \A k \in 1..n : order[k] \in Slot /\ items[order[k]] \in Item
    BY DEF BufInv, BufTypeOK
  <1>2. p \in 1..n /\ order[p] = i
    <2>1. \E k \in 1..n : order[k] = i
      BY DEF BufInv, ListIntegrity, PoolIntegrity
    <2> QED BY <2>1 DEF Position, p
  <1>3. \A j, k \in 1..n : order[j] = order[k] => j = k
    BY DEF BufInv, ListIntegrity, PoolIntegrity
  <1>4. \A k \in 1..n : /\ items[order[k]].prev = IF k = 1 THEN Null ELSE order[k - 1]
                       /\ items[order[k]].next = IF k = n THEN Null ELSE order[k + 1]
    BY DEF BufInv, ListIntegrity, LinkIntegrity
  <1>5. items[i].prev = before /\ items[i].next = after
    BY <1>2, <1>4 DEF before, after
  <1>6. /\ order' \in Seq(Slot)
        /\ Len(order') = n - 1
        /\ \A k \in 1..(n - 1) : old(k) \in 1..n /\ old(k) # p
                                 /\ order'[k] = order[old(k)]
    <2>1. order' = [k \in 1..(n - 1) |-> IF k < p THEN order[k] ELSE order[k + 1]]
      BY DEF sr_buffer_remove, Without, p
    <2>2. n - 1 \in Nat
      BY <1>1, <1>2
    <2>3. \A k \in 1..(n - 1) : old(k) \in 1..n /\ old(k) # p
      BY <1>1, <1>2 DEF old
    <2>4. \A k \in 1..(n - 1) : order'[k] = order[old(k)]
      BY <2>1 DEF old
    <2>5. \A k \in 1..(n - 1) : order'[k] \in Slot
      BY <2>3, <2>4, <1>1
    <2>6. order' \in Seq(Slot) /\ Len(order') = n - 1
      BY <2>1, <2>2, <2>5
    <2> QED BY <2>3, <2>4, <2>6
  <1>13. \A j, k \in 1..(n - 1) : j < k => old(j) < old(k)
    BY <1>2 DEF old
  <1>7. /\ items' = [j \in Slot |-> items'[j]]
        /\ items'[i] = FreeItem
        /\ \A j \in Slot \ {i} :
             items'[j] = [items[j] EXCEPT
                            !.prev = IF j = after THEN before ELSE @,
                            !.next = IF j = before THEN after ELSE @]
    BY <1>5 DEF sr_buffer_remove
  <1>8. \A j \in Slot \ {i} :
          /\ items'[j].buffered = items[j].buffered
          /\ items'[j].pkt = items[j].pkt
          /\ items'[j].age = items[j].age
          /\ items'[j].prev = IF j = after THEN before ELSE items[j].prev
          /\ items'[j].next = IF j = before THEN after ELSE items[j].next
    <2> TAKE j \in Slot \ {i}
    <2>1. items[j] \in Item
      BY DEF BufInv, BufTypeOK
    <2>2. items'[j] = [items[j] EXCEPT
                         !.prev = IF j = after THEN before ELSE items[j].prev,
                         !.next = IF j = before THEN after ELSE items[j].next]
      BY <1>7
    <2> QED BY <2>1, <2>2 DEF Item
  <1>9. BufTypeOK'
    <2>1. before \in Pointer /\ after \in Pointer
      BY <1>1, <1>2 DEF Pointer, Null, before, after
    <2>2. ASSUME NEW j \in Slot PROVE items'[j] \in Item
      <3>1. CASE j = i
        <4>1. FreeItem \in Item
          BY DEF Item, FreeItem, Pointer, PacketAge, Null
        <4> QED BY <3>1, <4>1, <1>7
      <3>2. CASE j # i
        <4>1. items[j] \in Item
          BY DEF BufInv, BufTypeOK
        <4>2. items'[j] = [items[j] EXCEPT
                             !.prev = IF j = after THEN before ELSE items[j].prev,
                             !.next = IF j = before THEN after ELSE items[j].next]
          BY <3>2, <1>7
        <4> QED BY <4>1, <4>2, <2>1 DEF Item
      <3> QED BY <3>1, <3>2
    <2>3. items' \in [Slot -> Item]
      BY <2>2, <1>7
    <2>4. start' \in Pointer /\ end' \in Pointer
      BY <2>1, <1>5 DEF sr_buffer_remove, BufInv, BufTypeOK, Pointer, Null
    <2> QED BY <2>3, <2>4, <1>6 DEF BufTypeOK
  <1>10. PoolIntegrity'
    <2>1. ASSUME NEW j \in 1..(n - 1), NEW k \in 1..(n - 1), order'[j] = order'[k]
          PROVE  j = k
      <3>1. old(j) = old(k)
        BY <2>1, <1>3, <1>6
      <3>2. old(j) \in Int /\ old(k) \in Int
        BY <1>6
      <3> QED BY <3>1, <3>2, <1>13
    <2>2. ASSUME NEW j \in Slot
          PROVE  items'[j].buffered <=> \E k \in 1..(n - 1) : order'[k] = j
      <3>1. CASE j = i
        <4>1. ~ items'[j].buffered
          <5> items'[i] = FreeItem
            BY <1>7
          <5> QED BY <3>1 DEF FreeItem
        <4>2. \A k \in 1..(n - 1) : order'[k] # j
          BY <3>1, <1>2, <1>3, <1>6
        <4> QED BY <4>1, <4>2
      <3>2. CASE j # i
        <4>1. items'[j].buffered <=> items[j].buffered
          BY <3>2, <1>8
        <4>2. items[j].buffered <=> \E k \in 1..n : order[k] = j
          BY DEF BufInv, ListIntegrity, PoolIntegrity
        <4>3. ASSUME NEW k \in 1..n, order[k] = j
              PROVE  \E m \in 1..(n - 1) : order'[m] = j
          <5>1. k # p
            BY <4>3, <3>2, <1>2
          <5>2. CASE k < p
            <6>1. k \in 1..(n - 1) /\ old(k) = k
              BY <5>2, <1>1, <1>2 DEF old
            <6> QED BY <6>1, <4>3, <1>6
          <5>3. CASE k > p
            <6>1. k - 1 \in 1..(n - 1) /\ old(k - 1) = k
              BY <5>3, <1>1, <1>2 DEF old
            <6> QED BY <6>1, <4>3, <1>6
          <5> QED BY <5>1, <5>2, <5>3, <1>1, <1>2
        <4>4. \A m \in 1..(n - 1) : order'[m] = j => \E k \in 1..n : order[k] = j
          BY <1>6
        <4> QED BY <4>1, <4>2, <4>3, <4>4
      <3> QED BY <3>1, <3>2
    <2> QED BY <2>1, <2>2, <1>6 DEF PoolIntegrity
  <1>11. LinkIntegrity'
    <2>1. /\ start' = IF n - 1 = 0 THEN Null ELSE order'[1]
          /\ end' = IF n - 1 = 0 THEN Null ELSE order'[n - 1]
      <3>1. start = order[1] /\ end = order[n] /\ n # 0
        BY <1>1, <1>2 DEF BufInv, ListIntegrity, LinkIntegrity
      <3>2. (before = Null /\ after = Null) <=> n = 1
        <4>1. before = Null <=> p = 1
          BY <1>1, <1>2 DEF Null, before
        <4>2. after = Null <=> p = n
          BY <1>1, <1>2 DEF Null, after
        <4>3. n \in Nat /\ p \in 1..n
          BY <1>1, <1>2
        <4> HIDE DEF n
        <4> QED BY <4>1, <4>2, <4>3, <3>1
      <3>3. /\ start' = IF n = 1 THEN Null ELSE IF start = i THEN after ELSE start
            /\ end' = IF n = 1 THEN Null ELSE IF end = i THEN before ELSE end
        BY <3>2, <1>5 DEF sr_buffer_remove
      <3>4. (start = i <=> p = 1) /\ (end = i <=> p = n)
        BY <3>1, <1>1, <1>2, <1>3
      <3>5. CASE n = 1
        BY <3>3, <3>5
      <3>6. CASE n # 1
        <4>1. 1 \in 1..(n - 1) /\ n - 1 \in 1..(n - 1) /\ n # 1 /\ n \in Nat
          <5>1. n >= 1
            BY <1>1, <1>2
          <5>2. n \in Nat
            BY <1>1
          <5> HIDE DEF n
          <5> QED BY <5>1, <5>2, <3>6
        <4>2. order'[1] = order[old(1)] /\ order'[n - 1] = order[old(n - 1)]
          BY <4>1, <1>6
        <4>3. start' = order'[1]
          <5>1. start' = IF p = 1 THEN after ELSE order[1]
            BY <3>1, <3>3, <3>4, <4>1
          <5>2. old(1) = IF p = 1 THEN 2 ELSE 1
            BY <1>2 DEF old
          <5> QED BY <5>1, <5>2, <4>1, <4>2 DEF after
        <4>4. end' = order'[n - 1]
          <5>1. end' = IF p = n THEN before ELSE order[n]
            BY <3>1, <3>3, <3>4, <4>1
          <5>2. old(n - 1) = IF p = n THEN n - 1 ELSE n
            BY <4>1, <1>2 DEF old
          <5> QED BY <5>1, <5>2, <4>1, <4>2 DEF before
        <4> QED BY <4>3, <4>4, <3>6, <1>1
      <3> QED BY <3>5, <3>6
    <2>2. ASSUME NEW k \in 1..(n - 1)
          PROVE  /\ items'[order'[k]].prev = IF k = 1 THEN Null ELSE order'[k - 1]
                 /\ items'[order'[k]].next = IF k = n - 1 THEN Null ELSE order'[k + 1]
      <3>1. /\ old(k) \in 1..n /\ old(k) # p /\ order'[k] = order[old(k)]
            /\ order'[k] \in Slot \ {i}
        BY <1>1, <1>2, <1>3, <1>6
      <3>2. (order'[k] = after <=> k = p) /\ (order'[k] = before <=> k = p - 1)
        <4>1. order'[k] # Null
          BY <3>1 DEF Null
        <4>2. order'[k] = after <=> p # n /\ old(k) = p + 1
          BY <4>1, <3>1, <1>1, <1>2, <1>3 DEF after
        <4>3. order'[k] = before <=> p # 1 /\ old(k) = p - 1
          BY <4>1, <3>1, <1>1, <1>2, <1>3 DEF before
        <4> QED BY <4>2, <4>3, <1>1, <1>2 DEF old
      <3>3. /\ items'[order'[k]].prev = IF k = p THEN before
                                        ELSE IF old(k) = 1 THEN Null ELSE order[old(k) - 1]
            /\ items'[order'[k]].next = IF k = p - 1 THEN after
                                        ELSE IF old(k) = n THEN Null ELSE order[old(k) + 1]
        <4>1. /\ items[order'[k]].prev = IF old(k) = 1 THEN Null ELSE order[old(k) - 1]
              /\ items[order'[k]].next = IF old(k) = n THEN Null ELSE order[old(k) + 1]
          BY <3>1, <1>4
        <4> QED BY <3>1, <3>2, <4>1, <1>8
      <3>4. k # 1 => order'[k - 1] = order[old(k - 1)]
        BY <1>6, <1>1
      <3>5. k # n - 1 => order'[k + 1] = order[old(k + 1)]
        BY <1>6, <1>1
      <3>6. items'[order'[k]].prev = IF k = 1 THEN Null ELSE order'[k - 1]
        <4>1. CASE k = p
          BY <4>1, <3>3, <3>4, <1>1, <1>2 DEF old, before
        <4>2. CASE k < p
          BY <4>2, <3>3, <3>4, <1>1, <1>2 DEF old, before
        <4>3. CASE k > p
          BY <4>3, <3>3, <3>4, <1>1, <1>2 DEF old, before
        <4> QED BY <4>1, <4>2, <4>3, <1>2
      <3>7. items'[order'[k]].next = IF k = n - 1 THEN Null ELSE order'[k + 1]
        <4>1. CASE k = p - 1
          BY <4>1, <3>3, <3>5, <1>1, <1>2 DEF old, after
        <4>2. CASE k < p - 1
          BY <4>2, <3>3, <3>5, <1>1, <1>2 DEF old, after
        <4>3. CASE k >= p
          BY <4>3, <3>3, <3>5, <1>1, <1>2 DEF old, after
        <4> QED BY <4>1, <4>2, <4>3, <1>2
      <3> QED BY <3>6, <3>7
    <2>3. \A j \in Slot : IF items'[j].buffered THEN items'[j].pkt \in Packet
                         ELSE items'[j] = FreeItem
      <3>1. \A j \in Slot : IF items[j].buffered THEN items[j].pkt \in Packet
                           ELSE items[j] = FreeItem
        BY DEF BufInv, ListIntegrity, LinkIntegrity
      <3>2. ASSUME NEW j \in Slot \ {i}, ~ items[j].buffered
            PROVE  items'[j] = FreeItem
        <4>1. j # before /\ j # after
          <5>1. \A k \in 1..n : items[order[k]].buffered
            BY <1>1 DEF BufInv, ListIntegrity, PoolIntegrity
          <5>2. /\ before = Null \/ \E k \in 1..n : before = order[k]
                /\ after = Null \/ \E k \in 1..n : after = order[k]
            BY <1>1, <1>2 DEF before, after
          <5> QED BY <5>1, <5>2, <3>2 DEF Null
        <4>2. items[j] = FreeItem
          BY <3>1, <3>2
        <4>3. items'[j] = [FreeItem EXCEPT !.prev = FreeItem.prev, !.next = FreeItem.next]
          BY <4>1, <4>2, <3>2, <1>7
        <4> QED BY <4>3 DEF FreeItem
      <3>3. ASSUME NEW j \in Slot \ {i}, items[j].buffered
            PROVE  items'[j].buffered /\ items'[j].pkt \in Packet
        BY <3>1, <3>3, <1>8
      <3>4. ~ items'[i].buffered /\ items'[i] = FreeItem
        <4>1. items'[i] = FreeItem
          BY <1>7
        <4> QED BY <4>1 DEF FreeItem
      <3>5. ~ FreeItem.buffered
        BY DEF FreeItem
      <3> QED BY <3>2, <3>3, <3>4, <3>5
    <2> QED BY <2>1, <2>2, <2>3, <1>6 DEF LinkIntegrity
  <1>12. OldestFirst'
    <2>1. ASSUME NEW j \in 1..(n - 1), NEW k \in 1..(n - 1), j < k
          PROVE  items'[order'[j]].age >= items'[order'[k]].age
      <3>1. old(j) < old(k)
        BY <2>1, <1>13
      <3>2. items[order[old(j)]].age >= items[order[old(k)]].age
        BY <3>1, <1>6 DEF BufInv, ListIntegrity, OldestFirst
      <3>3. order'[j] \in Slot \ {i} /\ order'[k] \in Slot \ {i}
        BY <1>1, <1>2, <1>3, <1>6
      <3>4. /\ items'[order'[j]].age = items[order[old(j)]].age
            /\ items'[order'[k]].age = items[order[old(k)]].age
        BY <3>3, <1>6, <1>8
      <3> QED BY <3>2, <3>4
    <2> QED BY <2>1, <1>6 DEF OldestFirst
  <1> QED BY <1>9, <1>10, <1>11, <1>12 DEF BufInv, ListIntegrity

\* A second that passes ages every packet alike, so the order by age stays.
LEMMA AgePreserves ==
  ASSUME BufInv, AgePackets, fault' \in FaultSite \cup {NoFault}
  PROVE  BufInv'
  <1> USE ConstantsOK DEF Assumptions
  <1>1. order' = order /\ start' = start /\ end' = end
    BY DEF AgePackets
  <1>2. /\ items' = [i \in Slot |-> items'[i]]
        /\ \A i \in Slot :
             items'[i] = IF items[i].buffered /\ items[i].age <= PACKET_TOO_OLD
                         THEN [items[i] EXCEPT !.age = @ + 1] ELSE items[i]
    BY DEF AgePackets
  <1>3. \A i \in Slot : items[i] \in Item
    BY DEF BufInv, BufTypeOK
  <1>4. \A i \in Slot :
          /\ items'[i].buffered = items[i].buffered
          /\ items'[i].pkt = items[i].pkt
          /\ items'[i].prev = items[i].prev
          /\ items'[i].next = items[i].next
          /\ items'[i].age = IF items[i].buffered /\ items[i].age <= PACKET_TOO_OLD
                             THEN items[i].age + 1 ELSE items[i].age
    BY <1>2, <1>3 DEF Item
  <1>5. BufTypeOK'
    <2>1. \A i \in Slot : items'[i] \in Item
      BY <1>2, <1>3 DEF Item, PacketAge
    <2> QED BY <2>1, <1>1, <1>2 DEF BufInv, BufTypeOK
  <1>6. PoolIntegrity'
    BY <1>1, <1>4 DEF BufInv, ListIntegrity, PoolIntegrity
  <1>7. \A k \in 1..Len(order) : order[k] \in Slot /\ items[order[k]].buffered
    BY DEF BufInv, BufTypeOK, ListIntegrity, PoolIntegrity
  <1>8. LinkIntegrity'
    BY <1>1, <1>2, <1>4, <1>7 DEF BufInv, ListIntegrity, LinkIntegrity
  <1>9. OldestFirst'
    <2>1. \A i \in Slot : items[i].age \in 0..(PACKET_TOO_OLD + 1)
      BY <1>3 DEF Item, PacketAge
    <2>2. ASSUME NEW j \in 1..Len(order), NEW k \in 1..Len(order), j < k
          PROVE  items'[order[j]].age >= items'[order[k]].age
      <3>1. items[order[j]].age >= items[order[k]].age
        BY <2>2 DEF BufInv, ListIntegrity, OldestFirst
      <3>2. /\ items'[order[j]].age = IF items[order[j]].age <= PACKET_TOO_OLD
                  THEN items[order[j]].age + 1 ELSE items[order[j]].age
            /\ items'[order[k]].age = IF items[order[k]].age <= PACKET_TOO_OLD
                  THEN items[order[k]].age + 1 ELSE items[order[k]].age
        BY <1>4, <1>7
      <3>3. \A a, b \in 0..(PACKET_TOO_OLD + 1) :
              a >= b => (IF a <= PACKET_TOO_OLD THEN a + 1 ELSE a)
                          >= (IF b <= PACKET_TOO_OLD THEN b + 1 ELSE b)
        OBVIOUS
      <3>4. order[j] \in Slot /\ order[k] \in Slot
        BY <1>7
      <3> QED BY <3>1, <3>2, <3>3, <3>4, <2>1
    <2> QED BY <2>2, <1>1 DEF OldestFirst
  <1> QED BY <1>5, <1>6, <1>8, <1>9 DEF BufInv, ListIntegrity

\* sr_buffer_add, in its three cases.
LEMMA AddPreserves ==
  ASSUME BufInv, NEW h, h.buffered \/ h.pkt \in Packet, sr_buffer_add(h)
  PROVE  BufInv'
  <1>1. fault' \in FaultSite \cup {NoFault}
    BY DEF sr_buffer_add, Proceed, StopIn, FaultSite
  <1>2. CASE UNCHANGED bufVars
    BY <1>1, <1>2 DEF bufVars, BufInv, BufTypeOK, ListIntegrity, PoolIntegrity,
                      LinkIntegrity, OldestFirst
  <1>3. CASE ~ h.buffered /\ FreeSlots # {} /\ Append_item(sr_buffer_malloc, h.pkt)
    BY <1>1, <1>3, MallocFree, AppendPreserves
  <1> QED BY <1>2, <1>3 DEF sr_buffer_add

\* A step of the buffer preserves its invariant.
LEMMA BufStep ==
  ASSUME BufInv, [BufNext]_bufSpecVars
  PROVE  BufInv'
  <1>1. ASSUME NEW p \in Packet, Arrive(p) PROVE BufInv'
    BY <1>1, AddPreserves DEF Arrive, Fresh
  <1>2. ASSUME NEW i \in Slot, AddAgain(i) PROVE BufInv'
    BY <1>2, AddPreserves DEF AddAgain
  <1>3. ASSUME NEW i \in Slot, Remove(i) PROVE BufInv'
    BY <1>3, RemovePreserves DEF Remove, Proceed
  <1>4. CASE BufTick
    BY <1>4, AgePreserves DEF BufTick, Proceed
  <1>5. CASE UNCHANGED bufSpecVars
    BY <1>5 DEF bufSpecVars, BufInv, BufTypeOK, ListIntegrity, PoolIntegrity,
                LinkIntegrity, OldestFirst
  <1> QED BY <1>1, <1>2, <1>3, <1>4, <1>5 DEF BufNext

\* The buffer's types hold in every state of every instance.
THEOREM BufTypeCorrect == BufSpec => []BufTypeOK
  <1>1. BufInit => BufInv
    BY ClearEstablishes DEF BufInit
  <1>2. BufInv /\ [BufNext]_bufSpecVars => BufInv'
    BY BufStep
  <1>3. BufInv => BufTypeOK
    BY DEF BufInv
  <1> QED BY <1>1, <1>2, <1>3, PTL DEF BufSpec

\* The pool, the list and the ages agree in every state of every instance:
\* no slot is lost, none is used twice, the links run through the packets in
\* arrival order (sr_buffer.c:71-149).
THEOREM ListCorrect == BufSpec => []ListIntegrity
  <1>1. BufInit => BufInv
    BY ClearEstablishes DEF BufInit
  <1>2. BufInv /\ [BufNext]_bufSpecVars => BufInv'
    BY BufStep
  <1>3. BufInv => ListIntegrity
    BY DEF BufInv
  <1> QED BY <1>1, <1>2, <1>3, PTL DEF BufSpec
=============================================================================
