---------------------------- MODULE PacketBuffer ----------------------------
(***************************************************************************)
(* The router's packet buffer (sr_buffer.c, sr_buffer.h): a fixed pool of  *)
(* BUFFSIZE items whose used slots are threaded on one doubly linked list  *)
(* in the order the packets arrived.  Slots are 1..BUFFSIZE and the null   *)
(* pointer is 0.  An item's "created" time is kept as the age that         *)
(* time(NULL) - created would give, saturated one above PACKET_TOO_OLD,    *)
(* the only value the code compares it with.                               *)
(*                                                                         *)
(* A handle (struct sr_ip_handle) is a record with the fields buffered and *)
(* pkt; an item is a handle with an age and the two links.  "pos" is the   *)
(* slot itself while the item is buffered and -1 otherwise, so it has no   *)
(* field here.                                                             *)
(***************************************************************************)
EXTENDS Process, Integers, Sequences

CONSTANTS BUFFSIZE,         \* size of the pool
          PACKET_TOO_OLD,   \* seconds a buffered packet is worth sending
          Packet,           \* the packets
          NoPacket          \* the zeroed contents of a free slot

ASSUME BuffsizeAssumption == BUFFSIZE \in Nat \ {0}
ASSUME TooOldAssumption == PACKET_TOO_OLD \in Nat
ASSUME NoPacketAssumption == NoPacket \notin Packet

VARIABLES items,    \* the pool, items[i] for each slot
          start,    \* first slot of the list, or Null
          end,      \* last slot of the list, or Null
          order     \* auxiliary: the used slots, oldest first

bufVars == <<items, start, end, order>>

Null == 0
Slot == 1..BUFFSIZE
Pointer == 0..BUFFSIZE
PacketAge == 0..(PACKET_TOO_OLD + 1)

Item == [buffered : BOOLEAN, pkt : Packet \cup {NoPacket}, age : PacketAge,
         prev : Pointer, next : Pointer]

FreeItem == [buffered |-> FALSE, pkt |-> NoPacket, age |-> 0,
             prev |-> Null, next |-> Null]

\* A handle for a packet that was just received.
Fresh(p) == [buffered |-> FALSE, pkt |-> p]

\* Mutant: the search of the pool stops one slot short.
FreeSlotsShort == {i \in 1..(BUFFSIZE - 1) : ~ items[i].buffered}

FreeSlots == {i \in Slot : ~ items[i].buffered}

-----------------------------------------------------------------------------

\* The pool is cleared when the instance is initialised.
sr_buffer_clear ==
    /\ items = [i \in Slot |-> FreeItem]
    /\ start = Null
    /\ end = Null
    /\ order = <<>>

\* Mutant: slots are handed out from the end of the pool, one too far.
MallocPastEnd == BUFFSIZE + 1 - Len(order)

\* Mutant: the flag of a slot in use is not tested.
MallocInUse == CHOOSE i \in Slot : \A j \in Slot : i <= j

\* The first free slot of the pool; asked for only while there is one.
sr_buffer_malloc ==
    CHOOSE i \in FreeSlots : \A j \in FreeSlots : i <= j

\* Link slot i at the end of the list, holding packet p.
Append_item(i, p) ==
    /\ items' =
         [j \in Slot |->
            IF j = i THEN [buffered |-> TRUE, pkt |-> p, age |-> 0,
                           prev |-> IF start = Null THEN Null ELSE end,
                           next |-> Null]
            ELSE IF start # Null /\ j = end THEN [items[j] EXCEPT !.next = i]
            ELSE items[j]]
    /\ start' = IF start = Null THEN i ELSE start
    /\ end' = i
    /\ order' = Append(order, i)

\* A handle already in the buffer is left alone.  With the pool full, malloc
\* returns NULL and sr_buffer_add reads i->h.raw before it tests i.
sr_buffer_add(h) ==
    \/ /\ h.buffered
       /\ Proceed
       /\ UNCHANGED bufVars
    \/ /\ ~ h.buffered
       /\ FreeSlots # {}
       /\ Proceed
       /\ Append_item(sr_buffer_malloc, h.pkt)
    \/ /\ ~ h.buffered
       /\ FreeSlots = {}
       /\ StopIn("sr_buffer_add")
       /\ UNCHANGED bufVars

\* Where slot i stands in the list, and a sequence without its k-th element.
Position(i) == CHOOSE k \in 1..Len(order) : order[k] = i

Without(s, k) == [j \in 1..(Len(s) - 1) |-> IF j < k THEN s[j] ELSE s[j + 1]]

\* The list after the item in slot i is unlinked and its slot freed.  (The
\* code leaves "created" in a free slot; nothing reads it before it is set.)
sr_buffer_remove(i) ==
    LET prev == items[i].prev
        next == items[i].next
        only == prev = Null /\ next = Null
    IN  /\ items' =
             [j \in Slot |->
                IF j = i THEN FreeItem
                ELSE [items[j] EXCEPT
                        !.prev = IF j = next THEN prev ELSE @,
                        !.next = IF j = prev THEN next ELSE @]]
        /\ start' = IF only THEN Null ELSE IF start = i THEN next ELSE start
        /\ end' = IF only THEN Null ELSE IF end = i THEN prev ELSE end
        /\ order' = Without(order, Position(i))

\* One second passes for every packet in the buffer.
AgePackets ==
    /\ items' = [i \in Slot |->
                   IF items[i].buffered /\ items[i].age <= PACKET_TOO_OLD
                   THEN [items[i] EXCEPT !.age = @ + 1]
                   ELSE items[i]]
    /\ UNCHANGED <<start, end, order>>

\* Mutant: the age of a buffered packet is not tested.
NeverTooOld(i) == FALSE

\* The test of the resend loop.
TooOld(i) == items[i].age > PACKET_TOO_OLD

-----------------------------------------------------------------------------
(***************************************************************************)
(* The buffer on its own: packets arrive, the resend loop offers buffered  *)
(* ones to sr_buffer_add again or removes them in any order, time passes.  *)
(***************************************************************************)
BufInit == sr_buffer_clear /\ fault = NoFault

Arrive(p) == Running /\ sr_buffer_add(Fresh(p))

AddAgain(i) == Running /\ items[i].buffered /\ sr_buffer_add(items[i])

Remove(i) == Running /\ items[i].buffered /\ Proceed /\ sr_buffer_remove(i)

BufTick == Running /\ Proceed /\ AgePackets

BufNext ==
    \/ \E p \in Packet : Arrive(p)
    \/ \E i \in Slot : AddAgain(i) \/ Remove(i)
    \/ BufTick

bufSpecVars == <<items, start, end, order, fault>>

BufSpec == BufInit /\ [][BufNext]_bufSpecVars

-----------------------------------------------------------------------------

\* Every variable keeps its type.
BufTypeOK ==
    /\ items \in [Slot -> Item]
    /\ start \in Pointer
    /\ end \in Pointer
    /\ order \in Seq(Slot)
    /\ fault \in FaultSite \cup {NoFault}

\* The slots in use are the ones on the list, each once: no slot is lost to
\* the pool and none is handed out twice.
PoolIntegrity ==
    /\ \A j, k \in 1..Len(order) : order[j] = order[k] => j = k
    /\ \A i \in Slot : items[i].buffered <=> \E k \in 1..Len(order) : order[k] = i

\* Walking the links from either end visits the used slots in the order the
\* packets arrived, and a free slot holds nothing.
LinkIntegrity ==
    LET n == Len(order)
    IN  /\ start = IF n = 0 THEN Null ELSE order[1]
        /\ end = IF n = 0 THEN Null ELSE order[n]
        /\ \A k \in 1..n :
             /\ items[order[k]].prev = IF k = 1 THEN Null ELSE order[k - 1]
             /\ items[order[k]].next = IF k = n THEN Null ELSE order[k + 1]
        /\ \A i \in Slot : IF items[i].buffered THEN items[i].pkt \in Packet
                          ELSE items[i] = FreeItem

\* A packet never stands behind a younger one: the list is in arrival order
\* by the items' own clocks, whatever was removed from its middle.
OldestFirst ==
    \A j, k \in 1..Len(order) :
        j < k => items[order[j]].age >= items[order[k]].age

\* The list, the pool and the ages are consistent (sr_buffer.c:71-149): the
\* inductive invariant of the buffer.
ListIntegrity == PoolIntegrity /\ LinkIntegrity /\ OldestFirst

-----------------------------------------------------------------------------
\* What the buffer promises: a bounded queue of packets with their ages.
Queue == INSTANCE PacketQueue WITH
           CAPACITY <- BUFFSIZE,
           MAX_AGE <- PACKET_TOO_OLD + 1,
           queue <- [k \in 1..Len(order) |->
                       [pkt |-> items[order[k]].pkt, age |-> items[order[k]].age]],
           stopped <- fault # NoFault

\* The buffer implements the queue.
ImplementsQueue == Queue!Spec
=============================================================================
