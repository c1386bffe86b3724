---------------------------- MODULE PacketQueue ----------------------------
(***************************************************************************)
(* What the packet buffer promises its caller, with no pool, links or      *)
(* slots: a queue of at most CAPACITY packets in arrival order, each with  *)
(* its age, from which any packet can be taken.  A packet that arrives at  *)
(* a full queue stops the router.                                          *)
(***************************************************************************)
EXTENDS Naturals, Sequences

CONSTANTS Packet, CAPACITY, MAX_AGE

VARIABLES queue,    \* the packets with their ages, oldest first
          stopped   \* the router has stopped

Entry == [pkt : Packet, age : 0..MAX_AGE]

Init == queue = <<>> /\ stopped = FALSE

Enqueue(p) ==
    /\ Len(queue) < CAPACITY
    /\ queue' = Append(queue, [pkt |-> p, age |-> 0])
    /\ stopped' = FALSE

Overflow ==
    /\ Len(queue) = CAPACITY
    /\ stopped' = TRUE
    /\ UNCHANGED queue

Take(k) ==
    /\ queue' = [j \in 1..(Len(queue) - 1) |->
                   IF j < k THEN queue[j] ELSE queue[j + 1]]
    /\ stopped' = FALSE

Tick ==
    /\ queue' = [k \in 1..Len(queue) |->
                   IF queue[k].age < MAX_AGE
                   THEN [queue[k] EXCEPT !.age = @ + 1] ELSE queue[k]]
    /\ stopped' = FALSE

Next ==
    /\ ~ stopped
    /\ \/ \E p \in Packet : Enqueue(p)
       \/ Overflow
       \/ \E k \in 1..Len(queue) : Take(k)
       \/ Tick

Spec == Init /\ [][Next]_<<queue, stopped>>
=============================================================================
