------------------------------- MODULE ArpMap -------------------------------
(***************************************************************************)
(* What the ARP cache promises, with no table, hash or probing: a map from *)
(* addresses to entries that holds at most CAPACITY addresses and never    *)
(* forgets one.  An address that finds no room, and a sweep that meets an  *)
(* unanswered address, stop the router.                                    *)
(***************************************************************************)
EXTENDS Naturals, FiniteSets

CONSTANTS Address, Mac, Iface, NoMac, NoIface, Absent,
          CAPACITY, TTL, CHECK_EVERY, TRIES_MOD

VARIABLES cache,        \* the entry of each address, or Absent
          sinceCheck,   \* seconds since the last sweep
          asked,        \* addresses the last step sent a request for
          stopped       \* the router has stopped

vars == <<cache, sinceCheck, asked, stopped>>

Present == {a \in Address : cache[a] # Absent}

Room(a) == cache[a] # Absent \/ Cardinality(Present) < CAPACITY

Unanswered == [mac |-> NoMac, iface |-> NoIface, tries |-> 1, age |-> TTL + 1]

Init ==
    /\ cache = [a \in Address |-> Absent]
    /\ sinceCheck = 0
    /\ asked = {}
    /\ stopped = FALSE

Learn(a, m, i) ==
    /\ asked' = {}
    /\ UNCHANGED <<sinceCheck, stopped>>
    /\ Room(a)
    /\ cache' = [cache EXCEPT ![a] =
                   [mac |-> m, iface |-> i, tries |-> 0, age |-> 0]]

Ask(a) ==
    /\ asked' = {a}
    /\ UNCHANGED <<sinceCheck, stopped>>
    /\ Room(a)
    /\ cache' = IF cache[a] # Absent THEN cache
                ELSE [cache EXCEPT ![a] = Unanswered]

NoRoom ==
    /\ asked' = {}
    /\ stopped' = TRUE
    /\ \E a \in Address : ~ Room(a)
    /\ UNCHANGED <<cache, sinceCheck>>

Expired(a) == cache[a] # Absent /\ cache[a].age > TTL

Sweep ==
    /\ sinceCheck = CHECK_EVERY
    /\ sinceCheck' = 0
    /\ UNCHANGED stopped
    /\ asked' = {a \in Address : Expired(a)}
    /\ \A a \in asked' : cache[a].iface # NoIface
    /\ cache' = [a \in Address |->
          IF a \in asked'
          THEN [cache[a] EXCEPT !.tries = (@ + 1) % TRIES_MOD] ELSE cache[a]]

SweepStops ==
    /\ sinceCheck = CHECK_EVERY
    /\ asked' = {}
    /\ stopped' = TRUE
    /\ \E a \in Address : Expired(a) /\ cache[a].iface = NoIface
    /\ UNCHANGED <<cache, sinceCheck>>

\* Nothing is due, or the request has no interface to go out on.
Quiet == asked' = {} /\ UNCHANGED <<cache, sinceCheck, stopped>>

Tick ==
    /\ asked' = {}
    /\ sinceCheck' = IF sinceCheck < CHECK_EVERY THEN sinceCheck + 1
                     ELSE sinceCheck
    /\ UNCHANGED stopped
    /\ cache' = [a \in Address |->
          IF cache[a] # Absent /\ cache[a].age <= TTL
          THEN [cache[a] EXCEPT !.age = @ + 1] ELSE cache[a]]

Next ==
    /\ ~ stopped
    /\ \/ Quiet
       \/ Sweep
       \/ \E a \in Address : Ask(a)
       \/ Tick
       \/ \E a \in Address, m \in Mac, i \in Iface : Learn(a, m, i)
       \/ NoRoom
       \/ SweepStops

Spec == Init /\ [][Next]_vars
=============================================================================
