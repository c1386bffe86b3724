------------------------------ MODULE ArpCache ------------------------------
(***************************************************************************)
(* The ARP cache (sr_arp.c, sr_arp.h): an open-addressed table of LAN_SIZE *)
(* slots hashed by the low bits of the address and probed linearly.  An    *)
(* entry that was asked for but never answered (a "dummy") has neither a   *)
(* MAC nor an interface and a creation time of zero.                       *)
(*                                                                         *)
(* Times are kept as ages, time(NULL) - created and                        *)
(* time(NULL) - arp_lastrefresh, saturated where the code no longer tells  *)
(* two values apart; the age of an entry created at time zero is saturated *)
(* from the start.                                                         *)
(***************************************************************************)
EXTENDS Process, Integers, FiniteSets

CONSTANTS LAN_SIZE,         \* slots of the table
          ARP_TTL,          \* seconds an answer stays good
          ARP_CHECK_EVERY,  \* seconds between two sweeps of the table
          ARP_MAX_TRIES,    \* unanswered tries that make a link dead
          TRIES_MOD,        \* 2^8: "tries" is a uint8_t
          Address,          \* IP addresses, as positive numbers
          Mac, Iface,       \* hardware addresses, registered interfaces
          NoMac, NoIface    \* zeroed MAC, null interface pointer

ASSUME LanSizeAssumption == LAN_SIZE \in Nat \ {0}
ASSUME AddressAssumption ==
    Address \subseteq Nat \ {0} /\ IsFiniteSet(Address)
ASSUME ArpTimesAssumption == ARP_TTL \in Nat /\ ARP_CHECK_EVERY \in Nat
ASSUME TriesAssumption ==
    /\ TRIES_MOD \in Nat \ {0}
    /\ ARP_MAX_TRIES \in 1..(TRIES_MOD - 1)
ASSUME NullAssumption == NoMac \notin Mac /\ NoIface \notin Iface

VARIABLES arp_table,    \* the slots
          sinceCheck,   \* age of arp_lastrefresh
          asked         \* addresses the last step broadcast a request for

arpVars == <<arp_table, sinceCheck, asked>>

NoIp == 0
Index == 0..(LAN_SIZE - 1)
Tries == 0..(TRIES_MOD - 1)
EntryAge == 0..(ARP_TTL + 1)

Entry == [ip : Address \cup {NoIp}, mac : Mac \cup {NoMac},
          iface : Iface \cup {NoIface}, tries : Tries, age : EntryAge]

EmptyEntry == [ip |-> NoIp, mac |-> NoMac, iface |-> NoIface,
               tries |-> 0, age |-> ARP_TTL + 1]

\* Mutant: the counter is wider than a uint8_t.
BumpWide(tries) == tries + 1

\* Mutant: a try is not counted.
BumpNone(tries) == tries

\* uint8_t arithmetic
Bump(tries) == IF tries = TRIES_MOD - 1 THEN 0 ELSE tries + 1

-----------------------------------------------------------------------------
\* The table is zeroed when the instance is initialised.
ArpClear ==
    /\ arp_table = [s \in Index |-> EmptyEntry]
    /\ sinceCheck = 0
    /\ asked = {}

\* The hash of an address and the k-th slot examined from there.
Hash(ip) == ip % LAN_SIZE

\* Mutant: a collision is not probed past.
ProbeStays(h, k) == h

Probe(h, k) == IF h + k < LAN_SIZE THEN h + k ELSE h + k - LAN_SIZE

\* Mutant: the search takes only an empty slot.
StopsAtEmpty(ip, s) == arp_table[s].ip = NoIp

\* The search stops at the address's own slot or at an empty one.
Stops(ip, s) == arp_table[s].ip \in {ip, NoIp}

NULL == -1      \* no slot: the table is full of other addresses
SPIN == -2      \* never returns

\* A full table without the address is searched once round and gives NULL,
\* unless the hash is 0: the loop variable, reset to 0 inside the body and
\* incremented before the test, then never equals the starting index.
sr_arp_get(ip) ==
    LET h == Hash(ip)
    IN  IF \E k \in Index : Stops(ip, Probe(h, k))
        THEN Probe(h, CHOOSE k \in Index :
                         /\ Stops(ip, Probe(h, k))
                         /\ \A j \in 0..(k - 1) : ~ Stops(ip, Probe(h, j)))
        ELSE IF h = 0 THEN SPIN ELSE NULL

\* Mutant: the time of the answer is not stored.
AnsweredEntryStale(ip, mac, iface) ==
    [ip |-> ip, mac |-> mac, iface |-> iface, tries |-> 0, age |-> ARP_TTL + 1]

AnsweredEntry(ip, mac, iface) ==
    [ip |-> ip, mac |-> mac, iface |-> iface, tries |-> 0, age |-> 0]

\* An answer overwrites the slot of its address, or takes an empty one.
sr_arp_set(ip, mac, iface) ==
    LET s == sr_arp_get(ip)
    IN  /\ asked' = {}
        /\ UNCHANGED sinceCheck
        /\ \/ /\ s \in Index
              /\ Proceed
              /\ arp_table' = [arp_table EXCEPT ![s] = AnsweredEntry(ip, mac, iface)]
           \/ /\ s = NULL
              /\ StopIn("sr_arp_set")
              /\ UNCHANGED arp_table
           \/ /\ s = SPIN
              /\ StopIn("sr_arp_get")
              /\ UNCHANGED arp_table

\* Broadcast a request on an interface; an address asked for the first time
\* gets a dummy entry.  The request is copied from the slot before the slot
\* is tested, so NULL stops the router here.
sr_arp_refresh(ip, iface) ==
    LET s == sr_arp_get(ip)
    IN  /\ UNCHANGED sinceCheck
        /\ \/ /\ iface \notin Iface
              /\ Proceed
              /\ asked' = {}
              /\ UNCHANGED arp_table
           \/ /\ iface \in Iface /\ s \in Index
              /\ Proceed
              /\ asked' = {ip}
              /\ arp_table' =
                   IF arp_table[s].ip = NoIp
                   THEN [arp_table EXCEPT ![s].ip = ip,
                                          ![s].tries = Bump(@)]
                   ELSE arp_table
           \/ /\ iface \in Iface /\ s = NULL
              /\ StopIn("sr_arp_refresh")
              /\ asked' = {}
              /\ UNCHANGED arp_table
           \/ /\ iface \in Iface /\ s = SPIN
              /\ StopIn("sr_arp_get")
              /\ asked' = {}
              /\ UNCHANGED arp_table

\* Mutant: an entry is tried again in the last second of its TTL.
AgedAtTtl(s) == arp_table[s].ip # NoIp /\ arp_table[s].age >= ARP_TTL

\* Mutant: the sweep does not look at the interface.
NamelessNever(s) == FALSE

\* Slots the sweep acts on, and those whose interface it cannot name.
Aged(s) == arp_table[s].ip # NoIp /\ arp_table[s].age > ARP_TTL

Nameless(s) == arp_table[s].iface = NoIface

\* The sweep of the whole table, at most once every ARP_CHECK_EVERY seconds:
\* each aged entry is tried again on the interface its last answer came from.
\* A dummy has no interface, and the sweep reads its name.  (The refresh of
\* an address already in the table adds no entry: LookupIntegrity.)
sr_arp_check_refresh ==
    LET aged == {s \in Index : Aged(s)}
    IN  \/ /\ sinceCheck < ARP_CHECK_EVERY
           /\ Proceed
           /\ asked' = {}
           /\ UNCHANGED <<arp_table, sinceCheck>>
        \/ /\ sinceCheck >= ARP_CHECK_EVERY
           /\ \A s \in aged : ~ Nameless(s)
           /\ Proceed
           /\ arp_table' = [s \in Index |->
                 IF Aged(s) THEN [arp_table[s] EXCEPT !.tries = Bump(@)]
                 ELSE arp_table[s]]
           /\ asked' = {arp_table[s].ip : s \in aged}
           /\ sinceCheck' = 0
        \/ /\ sinceCheck >= ARP_CHECK_EVERY
           /\ \E s \in aged : Nameless(s)
           /\ StopIn("sr_arp_check_refresh")
           /\ asked' = {}
           /\ UNCHANGED <<arp_table, sinceCheck>>

\* One second passes.
AgeEntries ==
    /\ arp_table' = [s \in Index |->
          IF arp_table[s].age <= ARP_TTL
          THEN [arp_table[s] EXCEPT !.age = @ + 1] ELSE arp_table[s]]
    /\ sinceCheck' = IF sinceCheck < ARP_CHECK_EVERY THEN sinceCheck + 1
                     ELSE sinceCheck
    /\ asked' = {}

\* How sr_router_send reads the entry of a gateway.
Dead(s) == arp_table[s].tries >= ARP_MAX_TRIES

-----------------------------------------------------------------------------
(***************************************************************************)
(* The cache on its own: answers and requests for any address in any       *)
(* order, sweeps, and time.                                                *)
(***************************************************************************)
ArpInit == ArpClear /\ fault = NoFault

Answer(ip, mac, iface) == Running /\ sr_arp_set(ip, mac, iface)

Request(ip, iface) == Running /\ sr_arp_refresh(ip, iface)

Sweep == Running /\ sr_arp_check_refresh

ArpTick == Running /\ Proceed /\ AgeEntries

ArpNext ==
    \/ \E ip \in Address, mac \in Mac, iface \in Iface : Answer(ip, mac, iface)
    \/ \E ip \in Address, iface \in Iface \cup {NoIface} : Request(ip, iface)
    \/ Sweep
    \/ ArpTick

arpSpecVars == <<arp_table, sinceCheck, asked, fault>>

ArpSpec == ArpInit /\ [][ArpNext]_arpSpecVars

\* Time passes.  Nothing is owed but that: the main loop sweeps only after a
\* message, and no message is owed by the network.
ArpFairness == WF_arpSpecVars(ArpTick)

ArpFairSpec == ArpSpec /\ ArpFairness

-----------------------------------------------------------------------------
\* Every variable keeps its type.
ArpTypeOK ==
    /\ arp_table \in [Index -> Entry]
    /\ sinceCheck \in 0..ARP_CHECK_EVERY
    /\ asked \subseteq Address
    /\ fault \in FaultSite \cup {NoFault}

\* No address has two entries.
UniqueEntry ==
    \A s, t \in Index :
        arp_table[s].ip # NoIp /\ arp_table[s].ip = arp_table[t].ip => s = t

\* An entry stands where its own search stops first: the slots examined
\* before it are taken by other addresses.
Reachable ==
    \A k \in Index, s \in Index :
        /\ arp_table[s].ip # NoIp
        /\ s = Probe(Hash(arp_table[s].ip), k)
        => \A j \in 0..(k - 1) :
              ~ Stops(arp_table[s].ip, Probe(Hash(arp_table[s].ip), j))

\* Linear probing never loses or doubles an entry (sr_arp.c:110-129), however
\* the addresses collide: the inductive invariant of the table.
LookupIntegrity == UniqueEntry /\ Reachable

\* With a slot for every address, the search never fails and never hangs,
\* wherever it starts and however the entries are displaced (sr_arp.c:110-129).
RoomMeansFound ==
    Cardinality(Address) <= LAN_SIZE =>
        fault \notin {"sr_arp_get", "sr_arp_set", "sr_arp_refresh"}

\* A slot is empty, or a dummy that was asked for and never answered, or it
\* holds an answer with its MAC and interface.  So an entry whose tries are 0
\* has the MAC and the interface sr_router_send takes from it (sr_router.c:220,
\* 225), and a dummy never collects the tries that would make its link dead.
Dummy(e) ==
    e.ip # NoIp /\ e.mac = NoMac /\ e.iface = NoIface /\ e.tries = 1

Answered(e) == e.ip # NoIp /\ e.mac \in Mac /\ e.iface \in Iface

EntryKinds ==
    \A s \in Index :
        arp_table[s] = EmptyEntry \/ Dummy(arp_table[s]) \/ Answered(arp_table[s])

\* What a link is taken for changes in three ways only: an answer revives it, or a
\* request sent for it, past its TTL, is the last try that is allowed or makes the
\* 8-bit counter wrap (sr_arp.c:42-61, 85-90).  Time and the answers of other addresses,
\* however they collide, never change it.
StandingChanges ==
    [][\A s \in Index : Dead(s) # Dead(s)' =>
          \/ ~ Dead(s)' /\ arp_table'[s].age = 0
          \/ /\ arp_table'[s].ip \in asked' /\ arp_table[s].age > ARP_TTL
             /\ arp_table[s].tries = IF Dead(s)' THEN ARP_MAX_TRIES - 1 ELSE TRIES_MOD - 1
      ]_arpSpecVars

\* A link whose answers stop is noticed as long as time passes and the
\* cache goes on being swept (sr_arp.c:42-61): an entry past its TTL is answered again or its tries
\* climb to the limit, whatever else is asked, answered or full, or the router
\* stops on the way.
SilenceIsNoticed ==
    []<>(sinceCheck = 0) /\ []<>(sinceCheck # 0) =>
        \A s \in Index :
            (arp_table[s].ip # NoIp /\ arp_table[s].age > ARP_TTL)
                ~> (Dead(s) \/ arp_table[s].age = 0 \/ ~ Running)

\* sr_arp.h:31, "maximum number of tries to make before treating link as
\* dead": a link treated as dead is treated as alive only after an answer.
DeadUntilAnswered ==
    [][\A s \in Index :
          Dead(s) /\ ~ Dead(s)' => arp_table'[s].age = 0]_arpSpecVars

-----------------------------------------------------------------------------
\* What the cache promises, read through its own search.
CONSTANT Absent

ASSUME AbsentAssumption ==
    Absent \notin [mac : Mac \cup {NoMac}, iface : Iface \cup {NoIface},
                   tries : Tries, age : EntryAge]

Map == INSTANCE ArpMap WITH
         CAPACITY <- LAN_SIZE,
         TTL <- ARP_TTL,
         CHECK_EVERY <- ARP_CHECK_EVERY,
         cache <- [a \in Address |->
                     LET s == sr_arp_get(a)
                     IN  IF s \in Index /\ arp_table[s].ip = a
                         THEN [mac |-> arp_table[s].mac,
                               iface |-> arp_table[s].iface,
                               tries |-> arp_table[s].tries,
                               age |-> arp_table[s].age]
                         ELSE Absent],
         stopped <- fault # NoFault

\* The table implements the map.
ImplementsMap == Map!Spec
=============================================================================
