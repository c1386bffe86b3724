--------------------------- MODULE ArpCacheProofs ---------------------------
(***************************************************************************)
(* Proofs about the ARP cache, for every table size, set of addresses and  *)
(* limits.  The argument is about the search: it stops at the first slot   *)
(* on its path that is empty or holds the address, so writing the address  *)
(* there keeps every entry where its own search finds it.                  *)
(***************************************************************************)
EXTENDS ArpCache, LeastNatural, FiniteSetTheorems, TLAPS

\* What is assumed of the constants.
LEMMA ArpConstants ==
  /\ LAN_SIZE \in Nat \ {0}
  /\ Address \subseteq Nat \ {0} /\ IsFiniteSet(Address)
  /\ ARP_TTL \in Nat /\ ARP_CHECK_EVERY \in Nat
  /\ TRIES_MOD \in Nat \ {0} /\ TRIES_MOD > 1
  /\ NoMac \notin Mac /\ NoIface \notin Iface
  BY LanSizeAssumption, AddressAssumption, ArpTimesAssumption, TriesAssumption,
     NullAssumption

-----------------------------------------------------------------------------
(* The search path of an address visits every slot once.                    *)

\* The search begins at a slot,
LEMMA HashInIndex ==
  ASSUME NEW ip \in Address
  PROVE  Hash(ip) \in Index
  <1>1. ip \in Nat /\ LAN_SIZE \in Nat /\ LAN_SIZE > 0
    BY ArpConstants
  <1>2. ip % LAN_SIZE \in 0..(LAN_SIZE - 1)
    BY <1>1
  <1> QED BY <1>2 DEF Hash, Index

\* goes from slot to slot,
LEMMA ProbeInIndex ==
  ASSUME NEW h \in Index, NEW k \in Index
  PROVE  Probe(h, k) \in Index
  BY ArpConstants DEF Probe, Index

\* comes to none twice
LEMMA ProbeInjective ==
  ASSUME NEW h \in Index, NEW j \in Index, NEW k \in Index,
         Probe(h, j) = Probe(h, k)
  PROVE  j = k
  BY ArpConstants DEF Probe, Index

\* and leaves none out.
LEMMA ProbeOnto ==
  ASSUME NEW h \in Index, NEW s \in Index
  PROVE  \E k \in Index : Probe(h, k) = s
  <1>1. CASE s >= h
    <2>1. s - h \in Index /\ Probe(h, s - h) = s
      BY <1>1, ArpConstants DEF Probe, Index
    <2> QED BY <2>1
  <1>2. CASE s < h
    <2>1. s - h + LAN_SIZE \in Index /\ Probe(h, s - h + LAN_SIZE) = s
      BY <1>2, ArpConstants DEF Probe, Index
    <2> QED BY <2>1
  <1> QED BY <1>1, <1>2, ArpConstants DEF Index

\* What sr_arp_get returns.
LEMMA GetResult ==
  ASSUME NEW ip \in Address
  PROVE  \/ \E k \in Index :
              /\ sr_arp_get(ip) = Probe(Hash(ip), k)
              /\ Stops(ip, Probe(Hash(ip), k))
              /\ \A j \in 0..(k - 1) : ~ Stops(ip, Probe(Hash(ip), j))
         \/ /\ sr_arp_get(ip) \in {NULL, SPIN}
            /\ \A s \in Index : ~ Stops(ip, s)
  <1> DEFINE h == Hash(ip)
             hits == {k \in Index : Stops(ip, Probe(h, k))}
  <1>1. CASE hits # {}
    <2>1. hits \subseteq Nat
      BY DEF Index
    <2>2. PICK k \in hits : \A j \in hits : k <= j
      BY <1>1, <2>1, LeastExists
    <2>3. \A j \in 0..(k - 1) : j \in Index /\ ~ (k <= j)
      BY <2>2, ArpConstants DEF Index
    <2>4. k \in Index /\ Stops(ip, Probe(h, k))
          /\ \A j \in 0..(k - 1) : ~ Stops(ip, Probe(h, j))
      BY <2>2, <2>3
    <2> DEFINE First(i) == /\ Stops(ip, Probe(h, i))
                           /\ \A j \in 0..(i - 1) : ~ Stops(ip, Probe(h, j))
               c == CHOOSE i \in Index : First(i)
    <2>5. c \in Index /\ First(c)
      BY <2>4
    <2>6. sr_arp_get(ip) = Probe(h, c)
      BY <2>4 DEF sr_arp_get
    <2> QED BY <2>5, <2>6
  <1>2. CASE hits = {}
    <2>1. \A k \in Index : ~ Stops(ip, Probe(h, k))
      BY <1>2
    <2>2. \A s \in Index : ~ Stops(ip, s)
      BY <2>1, HashInIndex, ProbeOnto
    <2>3. sr_arp_get(ip) \in {NULL, SPIN}
      BY <2>1 DEF sr_arp_get
    <2> QED BY <2>2, <2>3
  <1> QED BY <1>1, <1>2

\* A result is an index of the table or one of the two failures, which differ.
LEMMA GetIndex ==
  ASSUME NEW ip \in Address, sr_arp_get(ip) \in Index
  PROVE  \E k \in Index :
              /\ sr_arp_get(ip) = Probe(Hash(ip), k)
              /\ Stops(ip, Probe(Hash(ip), k))
              /\ \A j \in 0..(k - 1) : ~ Stops(ip, Probe(Hash(ip), j))
  <1>1. NULL \notin Index /\ SPIN \notin Index
    BY DEF NULL, SPIN, Index
  <1> QED BY <1>1, GetResult

-----------------------------------------------------------------------------
(* The table stays searchable.                                              *)

\* Every slot that holds an address is the one its search stops at.
LEMMA Holder ==
  ASSUME ArpTypeOK, LookupIntegrity,
         NEW ip \in Address, NEW k \in Index,
         Stops(ip, Probe(Hash(ip), k)),
         \A j \in 0..(k - 1) : ~ Stops(ip, Probe(Hash(ip), j)),
         NEW t \in Index, arp_table[t].ip = ip
  PROVE  t = Probe(Hash(ip), k)
  <1>1. PICK m \in Index : Probe(Hash(ip), m) = t
    BY HashInIndex, ProbeOnto
  <1>2. ip # NoIp /\ Stops(ip, t)
    BY ArpConstants DEF NoIp, Stops
  <1>3. \A j \in 0..(m - 1) : ~ Stops(ip, Probe(Hash(ip), j))
    BY <1>1, <1>2 DEF LookupIntegrity, Reachable
  <1>4. ~ (m \in 0..(k - 1)) /\ ~ (k \in 0..(m - 1))
    BY <1>1, <1>2, <1>3
  <1>5. m = k
    BY <1>4, ArpConstants DEF Index
  <1> QED BY <1>1, <1>5

\* Writing an address into the slot its search stops at keeps every entry
\* where its own search finds it.
LEMMA WritePreserves ==
  ASSUME ArpTypeOK, LookupIntegrity,
         NEW ip \in Address, NEW s \in Index, s = sr_arp_get(ip),
         arp_table'[s].ip = ip,
         \A t \in Index \ {s} : arp_table'[t].ip = arp_table[t].ip
  PROVE  LookupIntegrity'
  <1>1. PICK k \in Index :
          /\ s = Probe(Hash(ip), k)
          /\ Stops(ip, s)
          /\ \A j \in 0..(k - 1) : ~ Stops(ip, Probe(Hash(ip), j))
    BY GetIndex
  <1>2. \A t \in Index : arp_table[t].ip = ip => t = s
    BY <1>1, Holder
  <1>3. ip # NoIp
    BY ArpConstants DEF NoIp
  <1>4. UniqueEntry'
    <2> SUFFICES ASSUME NEW a \in Index, NEW b \in Index,
                        arp_table'[a].ip # NoIp,
                        arp_table'[a].ip = arp_table'[b].ip
                 PROVE  a = b
      BY DEF UniqueEntry
    <2>1. CASE a = s \/ b = s
      BY <2>1, <1>2
    <2>2. CASE a # s /\ b # s
      BY <2>2 DEF LookupIntegrity, UniqueEntry
    <2> QED BY <2>1, <2>2
  <1>5. Reachable'
    <2> SUFFICES ASSUME NEW m \in Index, NEW t \in Index,
                        arp_table'[t].ip # NoIp,
                        t = Probe(Hash(arp_table'[t].ip), m),
                        NEW j \in 0..(m - 1)
                 PROVE  LET u == Probe(Hash(arp_table'[t].ip), j)
                        IN  arp_table'[u].ip \notin {arp_table'[t].ip, NoIp}
      BY DEF Reachable, Stops, Hash, Probe
    <2>1. j \in Index /\ j # m
      BY ArpConstants DEF Index
    <2>2. CASE t = s
      <3> DEFINE u == Probe(Hash(ip), j)
      <3>1. Hash(ip) \in Index /\ Probe(Hash(ip), m) = s
        BY <2>2, HashInIndex
      <3>2. m = k
        BY <1>1, <3>1, ProbeInjective
      <3>3. u \in Index
        BY <2>1, <3>1, ProbeInIndex
      <3>4. u # s
        BY <1>1, <2>1, <3>1, <3>2, ProbeInjective
      <3>5. ~ Stops(ip, u)
        BY <1>1, <3>2
      <3>6. arp_table'[u].ip = arp_table[u].ip
        BY <3>3, <3>4
      <3> QED BY <2>2, <3>5, <3>6 DEF Stops
    <2>3. CASE t # s
      <3> DEFINE x == arp_table[t].ip
                 u == Probe(Hash(x), j)
      <3>1. arp_table'[t].ip = x
        BY <2>3
      <3>2. x \in Address
        BY <3>1 DEF ArpTypeOK, Entry
      <3>3. u \in Index
        BY <3>2, <2>1, HashInIndex, ProbeInIndex
      <3>4. ~ Stops(x, u)
        BY <3>1 DEF LookupIntegrity, Reachable
      <3>5. x # ip
        BY <1>2, <2>3
      <3>6. arp_table'[u].ip \notin {x, NoIp}
        BY <3>3, <3>4, <3>5, <1>3 DEF Stops
      <3> QED BY <3>1, <3>6
    <2> QED BY <2>2, <2>3
  <1> QED BY <1>4, <1>5 DEF LookupIntegrity

\* A step that moves no address keeps the table searchable.
LEMMA SameIps ==
  ASSUME ArpTypeOK, LookupIntegrity,
         \A t \in Index : arp_table'[t].ip = arp_table[t].ip
  PROVE  LookupIntegrity'
  <1>1. UniqueEntry'
    BY DEF LookupIntegrity, UniqueEntry
  <1>2. Reachable'
    <2> SUFFICES ASSUME NEW m \in Index, NEW t \in Index,
                        arp_table'[t].ip # NoIp,
                        t = Probe(Hash(arp_table'[t].ip), m),
                        NEW j \in 0..(m - 1)
                 PROVE  LET u == Probe(Hash(arp_table'[t].ip), j)
                        IN  arp_table'[u].ip \notin {arp_table'[t].ip, NoIp}
      BY DEF Reachable, Stops, Hash, Probe
    <2> DEFINE x == arp_table[t].ip
               u == Probe(Hash(x), j)
    <2>1. j \in Index
      BY ArpConstants DEF Index
    <2>2. arp_table'[t].ip = x /\ x \in Address
      BY DEF ArpTypeOK, Entry
    <2>3. u \in Index
      BY <2>1, <2>2, HashInIndex, ProbeInIndex
    <2>4. ~ Stops(x, u)
      BY <2>2 DEF LookupIntegrity, Reachable
    <2> QED BY <2>2, <2>3, <2>4 DEF Stops
  <1> QED BY <1>1, <1>2 DEF LookupIntegrity

\* With room for every address the search always finds a slot.
LEMMA RoomFound ==
  ASSUME ArpTypeOK, LookupIntegrity, Cardinality(Address) <= LAN_SIZE,
         NEW ip \in Address
  PROVE  sr_arp_get(ip) \in Index
  <1> SUFFICES ASSUME sr_arp_get(ip) \notin Index PROVE FALSE
    OBVIOUS
  <1>1. \A s \in Index : ~ Stops(ip, s)
    BY GetResult, HashInIndex, ProbeInIndex
  <1> DEFINE others == Address \ {ip}
             f == [s \in Index |-> arp_table[s].ip]
  <1>2. f \in [Index -> others]
    BY <1>1 DEF Stops, ArpTypeOK, Entry
  <1>3. /\ IsFiniteSet(Index) /\ Cardinality(Index) = LAN_SIZE
    <2>1. 0 \in Int /\ LAN_SIZE - 1 \in Int /\ ~ (0 > LAN_SIZE - 1)
      BY ArpConstants
    <2>2. IsFiniteSet(0..(LAN_SIZE - 1))
          /\ Cardinality(0..(LAN_SIZE - 1)) = (LAN_SIZE - 1) - 0 + 1
      BY <2>1, FS_Interval
    <2> QED BY <2>2, ArpConstants DEF Index
  <1>4. /\ IsFiniteSet(others)
        /\ Cardinality(others) = Cardinality(Address) - 1
    BY ArpConstants, FS_RemoveElement
  <1>5. Cardinality(Address) \in Nat
    BY ArpConstants, FS_CardinalityType
  <1>6. Cardinality(others) < Cardinality(Index)
    BY <1>3, <1>4, <1>5, ArpConstants
  <1> HIDE DEF f
  <1>7. PICK a, b \in Index : a # b /\ f[a] = f[b]
    BY <1>2, <1>3, <1>4, <1>6, FS_PigeonHole
  <1>8. arp_table[a].ip = arp_table[b].ip /\ arp_table[a].ip # NoIp
    BY <1>1, <1>7 DEF f, Stops
  <1> QED BY <1>7, <1>8 DEF LookupIntegrity, UniqueEntry

-----------------------------------------------------------------------------
(* Each operation keeps the invariant.                                      *)

ArpInv == ArpTypeOK /\ LookupIntegrity /\ EntryKinds /\ RoomMeansFound

\* The zeroed entry is an entry.
LEMMA EmptyEntryType == EmptyEntry \in Entry
  BY ArpConstants DEF EmptyEntry, Entry, Tries, EntryAge

\* One more try is still a uint8_t.
LEMMA BumpType ==
  ASSUME NEW n \in Tries
  PROVE  Bump(n) \in Tries
  BY ArpConstants DEF Bump, Tries

\* The invariant holds of the zeroed table.
LEMMA InitEstablishes == ArpInit => ArpInv
  <1> SUFFICES ASSUME ArpInit PROVE ArpInv
    OBVIOUS
  <1>1. arp_table = [s \in Index |-> EmptyEntry] /\ sinceCheck = 0
        /\ asked = {} /\ fault = NoFault
    BY DEF ArpInit, ArpClear
  <1>2. \A s \in Index : arp_table[s] = EmptyEntry /\ arp_table[s].ip = NoIp
    BY <1>1 DEF EmptyEntry
  <1>3. ArpTypeOK
    <2>1. arp_table \in [Index -> Entry]
      BY <1>1, EmptyEntryType
    <2>2. sinceCheck \in 0..ARP_CHECK_EVERY
      BY <1>1, ArpConstants
    <2> QED BY <1>1, <2>1, <2>2 DEF ArpTypeOK
  <1>4. LookupIntegrity
    BY <1>2 DEF LookupIntegrity, UniqueEntry, Reachable
  <1>5. EntryKinds
    BY <1>2 DEF EntryKinds
  <1>6. RoomMeansFound
    BY <1>1 DEF RoomMeansFound, NoFault
  <1> QED BY <1>3, <1>4, <1>5, <1>6 DEF ArpInv

\* sr_arp_set: the answer goes where the search stops.
LEMMA SetPreserves ==
  ASSUME ArpInv,
         NEW ip \in Address, NEW mac \in Mac, NEW iface \in Iface,
         sr_arp_set(ip, mac, iface)
  PROVE  ArpInv'
  <1> DEFINE s == sr_arp_get(ip)
             e == [ip |-> ip, mac |-> mac, iface |-> iface,
                   tries |-> 0, age |-> 0]
  <1>1. asked' = {} /\ sinceCheck' = sinceCheck
    BY DEF sr_arp_set
  <1>2. CASE s \in Index /\ Proceed
             /\ arp_table' = [arp_table EXCEPT ![s] = e]
    <2>1. e \in Entry /\ Answered(e)
      BY ArpConstants DEF Entry, Answered, Tries, EntryAge, NoIp
    <2>2. /\ arp_table'[s] = e
          /\ \A t \in Index \ {s} : arp_table'[t] = arp_table[t]
          /\ arp_table' \in [Index -> Entry]
      BY <1>2, <2>1 DEF ArpInv, ArpTypeOK
    <2>3. ArpTypeOK'
      BY <1>1, <1>2, <2>2 DEF ArpInv, ArpTypeOK, Proceed
    <2>4. LookupIntegrity'
      BY <1>2, <2>2, WritePreserves DEF ArpInv
    <2>5. EntryKinds'
      <3> SUFFICES ASSUME NEW t \in Index
                   PROVE  \/ arp_table'[t] = EmptyEntry
                          \/ Dummy(arp_table'[t]) \/ Answered(arp_table'[t])
        BY DEF EntryKinds, EmptyEntry, Dummy, Answered
      <3>1. CASE t = s
        BY <2>1, <2>2, <3>1
      <3>2. CASE t # s
        BY <2>2, <3>2 DEF ArpInv, EntryKinds
      <3> QED BY <3>1, <3>2
    <2>6. RoomMeansFound'
      BY <1>2 DEF RoomMeansFound, Proceed, NoFault
    <2> QED BY <2>3, <2>4, <2>5, <2>6 DEF ArpInv
  <1>3. CASE /\ s \in {NULL, SPIN} /\ arp_table' = arp_table
             /\ fault' \in {"sr_arp_set", "sr_arp_get"}
    <2>1. s \notin Index
      BY <1>3 DEF NULL, SPIN, Index
    <2>2. ~ (Cardinality(Address) <= LAN_SIZE)
      BY <2>1, RoomFound DEF ArpInv
    <2>3. ArpTypeOK'
      BY <1>1, <1>3 DEF ArpInv, ArpTypeOK, FaultSite
    <2>4. LookupIntegrity'
      BY <1>3, SameIps DEF ArpInv
    <2>5. EntryKinds'
      BY <1>3 DEF ArpInv, EntryKinds, EmptyEntry, Dummy, Answered
    <2>6. RoomMeansFound'
      BY <2>2 DEF RoomMeansFound
    <2> QED BY <2>3, <2>4, <2>5, <2>6 DEF ArpInv
  <1> QED BY <1>2, <1>3 DEF sr_arp_set, StopIn, AnsweredEntry

\* sr_arp_refresh: a new address becomes a dummy where its search stops.
LEMMA RefreshPreserves ==
  ASSUME ArpInv, NEW ip \in Address, NEW iface \in Iface \cup {NoIface},
         sr_arp_refresh(ip, iface)
  PROVE  ArpInv'
  <1> DEFINE s == sr_arp_get(ip)
             e == [EmptyEntry EXCEPT !.ip = ip, !.tries = 1]
  <1>1. sinceCheck' = sinceCheck /\ asked' \subseteq Address
    BY DEF sr_arp_refresh
  <1>2. CASE Proceed /\ arp_table' = arp_table
    <2>1. ArpTypeOK'
      BY <1>1, <1>2 DEF ArpInv, ArpTypeOK, Proceed
    <2>2. LookupIntegrity'
      BY <1>2, SameIps DEF ArpInv
    <2>3. EntryKinds'
      BY <1>2 DEF ArpInv, EntryKinds, EmptyEntry, Dummy, Answered
    <2>4. RoomMeansFound'
      BY <1>2 DEF RoomMeansFound, Proceed, NoFault
    <2> QED BY <2>1, <2>2, <2>3, <2>4 DEF ArpInv
  <1>3. CASE /\ s \in Index /\ Proceed /\ arp_table[s].ip = NoIp
             /\ arp_table' = [arp_table EXCEPT ![s].ip = ip,
                                               ![s].tries = Bump(@)]
    <2>1. arp_table[s] = EmptyEntry
      BY <1>3 DEF ArpInv, EntryKinds, Dummy, Answered
    <2>2. Bump(0) = 1 /\ 1 \in Tries
      BY ArpConstants DEF Bump, Tries
    <2>3. e \in Entry /\ Dummy(e) /\ e.ip = ip
      BY <2>2, ArpConstants, EmptyEntryType DEF Entry, Dummy, EmptyEntry, NoIp
    <2>4. /\ arp_table'[s] = e
          /\ \A t \in Index \ {s} : arp_table'[t] = arp_table[t]
          /\ arp_table' \in [Index -> Entry]
      <3>1. arp_table' = [t \in Index |-> IF t = s THEN e ELSE arp_table[t]]
        <4>1. [arp_table[s] EXCEPT !.ip = ip, !.tries = Bump(arp_table[s].tries)] = e
          <5>1. arp_table[s].tries = 0
            BY <2>1 DEF EmptyEntry
          <5>2. Bump(arp_table[s].tries) = 1
            BY <2>2, <5>1
          <5> QED BY <2>1, <5>2
        <4>2. arp_table' = [arp_table EXCEPT ![s] =
                [arp_table[s] EXCEPT !.ip = ip, !.tries = Bump(arp_table[s].tries)]]
          BY <1>3 DEF ArpInv, ArpTypeOK, Entry
        <4> QED BY <4>1, <4>2 DEF ArpInv, ArpTypeOK
      <3> HIDE DEF e
      <3> QED BY <1>3, <2>3, <3>1 DEF ArpInv, ArpTypeOK
    <2> HIDE DEF e
    <2>5. ArpTypeOK'
      BY <1>1, <1>3, <2>4 DEF ArpInv, ArpTypeOK, Proceed
    <2>6. LookupIntegrity'
      BY <1>3, <2>3, <2>4, WritePreserves DEF ArpInv
    <2>7. EntryKinds'
      <3> SUFFICES ASSUME NEW t \in Index
                   PROVE  \/ arp_table'[t] = EmptyEntry
                          \/ Dummy(arp_table'[t]) \/ Answered(arp_table'[t])
        BY DEF EntryKinds, EmptyEntry, Dummy, Answered
      <3>1. CASE t = s
        BY <2>3, <2>4, <3>1
      <3>2. CASE t # s
        BY <2>4, <3>2 DEF ArpInv, EntryKinds
      <3> QED BY <3>1, <3>2
    <2>8. RoomMeansFound'
      BY <1>3 DEF RoomMeansFound, Proceed, NoFault
    <2> QED BY <2>5, <2>6, <2>7, <2>8 DEF ArpInv
  <1>4. CASE /\ s \in {NULL, SPIN} /\ arp_table' = arp_table
             /\ fault' \in {"sr_arp_refresh", "sr_arp_get"}
    <2>1. s \notin Index
      BY <1>4 DEF NULL, SPIN, Index
    <2>2. ~ (Cardinality(Address) <= LAN_SIZE)
      BY <2>1, RoomFound DEF ArpInv
    <2>3. ArpTypeOK'
      BY <1>1, <1>4 DEF ArpInv, ArpTypeOK, FaultSite
    <2>4. LookupIntegrity'
      BY <1>4, SameIps DEF ArpInv
    <2>5. EntryKinds'
      BY <1>4 DEF ArpInv, EntryKinds, EmptyEntry, Dummy, Answered
    <2>6. RoomMeansFound'
      BY <2>2 DEF RoomMeansFound
    <2> QED BY <2>3, <2>4, <2>5, <2>6 DEF ArpInv
  <1> QED BY <1>2, <1>3, <1>4 DEF sr_arp_refresh, StopIn

\* sr_arp_check_refresh: only answered entries are tried again.
LEMMA SweepPreserves ==
  ASSUME ArpInv, sr_arp_check_refresh
  PROVE  ArpInv'
  <1>1. CASE arp_table' = arp_table /\ asked' = {} /\ sinceCheck' = sinceCheck
             /\ fault' \in {NoFault, "sr_arp_check_refresh"}
    <2>1. ArpTypeOK'
      BY <1>1 DEF ArpInv, ArpTypeOK, FaultSite
    <2>2. LookupIntegrity'
      BY <1>1, SameIps DEF ArpInv
    <2>3. EntryKinds'
      BY <1>1 DEF ArpInv, EntryKinds, EmptyEntry, Dummy, Answered
    <2>4. RoomMeansFound'
      BY <1>1 DEF RoomMeansFound, NoFault
    <2> QED BY <2>1, <2>2, <2>3, <2>4 DEF ArpInv
  <1>2. CASE /\ \A s \in Index : Aged(s) => ~ Nameless(s)
             /\ Proceed
             /\ arp_table' = [s \in Index |->
                   IF Aged(s)
                   THEN [arp_table[s] EXCEPT !.tries = Bump(@)]
                   ELSE arp_table[s]]
             /\ asked' = {arp_table[s].ip : s \in {t \in Index : Aged(t)}}
             /\ sinceCheck' = 0
    <2>1. ASSUME NEW s \in Index, Aged(s)
          PROVE  /\ arp_table'[s] \in Entry
                 /\ Answered(arp_table'[s])
                 /\ arp_table'[s].ip = arp_table[s].ip
      <3> DEFINE b == Bump(arp_table[s].tries)
      <3>1. arp_table[s] \in Entry
        BY DEF ArpInv, ArpTypeOK
      <3>2. b \in Tries
        BY <3>1, BumpType DEF Entry
      <3>3. arp_table'[s] = [arp_table[s] EXCEPT !.tries = b]
        BY <1>2, <2>1, <3>1 DEF Entry
      <3>4. arp_table[s].ip # NoIp /\ arp_table[s].iface # NoIface
        BY <1>2, <2>1 DEF Aged, Nameless
      <3>5. Answered(arp_table[s])
        BY <3>4 DEF ArpInv, EntryKinds, EmptyEntry, Dummy
      <3> HIDE DEF b
      <3> QED BY <3>1, <3>2, <3>3, <3>5 DEF Entry, Answered
    <2>2. \A s \in Index : ~ Aged(s) => arp_table'[s] = arp_table[s]
      BY <1>2
    <2>3. \A s \in Index : arp_table'[s] \in Entry
                           /\ arp_table'[s].ip = arp_table[s].ip
      BY <2>1, <2>2 DEF ArpInv, ArpTypeOK
    <2>4. asked' \subseteq Address
      BY <1>2 DEF Aged, ArpInv, ArpTypeOK, Entry
    <2>5. ArpTypeOK'
      <3>1. arp_table' \in [Index -> Entry]
        BY <1>2, <2>3
      <3>2. sinceCheck' \in 0..ARP_CHECK_EVERY
        BY <1>2, ArpConstants
      <3> QED BY <1>2, <2>4, <3>1, <3>2 DEF ArpTypeOK, Proceed
    <2>6. LookupIntegrity'
      BY <2>3, SameIps DEF ArpInv
    <2>7. EntryKinds'
      <3> SUFFICES ASSUME NEW t \in Index
                   PROVE  \/ arp_table'[t] = EmptyEntry
                          \/ Dummy(arp_table'[t]) \/ Answered(arp_table'[t])
        BY DEF EntryKinds, EmptyEntry, Dummy, Answered
      <3> QED BY <2>1, <2>2 DEF ArpInv, EntryKinds
    <2>8. RoomMeansFound'
      BY <1>2 DEF RoomMeansFound, Proceed, NoFault
    <2> QED BY <2>5, <2>6, <2>7, <2>8 DEF ArpInv
  <1> QED BY <1>1, <1>2 DEF sr_arp_check_refresh, Proceed, StopIn

\* Time moves no entry and ages neither an empty slot nor a dummy.
LEMMA TimePreserves ==
  ASSUME ArpInv, AgeEntries, Proceed
  PROVE  ArpInv'
  <1> DEFINE older(s) == [arp_table[s] EXCEPT !.age = arp_table[s].age + 1]
  <1>1. ASSUME NEW s \in Index
        PROVE  /\ arp_table[s] \in Entry
               /\ arp_table'[s] =
                    IF arp_table[s].age <= ARP_TTL THEN older(s)
                    ELSE arp_table[s]
    BY DEF AgeEntries, ArpInv, ArpTypeOK, Entry
  <1>2. ASSUME NEW s \in Index, arp_table[s].age <= ARP_TTL
        PROVE  /\ older(s) \in Entry
               /\ older(s).ip = arp_table[s].ip
               /\ older(s).mac = arp_table[s].mac
               /\ older(s).iface = arp_table[s].iface
               /\ older(s).tries = arp_table[s].tries
    <2>1. arp_table[s] \in Entry
      BY <1>1
    <2>2. arp_table[s].age + 1 \in EntryAge
      BY <1>2, <2>1, ArpConstants DEF Entry, EntryAge
    <2> QED BY <2>1, <2>2 DEF Entry
  <1> HIDE DEF older
  <1>3. ArpTypeOK'
    <2>1. arp_table' \in [Index -> Entry]
      <3>1. \A s \in Index : arp_table'[s] \in Entry
        BY <1>1, <1>2
      <3> QED BY <3>1 DEF AgeEntries
    <2>2. sinceCheck' \in 0..ARP_CHECK_EVERY
      BY ArpConstants DEF AgeEntries, ArpInv, ArpTypeOK
    <2> QED BY <2>1, <2>2 DEF AgeEntries, ArpTypeOK, Proceed
  <1>4. LookupIntegrity'
    <2>1. \A s \in Index : arp_table'[s].ip = arp_table[s].ip
      BY <1>1, <1>2
    <2> QED BY <2>1, SameIps DEF ArpInv
  <1>5. EntryKinds'
    <2> SUFFICES ASSUME NEW s \in Index
                 PROVE  \/ arp_table'[s] = EmptyEntry
                        \/ Dummy(arp_table'[s]) \/ Answered(arp_table'[s])
      BY DEF EntryKinds, EmptyEntry, Dummy, Answered
    <2>1. CASE arp_table[s] = EmptyEntry
      <3>1. ~ (arp_table[s].age <= ARP_TTL)
        BY <2>1, ArpConstants DEF EmptyEntry
      <3> QED BY <1>1, <2>1, <3>1
    <2>2. CASE Dummy(arp_table[s]) \/ Answered(arp_table[s])
      BY <1>1, <1>2, <2>2 DEF Dummy, Answered
    <2> QED BY <2>1, <2>2 DEF ArpInv, EntryKinds
  <1>6. RoomMeansFound'
    BY DEF RoomMeansFound, Proceed, NoFault
  <1> QED BY <1>3, <1>4, <1>5, <1>6 DEF ArpInv

\* The invariant is inductive.
LEMMA ArpStep == ArpInv /\ [ArpNext]_arpSpecVars => ArpInv'
  <1> SUFFICES ASSUME ArpInv, [ArpNext]_arpSpecVars PROVE ArpInv'
    OBVIOUS
  <1>1. CASE \E ip \in Address, mac \in Mac, iface \in Iface :
               Answer(ip, mac, iface)
    BY <1>1, SetPreserves DEF Answer
  <1>2. CASE \E ip \in Address, iface \in Iface \cup {NoIface} :
               Request(ip, iface)
    BY <1>2, RefreshPreserves DEF Request
  <1>3. CASE Sweep
    BY <1>3, SweepPreserves DEF Sweep
  <1>4. CASE ArpTick
    BY <1>4, TimePreserves DEF ArpTick
  <1>5. CASE UNCHANGED arpSpecVars
    <2>1. arp_table' = arp_table /\ sinceCheck' = sinceCheck /\ asked' = asked
          /\ fault' = fault
      BY <1>5 DEF arpSpecVars
    <2>2. ArpTypeOK'
      BY <2>1 DEF ArpInv, ArpTypeOK
    <2>3. LookupIntegrity'
      BY <2>1, SameIps DEF ArpInv
    <2>4. EntryKinds' /\ RoomMeansFound'
      BY <2>1 DEF ArpInv, EntryKinds, RoomMeansFound, EmptyEntry, Dummy, Answered
    <2> QED BY <2>2, <2>3, <2>4 DEF ArpInv
  <1> QED BY <1>1, <1>2, <1>3, <1>4, <1>5 DEF ArpNext

\* So it holds in every state.
LEMMA ArpInductive == ArpSpec => []ArpInv
  BY InitEstablishes, ArpStep, PTL DEF ArpSpec

-----------------------------------------------------------------------------
(* How a link comes to be taken for dead or alive.                          *)

Standing(s) ==
    Dead(s) # Dead(s)' =>
        \/ ~ Dead(s)' /\ arp_table'[s].age = 0
        \/ /\ arp_table'[s].ip \in asked' /\ arp_table[s].age > ARP_TTL
           /\ arp_table[s].tries = IF Dead(s)' THEN ARP_MAX_TRIES - 1 ELSE TRIES_MOD - 1

\* One more try of an entry past its TTL, with its request.
LEMMA TryStanding ==
  ASSUME NEW s \in Index, arp_table[s] \in Entry, arp_table[s].age > ARP_TTL,
         arp_table'[s].tries = Bump(arp_table[s].tries), arp_table'[s].ip \in asked'
  PROVE  Standing(s)
  <1>1. arp_table[s].tries \in 0..(TRIES_MOD - 1) /\ TRIES_MOD \in Nat
    BY ArpConstants DEF Entry, Tries
  <1>2. ARP_MAX_TRIES \in 1..(TRIES_MOD - 1)
    BY TriesAssumption
  <1>3. CASE arp_table[s].tries = TRIES_MOD - 1
    <2>1. arp_table'[s].tries = 0
      BY <1>3 DEF Bump
    <2> QED BY <1>2, <1>3, <2>1 DEF Standing, Dead
  <1>4. CASE arp_table[s].tries # TRIES_MOD - 1
    <2>1. arp_table'[s].tries = arp_table[s].tries + 1
      BY <1>4 DEF Bump
    <2> QED BY <1>1, <1>2, <2>1 DEF Standing, Dead
  <1> QED BY <1>3, <1>4

\* An entry whose tries stay is taken for what it was.
LEMMA SameStanding ==
  ASSUME NEW s \in Index, arp_table'[s].tries = arp_table[s].tries
  PROVE  Standing(s)
  BY DEF Standing, Dead

\* Every operation leaves the standing of a link or changes it in one of those ways.
LEMMA StandingStep ==
  ASSUME ArpInv, [ArpNext]_arpSpecVars, NEW s \in Index
  PROVE  Standing(s)
  <1>1. arp_table \in [Index -> Entry] /\ arp_table[s] \in Entry
    BY DEF ArpInv, ArpTypeOK
  <1>2. CASE UNCHANGED arp_table
    BY <1>2, SameStanding
  <1>3. ASSUME NEW ip \in Address, NEW mac \in Mac, NEW iface \in Iface,
               Answer(ip, mac, iface)
        PROVE  Standing(s)
    <2>1. CASE arp_table' = [arp_table EXCEPT ![s] = AnsweredEntry(ip, mac, iface)]
      <3>1. arp_table'[s].tries = 0 /\ arp_table'[s].age = 0
        BY <1>1, <2>1 DEF AnsweredEntry
      <3>2. ARP_MAX_TRIES \in Nat \ {0}
        BY TriesAssumption
      <3> QED BY <3>1, <3>2 DEF Standing, Dead
    <2>2. CASE arp_table'[s] = arp_table[s]
      BY <2>2, SameStanding
    <2> QED BY <1>1, <1>3, <2>1, <2>2 DEF Answer, sr_arp_set
  <1>4. ASSUME NEW ip \in Address, NEW iface \in Iface \cup {NoIface},
               Request(ip, iface)
        PROVE  Standing(s)
    <2>1. CASE /\ arp_table[s].ip = NoIp
               /\ arp_table' = [arp_table EXCEPT ![s].ip = ip, ![s].tries = Bump(@)]
      <3>1. arp_table[s] = EmptyEntry
        BY <2>1 DEF ArpInv, EntryKinds, Dummy, Answered
      <3>2. arp_table[s].age > ARP_TTL
        BY <3>1, ArpConstants DEF EmptyEntry
      <3>3. arp_table'[s].tries = Bump(arp_table[s].tries) /\ arp_table'[s].ip = ip
        BY <1>1, <2>1 DEF Entry
      <3>4. ip \in asked'
        <4>1. arp_table' # arp_table
          BY <2>1, <3>3, AddressAssumption DEF NoIp
        <4> QED BY <1>4, <4>1 DEF Request, sr_arp_refresh
      <3> QED BY <1>1, <3>2, <3>3, <3>4, TryStanding
    <2>2. CASE arp_table'[s] = arp_table[s]
      BY <2>2, SameStanding
    <2> QED BY <1>1, <1>4, <2>1, <2>2 DEF Request, sr_arp_refresh
  <1>5. CASE Sweep
    <2>1. CASE /\ Aged(s) /\ arp_table[s].ip \in asked'
               /\ arp_table'[s] = [arp_table[s] EXCEPT !.tries = Bump(@)]
      <3>1. /\ arp_table'[s].tries = Bump(arp_table[s].tries)
            /\ arp_table'[s].ip = arp_table[s].ip
        BY <1>1, <2>1 DEF Entry
      <3> QED BY <1>1, <2>1, <3>1, TryStanding DEF Aged
    <2>2. CASE arp_table'[s] = arp_table[s]
      BY <2>2, SameStanding
    <2> QED BY <1>5, <2>1, <2>2 DEF Sweep, sr_arp_check_refresh
  <1>6. CASE ArpTick
    <2>1. arp_table'[s] = IF arp_table[s].age <= ARP_TTL
                          THEN [arp_table[s] EXCEPT !.age = @ + 1] ELSE arp_table[s]
      BY <1>6 DEF ArpTick, AgeEntries
    <2>2. arp_table'[s].tries = arp_table[s].tries
      BY <1>1, <2>1 DEF Entry
    <2> QED BY <2>2, SameStanding
  <1> QED BY <1>2, <1>3, <1>4, <1>5, <1>6 DEF ArpNext, arpSpecVars

-----------------------------------------------------------------------------
\* In every behaviour of the cache (sr_arp.c:31-188) each variable keeps its
\* type.
THEOREM ArpTypeCorrect == ArpSpec => []ArpTypeOK
  <1>1. ArpInv => ArpTypeOK
    BY DEF ArpInv
  <1> QED BY <1>1, ArpInductive, PTL

\* However the addresses collide, linear probing (sr_arp.c:110-129) never
\* doubles an entry and never loses one behind an empty slot.
THEOREM LookupCorrect == ArpSpec => []LookupIntegrity
  <1>1. ArpInv => LookupIntegrity
    BY DEF ArpInv
  <1> QED BY <1>1, ArpInductive, PTL

\* An entry is a dummy that was never answered or it has its MAC and interface
\* (sr_arp.c:71-99, 177-184): only answered entries collect tries.
THEOREM EntriesCorrect == ArpSpec => []EntryKinds
  <1>1. ArpInv => EntryKinds
    BY DEF ArpInv
  <1> QED BY <1>1, ArpInductive, PTL

\* With no more addresses than slots, no search of the table (sr_arp.c:110-129)
\* fails or runs for ever.
THEOREM RoomSuffices == ArpSpec => []RoomMeansFound
  <1>1. ArpInv => RoomMeansFound
    BY DEF ArpInv
  <1> QED BY <1>1, ArpInductive, PTL

\* A link is taken for dead only at the last allowed try of an entry past its TTL,
\* and for alive again only by an answer or by the wrap of the 8-bit counter
\* (sr_arp.c:42-61, 85-90).
THEOREM StandingCorrect == ArpSpec => StandingChanges
  <1>1. ArpInv /\ [ArpNext]_arpSpecVars =>
          [\A s \in Index : Dead(s) # Dead(s)' =>
              \/ ~ Dead(s)' /\ arp_table'[s].age = 0
              \/ /\ arp_table'[s].ip \in asked' /\ arp_table[s].age > ARP_TTL
                 /\ arp_table[s].tries = IF Dead(s)' THEN ARP_MAX_TRIES - 1
                                         ELSE TRIES_MOD - 1]_arpSpecVars
    BY StandingStep DEF Standing
  <1> QED BY <1>1, ArpInductive, PTL DEF ArpSpec, StandingChanges
=============================================================================
