------------------------- MODULE RoutingTableProofs -------------------------
(***************************************************************************)
(* Proofs about RoutingTable: for every file and every machine, the search *)
(* returns the first entry with the longest matching prefix, and a default *)
(* route as the last resort.  The invariant is what the search knows after *)
(* n entries; its step rests on the masks being nested.                    *)
(***************************************************************************)
EXTENDS RoutingTable, TLAPS

\* What the search knows when it has seen the first n entries.
Knows(n) ==
    /\ bestprefix = {} =>
         \A k \in 1..n : Matches(routing_table[k]) => Prefix(routing_table[k]) = {}
    /\ bestprefix # {} =>
         /\ bestmatch \in 1..n
         /\ Matches(routing_table[bestmatch])
         /\ Prefix(routing_table[bestmatch]) = bestprefix
         /\ \A k \in 1..n :
              Matches(routing_table[k]) =>
                 /\ Prefix(routing_table[k]) \subseteq bestprefix
                 /\ k < bestmatch => Prefix(routing_table[k]) # bestprefix
    /\ elsewhere # Unset => elsewhere \in 1..n /\ IsDefault(routing_table[elsewhere])
    /\ \A k \in 1..n : IsDefault(routing_table[k]) => elsewhere # Unset /\ k <= elsewhere

\* What the entry returned is.
Answers ==
    /\ result # Unset /\ ~ IsDefault(routing_table[result]) =>
         /\ Matches(routing_table[result])
         /\ \A k \in Position :
              Matches(routing_table[k]) =>
                 /\ Prefix(routing_table[k]) \subseteq Prefix(routing_table[result])
                 /\ k < result => Prefix(routing_table[k]) # Prefix(routing_table[result])
    /\ result = Unset \/ IsDefault(routing_table[result]) =>
         \A k \in Position :
            /\ Matches(routing_table[k]) => Prefix(routing_table[k]) = {}
            /\ IsDefault(routing_table[k]) => result # Unset /\ k <= result

RtInv ==
    /\ RtTypeOK
    /\ phase = "load" => ip = {}
    /\ phase = "find" => ip # {} /\ walker \in Position /\ Knows(walker - 1)
    /\ phase = "idle" /\ ip # {} => Answers

\* The entry of a blank line says what the last line that is not blank said.
Copies ==
    1 \notin blank =>
        \A b \in blank : \E k \in Position \ blank :
            /\ k < b /\ Route(routing_table[k]) = Route(routing_table[b])
            /\ \A j \in (k + 1)..b : j \in blank

-----------------------------------------------------------------------------
\* Two prefixes of one address under nested masks are nested.
LEMMA NestedPrefixes ==
    ASSUME NEW e \in RtEntry, NEW f \in RtEntry, Matches(e), Matches(f)
    PROVE  Prefix(e) \subseteq Prefix(f) \/ Prefix(f) \subseteq Prefix(e)
  <1>1. e.mask \in Mask /\ f.mask \in Mask
    BY DEF RtEntry
  <1>2. e.mask \subseteq f.mask \/ f.mask \subseteq e.mask
    BY <1>1, RoutingAssumption
  <1>3. Prefix(e) = ip \cap e.mask /\ Prefix(f) = ip \cap f.mask
    BY DEF Matches
  <1> QED
    BY <1>2, <1>3

\* Between nested sets the comparison of integers is that of inclusion, whatever
\* the byte order.
LEMMA ExceedsNested ==
    ASSUME NEW X, NEW Y, X \subseteq Y \/ Y \subseteq X
    PROVE  Exceeds(X, Y) <=> ~ (X \subseteq Y)
  <1>1. CASE X \subseteq Y
    BY <1>1 DEF Exceeds
  <1>2. CASE Y \subseteq X
    BY <1>2 DEF Exceeds
  <1> QED
    BY <1>1, <1>2

\* The initial state satisfies the invariant.
LEMMA RtInvInit == RtInit => RtInv
  <1> SUFFICES ASSUME RtInit PROVE RtInv
    OBVIOUS
  <1>1. RtTypeOK
    BY DEF RtInit, RtTypeOK, Unset
  <1> QED
    BY <1>1 DEF RtInit, RtInv

\* Loading a line keeps the types of the table and of the pointers into it.
LEMMA LoadLineTypes ==
    ASSUME RtInv, NEW new \in Fields, NEW k \in 0..4, LoadLine(new, k)
    PROVE  RtTypeOK'
  <1> DEFINE f == Scanned(new, k)
             e == [dest |-> f.dest, mask |-> f.mask, interface |-> f.interface,
                   ifidx |-> IF routing_table = <<>> THEN f.interface ELSE NoIfidx]
  <1>1. RtTypeOK
    BY DEF RtInv
  <1>2. f.dest \in Dest /\ f.mask \in Mask /\ f.interface \in Name
    <2>1. CASE k = 4 \/ routing_table = <<>>
      BY <2>1 DEF Scanned, Fields
    <2>2. CASE k # 4 /\ routing_table # <<>>
      <3>1. Len(routing_table) \in 1..Len(routing_table)
        BY <1>1, <2>2 DEF RtTypeOK
      <3>2. routing_table[Len(routing_table)] \in RtEntry
        BY <1>1, <3>1 DEF RtTypeOK
      <3> QED
        BY <2>2, <3>2 DEF Scanned, Fields, RtEntry
    <2> QED
      BY <2>1, <2>2
  <1>3. CASE routing_table = <<>> /\ f.interface >= LAN_SIZE
    BY <1>1, <1>3 DEF LoadLine, sr_add_rt_entry, StopIn, FaultSite, findVars, RtTypeOK, Position
  <1>4. CASE ~ (routing_table = <<>> /\ f.interface >= LAN_SIZE)
    <2>1. e \in RtEntry
      <3>1. CASE routing_table = <<>>
        <4>1. f.interface \in 0..(LAN_SIZE - 1)
          <5>1. f.interface \in Nat /\ LAN_SIZE \in Nat
            BY <1>2, RoutingAssumption
          <5>2. ~ (f.interface >= LAN_SIZE)
            BY <1>4, <3>1
          <5> QED
            BY <5>1, <5>2
        <4> QED
          BY <1>2, <3>1, <4>1 DEF RtEntry
      <3>2. CASE routing_table # <<>>
        BY <1>2, <3>2 DEF RtEntry
      <3> QED
        BY <3>1, <3>2
    <2>2. /\ fault' = NoFault /\ routing_table' = Append(routing_table, e)
          /\ blank' \subseteq blank \cup {Len(routing_table) + 1}
      BY <1>4 DEF LoadLine, sr_add_rt_entry, Proceed
    <2>3. /\ routing_table' \in Seq(RtEntry)
          /\ Len(routing_table') = Len(routing_table) + 1
      BY <1>1, <2>1, <2>2 DEF RtTypeOK
    <2>4. UNCHANGED <<phase, findVars>>
      BY DEF LoadLine
    <2> QED
      BY <1>1, <2>2, <2>3, <2>4 DEF RtTypeOK, findVars, Position
  <1> QED
    BY <1>3, <1>4

-----------------------------------------------------------------------------
\* Loading preserves the invariant.
LEMMA LoadLinePreserves == RtInv /\ LoadLineAny => RtInv'
  <1> SUFFICES ASSUME RtInv, NEW new \in Fields, NEW k \in 0..4, LoadLine(new, k)
               PROVE  RtInv'
    BY DEF LoadLineAny
  <1>1. RtTypeOK'
    BY LoadLineTypes
  <1>2. phase' = "load" /\ ip' = {}
    BY DEF RtInv, LoadLine, findVars
  <1> QED
    BY <1>1, <1>2 DEF RtInv

\* The end of the file, and a failure to read it, preserve the invariant.
LEMMA LoadEndPreserves == RtInv /\ (LoadFails \/ LoadEnds) => RtInv'
  <1> SUFFICES ASSUME RtInv, LoadFails \/ LoadEnds PROVE RtInv'
    OBVIOUS
  <1>1. ip' = {} /\ phase' \in {"exit", "idle"}
    BY DEF RtInv, LoadFails, LoadEnds, findVars
  <1>2. RtTypeOK'
    BY DEF RtInv, RtTypeOK, LoadFails, LoadEnds, findVars, Position
  <1> QED
    BY <1>1, <1>2 DEF RtInv

\* A search begins knowing nothing, or the process stops.
LEMMA FindPreserves == RtInv /\ FindAny => RtInv'
  <1> SUFFICES ASSUME RtInv, FindAny PROVE RtInv'
    OBVIOUS
  <1> PICK a \in Ip : Find(a)
    BY DEF FindAny
  <1>1. CASE a = {} \/ routing_table = <<>>
    <2>1. fault' = "sr_rt_find" /\ UNCHANGED <<routing_table, blank, phase, findVars>>
      BY <1>1 DEF Find, StopIn
    <2>2. RtTypeOK'
      BY <2>1 DEF RtInv, RtTypeOK, findVars, FaultSite, Position
    <2>3. phase = "idle" /\ (ip # {} => Answers)
      BY DEF RtInv, Find
    <2>4. Answers' <=> Answers
      BY <2>1 DEF Answers, findVars, Matches, IsDefault, Prefix, Position
    <2> QED
      BY <2>1, <2>2, <2>3, <2>4 DEF RtInv, findVars
  <1>2. CASE a # {} /\ routing_table # <<>>
    <2>1. /\ fault' = NoFault /\ phase' = "find" /\ ip' = a /\ walker' = 1
          /\ elsewhere' = Unset /\ bestmatch' = Unset /\ bestprefix' = {}
          /\ UNCHANGED <<result, routing_table, blank>>
      BY <1>2 DEF Find, Proceed
    <2>2. routing_table \in Seq(RtEntry) /\ 1 \in Position
      BY <1>2 DEF RtInv, RtTypeOK, Position
    <2>3. RtTypeOK'
      BY <2>1, <2>2, RoutingAssumption DEF RtInv, RtTypeOK, Unset, Position
    <2>4. Knows(walker - 1)'
      BY <2>1 DEF Knows
    <2> QED
      BY <1>2, <2>1, <2>2, <2>3, <2>4 DEF RtInv, Position
  <1> QED
    BY <1>1, <1>2

\* One entry more is known after it was visited.
LEMMA VisitKnows ==
    ASSUME RtInv, Visit, NEW n \in Nat, n = walker
    PROVE  Knows(n)'
  <1> DEFINE e == routing_table[n]
  <1>1. n \in Position /\ Knows(n - 1) /\ routing_table \in Seq(RtEntry)
    BY DEF RtInv, RtTypeOK, Visit
  <1>2. \A k \in 1..n : routing_table[k] \in RtEntry /\ (k \in 1..(n - 1) \/ k = n)
    BY <1>1 DEF Position
  <1>3. /\ UNCHANGED <<routing_table, ip>>
        /\ elsewhere' = IF IsDefault(e) THEN n ELSE elsewhere
        /\ bestmatch' = IF Better(e) THEN n ELSE bestmatch
        /\ bestprefix' = IF Better(e) THEN Prefix(e) ELSE bestprefix
    BY DEF Visit
  <1>4. n \in 1..n /\ e \in RtEntry /\ 1..(n - 1) \subseteq 1..n
    BY <1>1, <1>2 DEF Position
  <1>5. /\ elsewhere' # Unset => elsewhere' \in 1..n /\ IsDefault(routing_table[elsewhere'])
        /\ \A k \in 1..n :
             IsDefault(routing_table[k]) => elsewhere' # Unset /\ k <= elsewhere'
    BY <1>1, <1>2, <1>3, <1>4 DEF Knows, Unset
  <1>6. /\ bestprefix' = {} =>
             \A k \in 1..n : Matches(routing_table[k]) => Prefix(routing_table[k]) = {}
        /\ bestprefix' # {} =>
             /\ bestmatch' \in 1..n
             /\ Matches(routing_table[bestmatch'])
             /\ Prefix(routing_table[bestmatch']) = bestprefix'
             /\ \A k \in 1..n :
                  Matches(routing_table[k]) =>
                     /\ Prefix(routing_table[k]) \subseteq bestprefix'
                     /\ k < bestmatch' => Prefix(routing_table[k]) # bestprefix'
    <2>1. CASE Better(e) /\ bestprefix = {}
      <3>1. bestmatch' = n /\ bestprefix' = Prefix(e) /\ Matches(e)
        BY <2>1, <1>3 DEF Better
      <3>2. \A k \in 1..n :
              Matches(routing_table[k]) => Prefix(routing_table[k]) = {} \/ k = n
        BY <1>1, <1>2, <2>1 DEF Knows
      <3> QED
        BY <3>1, <3>2, <1>4
    <2>2. CASE Better(e) /\ bestprefix # {}
      <3>1. bestmatch' = n /\ bestprefix' = Prefix(e) /\ Matches(e)
        BY <2>2, <1>3 DEF Better
      <3>2. bestmatch \in 1..n /\ Matches(routing_table[bestmatch])
            /\ bestprefix = Prefix(routing_table[bestmatch])
        BY <1>1, <1>4, <2>2 DEF Knows
      <3>3. bestprefix \subseteq Prefix(e) \/ Prefix(e) \subseteq bestprefix
        BY <1>2, <1>4, <3>1, <3>2, NestedPrefixes
      <3>4. ~ (Prefix(e) \subseteq bestprefix)
        BY <2>2, <3>3, ExceedsNested DEF Better
      <3>5. \A k \in 1..n :
              Matches(routing_table[k]) => Prefix(routing_table[k]) \subseteq bestprefix \/ k = n
        BY <1>1, <1>2, <2>2 DEF Knows
      <3> QED
        BY <3>1, <3>3, <3>4, <3>5, <1>4
    <2>3. CASE ~ Better(e)
      <3>1. bestmatch' = bestmatch /\ bestprefix' = bestprefix
        BY <2>3, <1>3
      <3>2. CASE bestprefix = {}
        <4>1. ~ Matches(e)
          BY <2>3, <3>2 DEF Better
        <4> QED
          BY <1>1, <1>2, <3>1, <3>2, <4>1 DEF Knows
      <3>3. CASE bestprefix # {}
        <4>1. bestmatch \in 1..(n - 1) /\ Matches(routing_table[bestmatch])
              /\ bestprefix = Prefix(routing_table[bestmatch])
          BY <1>1, <3>3 DEF Knows
        <4>2. Matches(e) => Prefix(e) \subseteq bestprefix
          <5> SUFFICES ASSUME Matches(e) PROVE Prefix(e) \subseteq bestprefix
            OBVIOUS
          <5>1. bestprefix \subseteq Prefix(e) \/ Prefix(e) \subseteq bestprefix
            BY <1>2, <1>4, <4>1, NestedPrefixes
          <5> QED
            BY <2>3, <3>3, <5>1, ExceedsNested DEF Better
        <4>3. \A k \in 1..n :
                Matches(routing_table[k]) =>
                   /\ Prefix(routing_table[k]) \subseteq bestprefix
                   /\ k < bestmatch => Prefix(routing_table[k]) # bestprefix
          BY <1>1, <1>2, <3>3, <4>1, <4>2 DEF Knows
        <4> QED
          BY <1>4, <3>1, <3>3, <4>1, <4>3
      <3> QED
        BY <3>2, <3>3
    <2> QED
      BY <2>1, <2>2, <2>3
  <1> QED
    BY <1>3, <1>5, <1>6 DEF Knows, Matches, IsDefault, Prefix

\* When the search knows the whole table, what it returns is the answer.
LEMMA KnowsAnswers ==
    ASSUME RtTypeOK', Knows(Len(routing_table))', result' = Chosen
    PROVE  Answers'
  <1>1. routing_table' \in Seq(RtEntry) /\ Len(routing_table') \in Nat
    BY DEF RtTypeOK
  <1>2. CASE bestprefix' = {}
    <2>1. result' = elsewhere'
      BY <1>2 DEF Chosen
    <2>2. result' # Unset => IsDefault(routing_table[result])'
      BY <2>1 DEF Knows
    <2> QED
      BY <1>2, <2>1, <2>2 DEF Knows, Answers, Position
  <1>3. CASE bestprefix' # {}
    <2>1. result' = bestmatch' /\ Matches(routing_table[result])'
          /\ Prefix(routing_table[result])' = bestprefix' /\ result' \in Position'
      BY <1>3 DEF Chosen, Knows, Position
    <2>2. ~ IsDefault(routing_table[result])' /\ result' # Unset
      BY <1>1, <2>1 DEF Matches, Position, Unset
    <2> QED
      BY <1>3, <2>1, <2>2 DEF Knows, Answers, Position
  <1> QED
    BY <1>2, <1>3

\* The early return: a better match under the whole mask is the address itself,
\* so no other match has a longer prefix, and none seen before had this one.
LEMMA HostRouteAnswers ==
    ASSUME RtInv, Visit, Better(routing_table[walker]),
           routing_table[walker].mask = Bit
    PROVE  Answers'
  <1> DEFINE e == routing_table[walker]
  <1>1. /\ walker \in Position /\ Knows(walker - 1)
        /\ routing_table \in Seq(RtEntry) /\ ip \subseteq Bit
    BY DEF RtInv, RtTypeOK, Visit
  <1>2. UNCHANGED <<routing_table, ip>> /\ result' = walker
    BY DEF Visit
  <1>3. Matches(e) /\ ~ IsDefault(e) /\ Prefix(e) = ip /\ walker # Unset
    BY <1>1 DEF Better, Matches, Position, Unset
  <1>4. \A k \in Position :
          Matches(routing_table[k]) => Prefix(routing_table[k]) \subseteq ip
    BY DEF Matches
  <1>5. \A k \in 1..(walker - 1) : Matches(routing_table[k]) => Prefix(routing_table[k]) # ip
    <2>1. CASE bestprefix = {}
      BY <1>1, <2>1 DEF Knows, RtInv, Visit
    <2>2. CASE bestprefix # {}
      <3>1. Exceeds(ip, bestprefix)
        BY <1>3, <2>2 DEF Better
      <3>2. bestprefix \subseteq ip
        BY <1>1, <2>2 DEF Knows, Matches
      <3>3. ~ (ip \subseteq bestprefix)
        BY <3>1, <3>2, ExceedsNested
      <3> QED
        BY <1>1, <2>2, <3>3 DEF Knows
    <2> QED
      BY <2>1, <2>2
  <1>6. \A k \in Position : k < walker => k \in 1..(walker - 1)
    BY <1>1 DEF Position
  <1> QED
    BY <1>2, <1>3, <1>4, <1>5, <1>6 DEF Answers, Matches, IsDefault, Prefix, Position

\* A turn of the search preserves the invariant.
LEMMA VisitPreserves == RtInv /\ Visit => RtInv'
  <1> SUFFICES ASSUME RtInv, Visit PROVE RtInv'
    OBVIOUS
  <1> DEFINE e == routing_table[walker]
             Host == Better(e) /\ e.mask = Bit
  <1>1. /\ RtTypeOK /\ ip # {} /\ walker \in Position /\ walker \in Nat
        /\ routing_table \in Seq(RtEntry) /\ e \in RtEntry
        /\ UNCHANGED <<fault, routing_table, blank, ip>>
    BY DEF RtInv, RtTypeOK, Visit, Position
  <1>2. elsewhere' \in 0..Len(routing_table) /\ bestmatch' \in 0..Len(routing_table)
        /\ bestprefix' \in SUBSET Bit
    <2>1. Prefix(e) \in SUBSET Bit
      BY <1>1, RoutingAssumption DEF RtEntry, Prefix
    <2> QED
      BY <1>1, <2>1 DEF Visit, RtTypeOK, Position
  <1>3. CASE Host
    <2>1. result' = walker /\ phase' = "idle" /\ UNCHANGED walker
      BY <1>3 DEF Visit
    <2>2. RtTypeOK'
      BY <1>1, <1>2, <2>1 DEF RtTypeOK, Position
    <2>3. Answers'
      BY <1>3, HostRouteAnswers
    <2> QED
      BY <2>1, <2>2, <2>3 DEF RtInv
  <1>4. CASE ~ Host /\ More
    <2>1. walker' = walker + 1 /\ UNCHANGED <<result, phase>> /\ phase = "find"
      BY <1>4 DEF Visit
    <2>2. walker' \in Position'
      BY <1>1, <1>4, <2>1 DEF More, Position
    <2>3. RtTypeOK'
      BY <1>1, <1>2, <2>1, <2>2 DEF RtTypeOK, Position
    <2>4. \A n \in Nat : n = walker => Knows(n)'
      BY VisitKnows
    <2>5. Knows(walker - 1)'
      <3>1. walker' - 1 = walker
        BY <1>1, <2>1
      <3> QED
        BY <1>1, <2>4, <3>1 DEF Knows
    <2> QED
      BY <1>1, <2>1, <2>2, <2>3, <2>5 DEF RtInv
  <1>5. CASE ~ Host /\ ~ More
    <2>1. result' = Chosen /\ phase' = "idle" /\ UNCHANGED walker
      BY <1>5 DEF Visit
    <2>2. walker = Len(routing_table)
      BY <1>1, <1>5 DEF More, Position
    <2>3. RtTypeOK'
      BY <1>1, <1>2, <2>1 DEF RtTypeOK, Chosen, Position
    <2>4. \A n \in Nat : n = walker => Knows(n)'
      BY VisitKnows
    <2>5. Knows(Len(routing_table))'
      BY <1>1, <2>2, <2>4 DEF Knows
    <2>6. Answers'
      BY <2>1, <2>3, <2>5, KnowsAnswers
    <2> QED
      BY <2>1, <2>3, <2>6 DEF RtInv
  <1> QED
    BY <1>3, <1>4, <1>5

-----------------------------------------------------------------------------
\* Every step preserves the invariant.
LEMMA RtInvStep == RtInv /\ [RtNext]_rtVars => RtInv'
  <1> SUFFICES ASSUME RtInv, [RtNext]_rtVars PROVE RtInv'
    OBVIOUS
  <1>1. CASE LoadLineAny
    BY <1>1, LoadLinePreserves
  <1>2. CASE LoadFails \/ LoadEnds
    BY <1>2, LoadEndPreserves
  <1>3. CASE FindAny
    BY <1>3, FindPreserves
  <1>4. CASE Visit
    BY <1>4, VisitPreserves
  <1>5. CASE UNCHANGED rtVars
    BY <1>5 DEF rtVars, findVars, RtInv, RtTypeOK, Knows, Answers, Matches, IsDefault,
                Prefix, Position
  <1> QED
    BY <1>1, <1>2, <1>3, <1>4, <1>5 DEF RtNext

\* What an answer is, in the terms of the two properties.
LEMMA AnswersRight == RtInv => LongestPrefix /\ DefaultIsLastResort
  <1> SUFFICES ASSUME RtInv, Returned PROVE LongestPrefix /\ DefaultIsLastResort
    BY DEF LongestPrefix, DefaultIsLastResort
  <1>1. Answers
    BY DEF RtInv, Returned
  <1> QED
    BY <1>1 DEF Answers, LongestPrefix, DefaultIsLastResort, Matches, IsDefault, Prefix

\* Every variable of the table and of its search keeps its type (sr_rt.c): the
\* pointers the search keeps are unset or point to entries.
THEOREM RtTypeCorrect == RtSpec => []RtTypeOK
  <1>1. RtInv => RtTypeOK
    BY DEF RtInv
  <1> QED
    BY <1>1, RtInvInit, RtInvStep, PTL DEF RtSpec

\* Comparing prefixes as integers, in whatever byte order, finds the longest
\* (sr_rt.c:36-76), for every table whose masks are prefixes.
THEOREM LongestPrefixCorrect == RtSpec => []LongestPrefix
  <1>1. RtInv => LongestPrefix
    BY AnswersRight
  <1> QED
    BY <1>1, RtInvInit, RtInvStep, PTL DEF RtSpec

\* A default route answers only when nothing longer matches, and no answer is
\* unset while there is one (sr_rt.c:48-49, 62-63, 74).
THEOREM DefaultCorrect == RtSpec => []DefaultIsLastResort
  <1>1. RtInv => DefaultIsLastResort
    BY AnswersRight
  <1> QED
    BY <1>1, RtInvInit, RtInvStep, PTL DEF RtSpec

-----------------------------------------------------------------------------
(* Blank lines.                                                             *)

\* A blank line copies the entry before it, which is another line's or a copy.
LEMMA LoadCopies == RtInv /\ Copies /\ LoadLineAny => Copies'
  <1> SUFFICES ASSUME RtInv, Copies, NEW new \in Fields, NEW k \in 0..4, LoadLine(new, k)
               PROVE  Copies'
    BY DEF LoadLineAny
  <1> DEFINE f == Scanned(new, k)
             n == Len(routing_table)
  <1>1. routing_table \in Seq(RtEntry) /\ blank \subseteq 1..n /\ n \in Nat
    BY DEF RtInv, RtTypeOK, Position
  <1>2. CASE UNCHANGED <<routing_table, blank>>
    BY <1>2 DEF Copies, Position, Route
  <1>3. CASE ~ UNCHANGED <<routing_table, blank>>
    <2> DEFINE e == [dest |-> f.dest, mask |-> f.mask, interface |-> f.interface,
                     ifidx |-> IF routing_table = <<>> THEN f.interface ELSE NoIfidx]
    <2>1. /\ routing_table' = Append(routing_table, e)
          /\ blank' = IF k = 0 THEN blank \cup {n + 1} ELSE blank
      BY <1>3 DEF LoadLine, sr_add_rt_entry
    <2>2. /\ Len(routing_table') = n + 1 /\ routing_table'[n + 1] = e
          /\ \A j \in 1..n : routing_table'[j] = routing_table[j]
          /\ Position' = 1..(n + 1)
      BY <1>1, <2>1 DEF Position
    <2>3. /\ \A j \in 1..n : Route(routing_table'[j]) = Route(routing_table[j])
          /\ Route(routing_table'[n + 1]) =
               [dest |-> f.dest, mask |-> f.mask, interface |-> f.interface]
      BY <2>2 DEF Route
    <2> HIDE DEF e
    <2> SUFFICES ASSUME 1 \notin blank', NEW b \in blank'
                 PROVE  \E j \in Position' \ blank' :
                          /\ j < b /\ Route(routing_table'[j]) = Route(routing_table'[b])
                          /\ \A l \in (j + 1)..b : l \in blank'
      BY DEF Copies, Route
    <2>4. 1 \notin blank
      BY <2>1
    <2>5. CASE b \in blank
      <3>1. PICK j \in Position \ blank :
                   /\ j < b /\ Route(routing_table[j]) = Route(routing_table[b])
                   /\ \A l \in (j + 1)..b : l \in blank
        BY <2>4, <2>5 DEF Copies
      <3>2. j \in 1..n /\ b \in 1..n /\ j \notin blank'
        BY <1>1, <2>1, <2>5, <3>1 DEF Position
      <3> QED
        BY <1>1, <2>1, <2>2, <2>3, <3>1, <3>2
    <2>6. CASE b \notin blank
      <3>1. k = 0 /\ b = n + 1 /\ n >= 1 /\ blank' = blank \cup {n + 1}
        BY <1>1, <2>1, <2>6
      <3>2. routing_table # <<>>
        BY <1>1, <3>1
      <3>3. Route(routing_table'[b]) = Route(routing_table[n])
        <4>1. f = [dest |-> routing_table[n].dest, mask |-> routing_table[n].mask,
                   interface |-> routing_table[n].interface]
          BY <3>1, <3>2 DEF Scanned
        <4> QED
          BY <2>3, <3>1, <4>1 DEF Route
      <3>4. CASE n \notin blank
        <4>1. n \in Position' \ blank' /\ n < b /\ Route(routing_table'[n]) = Route(routing_table'[b])
          BY <1>1, <2>2, <2>3, <3>1, <3>3, <3>4
        <4>2. \A l \in (n + 1)..b : l \in blank'
          BY <1>1, <3>1
        <4> QED
          BY <4>1, <4>2
      <3>5. CASE n \in blank
        <4>1. PICK j \in Position \ blank :
                     /\ j < n /\ Route(routing_table[j]) = Route(routing_table[n])
                     /\ \A l \in (j + 1)..n : l \in blank
          BY <2>4, <3>5 DEF Copies
        <4>2. j \in 1..n
          BY <4>1 DEF Position
        <4>3. j \in Position' \ blank' /\ j < b /\ Route(routing_table'[j]) = Route(routing_table'[b])
          BY <1>1, <2>2, <2>3, <3>1, <3>3, <4>1, <4>2
        <4>4. \A l \in (j + 1)..b : l \in blank'
          BY <1>1, <3>1, <4>1, <4>2
        <4> QED
          BY <4>3, <4>4
      <3> QED
        BY <3>4, <3>5
    <2> QED
      BY <2>5, <2>6
  <1> QED
    BY <1>2, <1>3

\* Every step preserves both invariants.
LEMMA CopiesStep == RtInv /\ Copies /\ [RtNext]_rtVars => RtInv' /\ Copies'
  <1> SUFFICES ASSUME RtInv, Copies, [RtNext]_rtVars PROVE Copies'
    BY RtInvStep
  <1>1. CASE LoadLineAny
    BY <1>1, LoadCopies
  <1>2. CASE ~ LoadLineAny
    <2>1. UNCHANGED <<routing_table, blank>>
      BY <1>2 DEF RtNext, LoadFails, LoadEnds, FindAny, Find, Visit, rtVars
    <2> QED
      BY <2>1 DEF Copies, Position, Route
  <1> QED
    BY <1>1, <1>2

\* The answer is no copy, since its original has the same prefix and comes first,
\* or it is a default, whose original is the last default that is no copy.
LEMMA CopiesHarmless == RtInv /\ Copies => BlankLinesHarmless
  <1> SUFFICES ASSUME RtInv, Copies, Returned, result # Unset, 1 \notin blank
               PROVE  \E k \in Position \ blank :
                        /\ Route(routing_table[k]) = Route(routing_table[result])
                        /\ IF routing_table[result].dest = {}
                           THEN \A j \in Position \ blank :
                                  routing_table[j].dest = {} => j <= k
                           ELSE k = result
    BY DEF BlankLinesHarmless
  <1>1. /\ Answers /\ result \in Position /\ blank \subseteq Position
        /\ Len(routing_table) \in Nat
    BY DEF RtInv, Returned, RtTypeOK, Position, Unset
  <1>2. CASE result \notin blank
    BY <1>1, <1>2 DEF Answers, IsDefault
  <1>3. CASE result \in blank
    <2>1. PICK k \in Position \ blank :
                 /\ k < result /\ Route(routing_table[k]) = Route(routing_table[result])
                 /\ \A l \in (k + 1)..result : l \in blank
      BY <1>3 DEF Copies
    <2>2. /\ routing_table[k].dest = routing_table[result].dest
          /\ routing_table[k].mask = routing_table[result].mask
      BY <2>1 DEF Route
    <2>3. routing_table[result].dest = {}
      <3> SUFFICES ASSUME routing_table[result].dest # {} PROVE FALSE
        OBVIOUS
      <3>1. Matches(routing_table[k]) /\ Prefix(routing_table[k]) = Prefix(routing_table[result])
        BY <1>1, <2>2 DEF Answers, Matches, IsDefault, Prefix
      <3> QED
        BY <1>1, <2>1, <3>1 DEF Answers, IsDefault
    <2>4. \A j \in Position \ blank : routing_table[j].dest = {} => j <= k
      <3> SUFFICES ASSUME NEW j \in Position \ blank, routing_table[j].dest = {}
                   PROVE  j <= k
        OBVIOUS
      <3>1. j <= result
        BY <1>1, <2>3 DEF Answers, IsDefault
      <3> QED
        BY <1>1, <2>1, <3>1 DEF Position
    <2> QED
      BY <2>1, <2>3, <2>4
  <1> QED
    BY <1>2, <1>3

\* Unless a file begins with a blank line, its blank lines change no search
\* (sr_rt.c:119-121), for every file, however many of its lines are blank.
THEOREM BlankLinesCorrect == RtSpec => []BlankLinesHarmless
  <1>1. RtInit => RtInv /\ Copies
    BY RtInvInit DEF RtInit, Copies
  <1> QED
    BY <1>1, CopiesStep, CopiesHarmless, PTL DEF RtSpec
=============================================================================
