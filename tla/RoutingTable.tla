---------------------------- MODULE RoutingTable ----------------------------
(***************************************************************************)
(* The routing table (sr_rt.c): a list of entries read from a file, one    *)
(* line at a time, then searched for the destination of every packet.      *)
(*                                                                         *)
(* An address and a mask are the sets of their one bits, so that "&" is    *)
(* intersection.  Prefixes are compared as the code compares them, as      *)
(* uint32_t that hold the bits in network order: Rank is the significance  *)
(* of each bit in such an integer, which depends on the byte order of the  *)
(* machine.  A pointer to an entry is its position; Unset is whatever an   *)
(* automatic variable held before it was assigned.                         *)
(***************************************************************************)
EXTENDS Process, Integers, Sequences

CONSTANTS Bit,          \* bit positions of an address
          Rank,         \* significance of each bit in a uint32_t
          Dest,         \* destinations a line may have
          Mask,         \* masks a line may have, from nested prefixes
          Name,         \* the numbers N of interface names "ethN"
          LAN_SIZE,     \* interface indexes are below this
          Ip,           \* addresses searched for
          MaxRoutes     \* bound: lines of the file

ASSUME RoutingAssumption ==
    /\ Rank \in [Bit -> Nat]
    /\ \A a, b \in Bit : Rank[a] = Rank[b] => a = b
    /\ Dest \subseteq SUBSET Bit
    /\ Mask \subseteq SUBSET Bit
    /\ \A m, n \in Mask : m \subseteq n \/ n \subseteq m
    /\ Name \subseteq Nat
    /\ LAN_SIZE \in Nat \ {0}
    /\ Ip \subseteq SUBSET Bit
    /\ MaxRoutes \in Nat

VARIABLES routing_table,    \* the list
          blank,            \* history: the entries that blank lines added
          phase,            \* "load", "idle", "find", or "exit" after exit(1)
          ip,               \* the address searched for
          walker,           \* the entry the search is at
          elsewhere, bestmatch, bestprefix,
          result            \* what the last search returned

findVars == <<ip, walker, elsewhere, bestmatch, bestprefix, result>>
rtVars == <<fault, routing_table, blank, phase, findVars>>

Unset == 0

\* The ifidx that malloc left in an entry.
NoIfidx == -1

Fields == [dest : Dest, mask : Mask, interface : Name]
RtEntry == [dest : Dest, mask : Mask, interface : Name,
            ifidx : (0..(LAN_SIZE - 1)) \cup {NoIfidx}]

Position == 1..Len(routing_table)

-----------------------------------------------------------------------------
(* Loading the file.                                                        *)

\* Mutant: the buffers are declared in the loop, and hold anything again.
ScannedAnew(new, k) == new

\* The scanner fills the first k of four fields; those that a short or blank
\* line does not have keep what the line before left in them.  On the first
\* line that is any value, as if the line had it.
Scanned(new, k) ==
    IF k = 4 \/ routing_table = <<>> THEN new
    ELSE LET old == routing_table[Len(routing_table)]
         IN  [dest |-> IF k >= 1 THEN new.dest ELSE old.dest,
              mask |-> IF k >= 3 THEN new.mask ELSE old.mask,
              interface |-> old.interface]

\* Add an entry read from a line with k fields.  Only the first entry's ifidx is
\* assigned, from a name whose number must be a legal index.
sr_add_rt_entry(f, k) ==
    IF routing_table = <<>> /\ f.interface >= LAN_SIZE
    THEN StopIn("sr_if_name2idx") /\ UNCHANGED <<routing_table, blank>>
    ELSE /\ Proceed
         /\ routing_table' =
              Append(routing_table,
                     [dest |-> f.dest, mask |-> f.mask, interface |-> f.interface,
                      ifidx |-> IF routing_table = <<>> THEN f.interface
                                ELSE NoIfidx])
         /\ blank' = IF k = 0 THEN blank \cup {Len(routing_table) + 1} ELSE blank

LoadLine(new, k) ==
    /\ Running /\ phase = "load"
    /\ Len(routing_table) < MaxRoutes
    /\ sr_add_rt_entry(Scanned(new, k), k)
    /\ UNCHANGED <<phase, findVars>>

\* A line with an address that does not convert, or no file to read: main exits.
LoadFails ==
    /\ Running /\ phase = "load"
    /\ phase' = "exit"
    /\ UNCHANGED <<fault, routing_table, blank, findVars>>

LoadEnds ==
    /\ Running /\ phase = "load"
    /\ phase' = "idle"
    /\ UNCHANGED <<fault, routing_table, blank, findVars>>

-----------------------------------------------------------------------------
(* sr_rt_find.                                                              *)

\* X > Y as unsigned integers: the most significant bit in which they differ
\* is set in X.
Exceeds(X, Y) == \E b \in X \ Y : \A c \in Y \ X : Rank[c] < Rank[b]

Prefix(e) == e.dest \cap e.mask

IsDefault(e) == e.dest = {}
Matches(e) == ~ IsDefault(e) /\ Prefix(e) = ip \cap e.mask

\* Mutant: the last match wins.
BetterIfLater(e) == Matches(e)

Better(e) == Matches(e) /\ (bestprefix = {} \/ Exceeds(Prefix(e), bestprefix))

\* Enter the search; its two assertions are about the address and the table.
Find(a) ==
    /\ Running /\ phase = "idle"
    /\ IF a = {} \/ routing_table = <<>>
       THEN StopIn("sr_rt_find") /\ UNCHANGED <<phase, findVars>>
       ELSE /\ Proceed
            /\ phase' = "find"
            /\ ip' = a
            /\ walker' = 1
            /\ elsewhere' = Unset /\ bestmatch' = Unset
            /\ bestprefix' = {}
            /\ UNCHANGED result
    /\ UNCHANGED <<routing_table, blank>>

\* Mutant: a default route is preferred.
ChosenDefault == IF elsewhere' # Unset THEN elsewhere' ELSE bestmatch'

\* What the search returns after its last entry.
Chosen == IF bestprefix' = {} THEN elsewhere' ELSE bestmatch'

\* Mutant: the search looks for an entry after the last.
MorePastEnd == walker <= Len(routing_table)

More == walker < Len(routing_table)

\* One turn of the loop; the first entry, outside the loop in the code, gets
\* the same treatment because bestprefix is still zero.
Visit ==
    LET e == routing_table[walker]
    IN  /\ Running /\ phase = "find"
        /\ elsewhere' = IF IsDefault(e) THEN walker ELSE elsewhere
        /\ bestmatch' = IF Better(e) THEN walker ELSE bestmatch
        /\ bestprefix' = IF Better(e) THEN Prefix(e) ELSE bestprefix
        /\ IF Better(e) /\ e.mask = Bit
           THEN result' = walker /\ phase' = "idle" /\ UNCHANGED walker
           ELSE IF More THEN walker' = walker + 1 /\ UNCHANGED <<result, phase>>
           ELSE result' = Chosen /\ phase' = "idle" /\ UNCHANGED walker
        /\ UNCHANGED <<fault, routing_table, blank, ip>>

-----------------------------------------------------------------------------
RtInit ==
    /\ fault = NoFault
    /\ routing_table = <<>> /\ blank = {}
    /\ phase = "load"
    /\ ip = {}
    /\ walker = Unset /\ elsewhere = Unset /\ bestmatch = Unset
    /\ bestprefix = {}
    /\ result = Unset

LoadLineAny == \E new \in Fields, k \in 0..4 : LoadLine(new, k)
FindAny == \E a \in Ip : Find(a)

RtNext == LoadLineAny \/ LoadFails \/ LoadEnds \/ FindAny \/ Visit

RtSpec == RtInit /\ [][RtNext]_rtVars

-----------------------------------------------------------------------------
\* Every variable keeps its type.
RtTypeOK ==
    /\ fault \in FaultSite \cup {NoFault}
    /\ routing_table \in Seq(RtEntry) /\ blank \subseteq Position
    /\ phase \in {"load", "idle", "find", "exit"}
    /\ ip \in SUBSET Bit
    /\ {walker, elsewhere, bestmatch, result} \subseteq 0..Len(routing_table)
    /\ bestprefix \in SUBSET Bit

\* Some search has returned, and no other has begun.
Returned == Running /\ phase = "idle" /\ ip # {}

\* The entry returned has the longest prefix (sr_rt.c:26-76, which compares
\* numbers and never lengths): every other match has a prefix contained in it,
\* and of the entries with this very prefix it is the first.  An entry whose mask is
\* longer but adds only zero bits ties, and loses if it comes later.
LongestPrefix ==
    Returned /\ result # Unset /\ ~ (routing_table[result].dest = {}) =>
        /\ Prefix(routing_table[result]) = ip \cap routing_table[result].mask
        /\ \A k \in Position :
             LET e == routing_table[k]
             IN  e.dest # {} /\ Prefix(e) = ip \cap e.mask =>
                    /\ Prefix(e) \subseteq Prefix(routing_table[result])
                    /\ k < result => Prefix(e) # Prefix(routing_table[result])

\* The default is the last resort and is never missed (sr_rt.c:48-49, 62-63,
\* 74): a default entry is returned only if no entry with a non-zero prefix
\* matches, the last default of the file wins, and the unset pointer is
\* returned only if the table has neither.
DefaultIsLastResort ==
    Returned /\ (result = Unset \/ routing_table[result].dest = {}) =>
        \A k \in Position :
            LET e == routing_table[k]
            IN  /\ e.dest # {} /\ Prefix(e) = ip \cap e.mask => Prefix(e) = {}
                /\ e.dest = {} => result # Unset /\ k <= result

\* What an entry says of its route; its ifidx is not part of it.
Route(e) == [dest |-> e.dest, mask |-> e.mask, interface |-> e.interface]

\* A blank line, which adds the entry before it once more because the result of
\* sscanf is not looked at (sr_rt.c:121), routes nothing: unless the file begins
\* with one, the search returns what it would return without the blank lines.
\* That is an entry of another line, or, where the last default is such a copy,
\* the same route as the last default of another line.
BlankLinesHarmless ==
    Returned /\ result # Unset /\ 1 \notin blank =>
        \E k \in Position \ blank :
            /\ Route(routing_table[k]) = Route(routing_table[result])
            /\ IF routing_table[result].dest = {}
               THEN \A j \in Position \ blank : routing_table[j].dest = {} => j <= k
               ELSE k = result
=============================================================================
