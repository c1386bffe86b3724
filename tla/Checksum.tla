------------------------------ MODULE Checksum ------------------------------
(***************************************************************************)
(* The Internet checksum (sr_ip_checksum of sr_ip.c) as the router uses    *)
(* it: computed over a header or message whose checksum field was set to   *)
(* zero, stored there, and computed again over what arrives at the other   *)
(* end, where zero means that the packet is accepted (sr_router.c:106).    *)
(* In between the network may change one word.                             *)
(*                                                                         *)
(* A byte is below B (256), a word of two below W, little-endian.          *)
(***************************************************************************)
EXTENDS Integers, Sequences, FiniteSets

CONSTANTS B,            \* values of a byte
          MaxLen,       \* bound: bytes of a message; len_in_bytes is a uint16_t
          Byte          \* bytes that messages are made of

ASSUME ChecksumAssumption ==
    /\ B \in Nat \ {0, 1}
    /\ MaxLen \in Nat /\ MaxLen < B * B
    /\ Byte \subseteq 0..(B - 1)

W == B * B

VARIABLES data,         \* the bytes, and one more that lies past the message
          len,          \* len_in_bytes
          field,        \* which word is the checksum
          sent,         \* the words that were sent, once they are
          phase,        \* "add", "odd", "fold", "done"
          k,            \* the word the loop is at
          sum

sumVars == <<data, len, field, sent, phase, k, sum>>

Words == len \div 2
WordAt(d, j) == d[2 * j - 1] + B * d[2 * j]
WithWord(d, j, w) == [d EXCEPT ![2 * j - 1] = w % B, ![2 * j] = w \div B]

-----------------------------------------------------------------------------
(* sr_ip_checksum.                                                          *)

\* Enter the function.
Starts == phase' = "add" /\ k' = 1 /\ sum' = 0

\* Mutant: the last word is left out.
WordsLeftShort == k < Words

WordsLeft == k <= Words

AddWord ==
    /\ phase = "add" /\ WordsLeft
    /\ sum' = sum + WordAt(data, k)
    /\ k' = k + 1
    /\ UNCHANGED <<data, len, field, sent, phase>>

AddEnds ==
    /\ phase = "add" /\ ~ WordsLeft
    /\ phase' = IF len % 2 = 1 THEN "odd" ELSE "fold"
    /\ UNCHANGED <<data, len, field, sent, k, sum>>

\* Mutant: the last word is added as it is.
OddWordPlain == WordAt(data, k)

\* The last byte of an odd length: the word that begins there, with the byte
\* past the end in it, is shifted up by a byte.
OddWord == WordAt(data, k) * B

AddOdd ==
    /\ phase = "odd"
    /\ sum' = sum + OddWord
    /\ phase' = "fold"
    /\ UNCHANGED <<data, len, field, sent, k>>

\* Mutant: the carries are added and kept.
FoldedUnmasked == (sum \div W) + sum

\* Mutant: the carries are thrown away.
FoldedDrop == sum % W

Folded == (sum \div W) + (sum % W)

\* Mutant: a sum of exactly one carry is taken for a word.
CarriesLess == sum > W

Carries == sum >= W

Fold ==
    /\ phase = "fold"
    /\ IF Carries THEN sum' = Folded /\ UNCHANGED phase
       ELSE phase' = "done" /\ UNCHANGED sum
    /\ UNCHANGED <<data, len, field, sent, k>>

\* The value returned: the low word of the complement.
Result == (W - 1) - sum

-----------------------------------------------------------------------------
(* Its use.                                                                 *)

\* Mutant: the field is not set to zero first.
ClearedNot(d, f) == d

\* ip_sum, or the checksum of an ICMP message, is zero while it is computed.
Cleared(d, f) == WithWord(d, f, 0)

\* Send the message with its checksum; it may arrive with one word changed.  Only
\* headers, whose length is even, are checked on arrival.
SendAndReceive ==
    /\ phase = "done" /\ sent = <<>> /\ len % 2 = 0
    /\ LET d == WithWord(data, field, Result)
       IN  /\ sent' = d
           /\ \/ data' = d
              \/ \E j \in 1..Words, lo, hi \in Byte :
                    data' = WithWord(d, j, lo + B * hi)
    /\ Starts
    /\ UNCHANGED <<len, field>>

ChecksumInit ==
    /\ len \in 2..MaxLen
    /\ field \in 1..Words
    /\ \E d \in [1..(MaxLen + 1) -> Byte] : data = Cleared(d, field)
    /\ sent = <<>>
    /\ phase = "add" /\ k = 1 /\ sum = 0

ChecksumNext == AddWord \/ AddEnds \/ AddOdd \/ Fold \/ SendAndReceive

ChecksumSpec == ChecksumInit /\ [][ChecksumNext]_sumVars

-----------------------------------------------------------------------------
\* Every variable keeps its type; the 32-bit sum never wraps and is a word in
\* the end.
ChecksumTypeOK ==
    /\ data \in [1..(MaxLen + 1) -> 0..(B - 1)]
    /\ len \in 2..MaxLen
    /\ field \in 1..Words
    /\ sent = <<>> \/ sent \in [1..(MaxLen + 1) -> 0..(B - 1)]
    /\ phase \in {"add", "odd", "fold", "done"}
    /\ k \in 1..(Words + 1)
    /\ sum \in 0..(W * W - 1)
    /\ phase = "done" => sum < W

\* The one's-complement sum of RFC 1071: the sum modulo W - 1, where only a sum
\* of nothing but zeros is zero.
OnesComplementSum(total) == IF total = 0 THEN 0 ELSE ((total - 1) % (W - 1)) + 1

\* The sum of the first n words, of as many as there is room for.
MaxWords == (MaxLen + 1) \div 2

SumOf(d, n) ==
    LET S[j \in 0..MaxWords] == IF j = 0 THEN 0 ELSE S[j - 1] + WordAt(d, j)
    IN  S[n]

\* Over an even number of bytes the function is the checksum of RFC 1071, which
\* the other hosts compute (sr_ip.c:211).  Over an odd number it is not.
IsRfc1071 ==
    phase = "done" /\ len % 2 = 0 =>
        Result = (W - 1) - OnesComplementSum(SumOf(data, Words))

\* Over an odd number of bytes, which the comment tells the callers to pad
\* (sr_ip.c:215-217) and the echo handler does not (sr_ip.c:140), the last byte and
\* the byte past the message count with their places exchanged.
LastWordSwapped(d) == d[2 * Words + 2] + B * d[2 * Words + 1]

OddSwapsBytes ==
    phase = "done" /\ len % 2 = 1 =>
        Result = (W - 1) - OnesComplementSum(SumOf(data, Words) + LastWordSwapped(data))

\* A header that arrives unchanged is accepted: the check gives zero, which is
\* what sr_handlepacket tests for (sr_router.c:106) and not the 0xFFFF of the
\* comment (sr_ip.c:219-220).
UnchangedAccepted == phase = "done" /\ sent # <<>> /\ data = sent => Result = 0

\* A header with one changed word is refused, unless the change is from one zero
\* of one's-complement arithmetic to the other.
ChangeRefused ==
    phase = "done" /\ sent # <<>> /\ data # sent =>
        \/ Result # 0
        \/ \E j \in 1..Words : {WordAt(data, j), WordAt(sent, j)} = {0, W - 1}

\* Each turn of the folding loop makes the sum smaller (while (sum >> 16),
\* sr_ip.c:241), so that it cannot turn for ever.
FoldShrinks == [][phase = "fold" /\ phase' = "fold" => sum' < sum]_sumVars
=============================================================================
