--------------------------- MODULE ChecksumProofs ---------------------------
(***************************************************************************)
(* Proofs about Checksum: whatever the message, its length and the width   *)
(* of a byte, the function gives the one's-complement sum of the words,    *)
(* accepts what arrives unchanged and refuses one changed word.  The sum   *)
(* of the first n words is defined by recursion over the data, so that the *)
(* proofs begin with its recurrence.                                       *)
(***************************************************************************)
EXTENDS Checksum, LeastNatural

Message == [1..(MaxLen + 1) -> 0..(B - 1)]

-----------------------------------------------------------------------------
(* Arithmetic.                                                              *)

LEMMA WordsAndBytes ==
    /\ B \in Nat /\ B > 1 /\ MaxLen \in Nat /\ W \in Nat /\ W > 2 * B - 1
    /\ MaxLen < W /\ W = B * B /\ W > 3
  BY ChecksumAssumption DEF W

\* Quotient and remainder.
LEMMA Division ==
    ASSUME NEW a \in Nat, NEW b \in Nat, b > 0
    PROVE  /\ a \div b \in Nat /\ a % b \in 0..(b - 1)
           /\ a = b * (a \div b) + (a % b)
  OBVIOUS

LEMMA DivisionUnique ==
    ASSUME NEW q \in Nat, NEW r \in Nat, NEW b \in Nat, r < b
    PROVE  (q * b + r) % b = r /\ (q * b + r) \div b = q
  OBVIOUS

\* How many words there are, and that a message has a byte for each of theirs.
LEMMA WordCount ==
    ASSUME len \in 2..MaxLen
    PROVE  /\ Words \in Nat /\ Words > 0 /\ MaxWords \in Nat
           /\ Words <= MaxWords /\ 2 * Words <= len /\ 2 * Words <= MaxLen
           /\ len % 2 = 1 => 2 * Words + 1 = len /\ Words + 1 <= MaxWords
           /\ 2 * MaxWords <= MaxLen + 1
  BY ChecksumAssumption DEF Words, MaxWords

\* Folding takes a multiple of W - 1 away and leaves something.
LEMMA FoldedIs ==
    ASSUME NEW a \in Nat, a >= W
    PROVE  LET f == (a \div W) + (a % W)
           IN  /\ f \in Nat /\ f > 0 /\ f < a
               /\ a \div W \in Nat /\ a = f + (a \div W) * (W - 1)
  <1> DEFINE q == a \div W
             r == a % W
  <1>1. q \in Nat /\ r \in 0..(W - 1) /\ a = W * q + r /\ W \in Nat /\ W > 3
    BY Division, WordsAndBytes
  <1> HIDE DEF q, r
  <1>2. q > 0
    <2>1. CASE q = 0
      BY <2>1, <1>1
    <2> QED
      BY <2>1, <1>1
  <1>3. W * q >= 2 * q /\ W * q = q + q * (W - 1)
    BY <1>1, <1>2
  <1> QED
    BY <1>1, <1>2, <1>3 DEF q, r

\* A word congruent to a positive total is its one's-complement sum.
LEMMA Representative ==
    ASSUME NEW s \in Nat, s < W, NEW c \in Nat, NEW total \in Nat,
           total = s + c * (W - 1), total > 0 => s > 0
    PROVE  s = OnesComplementSum(total)
  <1> DEFINE m == W - 1
  <1>1. m \in Nat /\ m > 2
    BY WordsAndBytes
  <1> HIDE DEF m
  <1>2. CASE total = 0
    <2>1. c * m >= 0
      BY <1>1
    <2> QED
      BY <1>1, <1>2, <2>1 DEF OnesComplementSum, m
  <1>3. CASE total > 0
    <2>1. s - 1 \in Nat /\ s - 1 < m /\ total - 1 = c * m + (s - 1)
      BY <1>1, <1>3, WordsAndBytes DEF m
    <2>2. (total - 1) % m = s - 1
      BY <1>1, <2>1, DivisionUnique
    <2> QED
      BY <1>3, <2>2 DEF OnesComplementSum, m
  <1> QED
    BY <1>2, <1>3

-----------------------------------------------------------------------------
(* Sums of words.                                                           *)

LEMMA WordIsNat ==
    ASSUME NEW d \in Message, NEW j \in 1..MaxWords
    PROVE  WordAt(d, j) \in 0..(W - 1)
  <1>1. MaxWords \in Nat /\ 2 * MaxWords <= MaxLen + 1
    BY ChecksumAssumption DEF MaxWords
  <1>2. d[2 * j - 1] \in 0..(B - 1) /\ d[2 * j] \in 0..(B - 1)
    BY <1>1, WordsAndBytes DEF Message
  <1>3. ASSUME NEW x \in 0..(B - 1), NEW y \in 0..(B - 1)
        PROVE  x + B * y \in 0..(B * B - 1)
    <2>1. B * y <= B * (B - 1) /\ B * y \in Nat
      BY WordsAndBytes
    <2> QED
      BY <2>1, WordsAndBytes
  <1> QED
    BY <1>2, <1>3 DEF WordAt, W

\* The recursive definition has a solution, built word by word.
LEMMA SumExists ==
    ASSUME NEW d \in Message
    PROVE  \E g : g = [j \in 0..MaxWords |->
                         IF j = 0 THEN 0 ELSE g[j - 1] + WordAt(d, j)]
  <1> DEFINE IsSum(g, m) == \A j \in 1..m : g[j] = g[j - 1] + WordAt(d, j)
             Has(m) == \E g \in [0..m -> Nat] : g[0] = 0 /\ IsSum(g, m)
             T == {m \in Nat : Has(m)}
  <1>1. MaxWords \in Nat
    BY ChecksumAssumption DEF MaxWords
  <1>2. Has(0)
    <2> DEFINE z == [j \in 0..0 |-> 0]
    <2>1. z \in [0..0 -> Nat] /\ z[0] = 0 /\ IsSum(z, 0)
      OBVIOUS
    <2> QED
      BY <2>1
  <1>3. ASSUME NEW m \in 1..MaxWords, Has(m - 1)
        PROVE  Has(m)
    <2>1. PICK g \in [0..(m - 1) -> Nat] : g[0] = 0 /\ IsSum(g, m - 1)
      BY <1>3
    <2> DEFINE h == [j \in 0..m |-> IF j = m THEN g[m - 1] + WordAt(d, m) ELSE g[j]]
    <2>2. WordAt(d, m) \in Nat
      BY WordIsNat, WordsAndBytes
    <2>3. h \in [0..m -> Nat] /\ h[0] = 0
      BY <1>1, <2>1, <2>2
    <2>4. IsSum(h, m)
      <3> SUFFICES ASSUME NEW j \in 1..m PROVE h[j] = h[j - 1] + WordAt(d, j)
        OBVIOUS
      <3>1. CASE j = m
        BY <1>1, <3>1
      <3>2. CASE j # m
        BY <1>1, <2>1, <3>2
      <3> QED
        BY <3>1, <3>2
    <2> HIDE DEF h
    <2> QED
      BY <2>3, <2>4
  <1>4. Has(MaxWords)
    <2> HIDE DEF Has
    <2>1. 0 \in T /\ \A m \in 1..MaxWords : m - 1 \in T => m \in T
      BY <1>1, <1>2, <1>3
    <2> HIDE DEF T
    <2>2. MaxWords \in T
      BY <1>1, <2>1, InductionUpTo
    <2> QED
      BY <2>2 DEF T
  <1>5. PICK g \in [0..MaxWords -> Nat] : g[0] = 0 /\ IsSum(g, MaxWords)
    BY <1>4
  <1>6. \A j \in 0..MaxWords :
          g[j] = IF j = 0 THEN 0 ELSE g[j - 1] + WordAt(d, j)
    BY <1>1, <1>5
  <1>7. g = [j \in 0..MaxWords |->
               IF j = 0 THEN 0 ELSE g[j - 1] + WordAt(d, j)]
    BY <1>5, <1>6
  <1> QED
    BY <1>7

\* The recurrence.
LEMMA SumStep ==
    ASSUME NEW d \in Message
    PROVE  /\ SumOf(d, 0) = 0
           /\ \A n \in 1..MaxWords : SumOf(d, n) = SumOf(d, n - 1) + WordAt(d, n)
  <1> DEFINE h == CHOOSE g : g = [j \in 0..MaxWords |->
                         IF j = 0 THEN 0 ELSE g[j - 1] + WordAt(d, j)]
  <1>1. h = [j \in 0..MaxWords |-> IF j = 0 THEN 0 ELSE h[j - 1] + WordAt(d, j)]
    BY SumExists, Zenon
  <1>2. \A n : SumOf(d, n) = h[n]
    BY DEF SumOf
  <1> HIDE DEF h
  <1>3. MaxWords \in Nat
    BY ChecksumAssumption DEF MaxWords
  <1>4. \A n \in 0..MaxWords :
          h[n] = IF n = 0 THEN 0 ELSE h[n - 1] + WordAt(d, n)
    BY <1>1
  <1>5. 0 \in 0..MaxWords /\ \A n \in 1..MaxWords : n \in 0..MaxWords /\ n # 0
    BY <1>3
  <1> QED
    BY <1>2, <1>4, <1>5

\* A sum of n words is at most n words of all ones.
LEMMA SumBound ==
    ASSUME NEW d \in Message
    PROVE  \A n \in 0..MaxWords : SumOf(d, n) \in 0..(n * (W - 1))
  <1> DEFINE T == {n \in Nat : SumOf(d, n) \in 0..(n * (W - 1))}
  <1>1. MaxWords \in Nat
    BY ChecksumAssumption DEF MaxWords
  <1>2. 0 \in T
    BY SumStep, WordsAndBytes
  <1>3. ASSUME NEW m \in 1..MaxWords, m - 1 \in T
        PROVE  m \in T
    <2>1. WordAt(d, m) \in 0..(W - 1) /\ SumOf(d, m) = SumOf(d, m - 1) + WordAt(d, m)
      BY <1>1, WordIsNat, SumStep
    <2>2. m * (W - 1) = (m - 1) * (W - 1) + (W - 1) /\ (m - 1) * (W - 1) \in Nat
      BY <1>1, WordsAndBytes
    <2> QED
      BY <1>1, <1>3, <2>1, <2>2, WordsAndBytes
  <1> HIDE DEF T
  <1>4. \A n \in 0..MaxWords : n \in T
    BY <1>1, <1>2, <1>3, InductionUpTo
  <1> QED
    BY <1>4 DEF T

\* A word that is put in place is there, and no other word changes.
LEMMA WordPlaced ==
    ASSUME NEW d \in Message, NEW j \in 1..MaxWords, NEW w \in 0..(W - 1)
    PROVE  /\ WithWord(d, j, w) \in Message
           /\ WordAt(WithWord(d, j, w), j) = w
           /\ \A i \in 1..MaxWords :
                i # j => WordAt(WithWord(d, j, w), i) = WordAt(d, i)
  <1>1. MaxWords \in Nat /\ 2 * MaxWords <= MaxLen + 1
    BY ChecksumAssumption DEF MaxWords
  <1>2. w = B * (w \div B) + (w % B) /\ w % B \in 0..(B - 1) /\ w \div B \in Nat
    BY Division, WordsAndBytes
  <1>3. w \div B < B
    <2>1. SUFFICES ASSUME w \div B >= B PROVE FALSE
      BY <1>2, WordsAndBytes
    <2>2. B * (w \div B) >= B * B
      BY <1>2, <2>1, WordsAndBytes
    <2> QED
      BY <1>2, <2>2, WordsAndBytes
  <1>4. 2 * j - 1 \in 1..(MaxLen + 1) /\ 2 * j \in 1..(MaxLen + 1) /\ 2 * j - 1 # 2 * j
    BY <1>1, WordsAndBytes
  <1> DEFINE e == WithWord(d, j, w)
  <1>5. e \in Message /\ e[2 * j - 1] = w % B /\ e[2 * j] = w \div B
    BY <1>2, <1>3, <1>4, WordsAndBytes DEF WithWord, Message
  <1>6. ASSUME NEW i \in 1..MaxWords, i # j
        PROVE  e[2 * i - 1] = d[2 * i - 1] /\ e[2 * i] = d[2 * i]
    <2>1. /\ 2 * i - 1 \in 1..(MaxLen + 1) /\ 2 * i \in 1..(MaxLen + 1)
          /\ 2 * i # 2 * j /\ 2 * i # 2 * j - 1
          /\ 2 * i - 1 # 2 * j /\ 2 * i - 1 # 2 * j - 1
      BY <1>1, <1>6, WordsAndBytes
    <2> QED
      BY <2>1 DEF WithWord, Message
  <1> HIDE DEF e
  <1>7. WordAt(e, j) = w
    BY <1>2, <1>5, WordsAndBytes DEF WordAt
  <1>8. \A i \in 1..MaxWords : i # j => WordAt(e, i) = WordAt(d, i)
    BY <1>6 DEF WordAt
  <1> QED
    BY <1>5, <1>7, <1>8 DEF e

\* The sum changes by as much as the word.
LEMMA SumOfPlaced ==
    ASSUME NEW d \in Message, NEW j \in 1..MaxWords, NEW w \in 0..(W - 1)
    PROVE  \A n \in 0..MaxWords :
             SumOf(WithWord(d, j, w), n)
               = SumOf(d, n) + (IF j <= n THEN w - WordAt(d, j) ELSE 0)
  <1> DEFINE e == WithWord(d, j, w)
             change == w - WordAt(d, j)
             T == {n \in Nat : SumOf(e, n) = SumOf(d, n) + (IF j <= n THEN change ELSE 0)}
  <1>1. MaxWords \in Nat
    BY ChecksumAssumption DEF MaxWords
  <1>2. /\ e \in Message /\ WordAt(e, j) = w
        /\ \A i \in 1..MaxWords : i # j => WordAt(e, i) = WordAt(d, i)
    BY WordPlaced
  <1>3. WordAt(d, j) \in Nat /\ change \in Int
    BY WordIsNat, WordsAndBytes
  <1> HIDE DEF e
  <1>4. 0 \in T
    BY <1>2, SumStep
  <1>5. ASSUME NEW m \in 1..MaxWords, m - 1 \in T
        PROVE  m \in T
    <2>1. /\ SumOf(d, m) = SumOf(d, m - 1) + WordAt(d, m)
          /\ SumOf(e, m) = SumOf(e, m - 1) + WordAt(e, m)
      BY <1>2, SumStep
    <2>2. m - 1 \in 0..MaxWords
      BY <1>1
    <2>3. SumOf(d, m - 1) \in Nat /\ WordAt(d, m) \in Nat
      BY <2>2, SumBound, WordIsNat, WordsAndBytes
    <2>4. CASE m = j
      BY <1>2, <1>3, <1>5, <2>1, <2>3, <2>4, WordsAndBytes
    <2>5. CASE m # j
      BY <1>1, <1>2, <1>3, <1>5, <2>1, <2>3, <2>5
    <2> QED
      BY <2>4, <2>5
  <1> HIDE DEF T
  <1>6. \A n \in 0..MaxWords : n \in T
    BY <1>1, <1>4, <1>5, InductionUpTo
  <1> QED
    BY <1>6 DEF T, e
-----------------------------------------------------------------------------
(* The function.                                                            *)

\* What an odd length adds to the sum of the words, and what the sum is folded from.
LastWord == IF len % 2 = 1 THEN WordAt(data, Words + 1) * B ELSE 0

Total == SumOf(data, Words) + LastWord

\* A sum stands for a total it is congruent to; only zero stands for zero.
StandsFor(s, total) ==
    /\ \E c \in Nat : total = s + c * (W - 1)
    /\ total > 0 => s > 0

\* How much the loops have added.
Added ==
    /\ phase = "add" => sum = SumOf(data, k - 1)
    /\ phase = "odd" => len % 2 = 1 /\ k = Words + 1 /\ sum = SumOf(data, Words)
    /\ phase \in {"fold", "done"} => StandsFor(sum, Total)

\* The message that is summed: before it is sent its checksum is zero; what was
\* sent adds up to zero of one's-complement arithmetic, and one word may have changed.
Journey ==
    /\ sent = <<>> => WordAt(data, field) = 0
    /\ sent # <<>> =>
         /\ len % 2 = 0
         /\ \E c \in Nat : SumOf(sent, Words) = (c + 1) * (W - 1)
         /\ \/ data = sent
            \/ \E j \in 1..Words, w \in 0..(W - 1) : data = WithWord(sent, j, w)

SumInv == ChecksumTypeOK /\ Added /\ Journey

LEMMA FieldInRoom ==
    ASSUME len \in 2..MaxLen
    PROVE  1..Words \subseteq 1..MaxWords
  BY WordCount

LEMMA TotalBound ==
    ASSUME ChecksumTypeOK
    PROVE  Total \in 0..(W * W - 1) /\ SumOf(data, Words) \in Nat /\ LastWord \in Nat
  <1>1. data \in Message /\ len \in 2..MaxLen
    BY DEF ChecksumTypeOK, Message
  <1>2. Words \in 0..MaxWords /\ 2 * Words < W /\ len % 2 = 1 => Words + 1 \in 1..MaxWords
    BY <1>1, WordCount, WordsAndBytes
  <1>3. SumOf(data, Words) \in 0..(Words * (W - 1))
    BY <1>1, WordCount, SumBound
  <1>4. LastWord \in 0..((W - 1) * B)
    <2>1. CASE len % 2 = 1
      <3>1. WordAt(data, Words + 1) \in 0..(W - 1)
        BY <1>1, <2>1, WordCount, WordIsNat
      <3> DEFINE x == WordAt(data, Words + 1)
      <3>2. LastWord = x * B
        BY <2>1 DEF LastWord
      <3> HIDE DEF x
      <3> QED
        BY <3>1, <3>2, WordsAndBytes DEF x
    <2>2. CASE len % 2 # 1
      <3>1. LastWord = 0 /\ (W - 1) * B \in Nat
        BY <2>2, WordsAndBytes DEF LastWord
      <3> QED
        BY <3>1
    <2> QED
      BY <2>1, <2>2
  <1>5. Words * (W - 1) + (W - 1) * B < W * W
    <2>1. Words + B <= W
      <3>1. 2 * Words < W /\ 2 * B <= W
        BY <1>1, WordCount, WordsAndBytes
      <3> QED
        BY <3>1, <1>1, WordCount, WordsAndBytes
    <2>2. (Words + B) * (W - 1) <= W * (W - 1)
      BY <2>1, <1>1, WordCount, WordsAndBytes
    <2>3. W * (W - 1) < W * W
      BY WordsAndBytes
    <2>4. (Words + B) * (W - 1) = Words * (W - 1) + (W - 1) * B
      BY <1>1, WordCount, WordsAndBytes
    <2> QED
      BY <2>2, <2>3, <2>4, <1>1, WordCount, WordsAndBytes
  <1>6. Words * (W - 1) \in Nat /\ (W - 1) * B \in Nat /\ W * W \in Nat
    BY <1>1, WordCount, WordsAndBytes
  <1> QED
    BY <1>3, <1>4, <1>5, <1>6 DEF Total

\* A part of the words and the words a step leaves alone.
LEMMA SameMessage ==
    ASSUME UNCHANGED <<data, len>>
    PROVE  Words' = Words /\ Total' = Total
  BY DEF Words, Total, LastWord

LEMMA SameJourney ==
    ASSUME Journey, UNCHANGED <<data, len, field, sent>>
    PROVE  Journey'
  BY DEF Journey, Words

LEMMA SumInitEstablishes == ChecksumInit => SumInv
  <1> SUFFICES ASSUME ChecksumInit PROVE SumInv
    OBVIOUS
  <1>1. len \in 2..MaxLen /\ field \in 1..Words /\ field \in 1..MaxWords
    BY FieldInRoom DEF ChecksumInit
  <1>2. PICK d \in [1..(MaxLen + 1) -> Byte] : data = Cleared(d, field)
    BY DEF ChecksumInit
  <1>3. d \in Message /\ 0 \in 0..(W - 1)
    <2>1. \A x \in 1..(MaxLen + 1) : d[x] \in 0..(B - 1)
      BY ChecksumAssumption
    <2> QED
      BY <2>1, WordsAndBytes DEF Message
  <1>4. data \in Message /\ WordAt(data, field) = 0
    BY <1>1, <1>2, <1>3, WordPlaced DEF Cleared
  <1>5. ChecksumTypeOK
    <2>1. 0 \in 0..(W * W - 1) /\ 1 \in 1..(Words + 1)
      BY <1>1, WordCount, WordsAndBytes
    <2> QED
      BY <1>1, <1>4, <2>1 DEF ChecksumInit, ChecksumTypeOK, Message
  <1>6. Added
    BY <1>4, SumStep DEF ChecksumInit, Added
  <1>7. Journey
    BY <1>4 DEF ChecksumInit, Journey
  <1> QED
    BY <1>5, <1>6, <1>7 DEF SumInv

LEMMA AddWordKeeps == SumInv /\ AddWord => SumInv'
  <1> SUFFICES ASSUME SumInv, AddWord PROVE SumInv'
    OBVIOUS
  <1>1. data \in Message /\ len \in 2..MaxLen /\ k \in 1..Words /\ Words \in Nat
    <2>1. data \in Message /\ len \in 2..MaxLen /\ k \in 1..(Words + 1) /\ k <= Words
      BY DEF SumInv, ChecksumTypeOK, Message, AddWord, WordsLeft
    <2> QED
      BY <2>1, WordCount
  <1>2. k \in 1..MaxWords /\ k \in 0..MaxWords
    BY <1>1, WordCount
  <1>3. sum' = SumOf(data, k) /\ k' - 1 = k
    BY <1>1, <1>2, SumStep DEF SumInv, Added, AddWord
  <1>4. Added'
    BY <1>3 DEF AddWord, Added
  <1>5. sum' \in 0..(W * W - 1)
    <2>1. sum' \in 0..(k * (W - 1))
      BY <1>1, <1>2, <1>3, SumBound
    <2>2. k <= W
      BY <1>1, WordCount, WordsAndBytes
    <2>3. k * (W - 1) <= W * (W - 1) /\ W * (W - 1) < W * W
      BY <1>1, <2>2, WordsAndBytes
    <2>4. k * (W - 1) \in Nat /\ W * (W - 1) \in Nat /\ W * W \in Nat
      BY <1>1, WordsAndBytes
    <2> QED
      BY <2>1, <2>3, <2>4
  <1>6. ChecksumTypeOK'
    BY <1>1, <1>5, SameMessage DEF SumInv, ChecksumTypeOK, AddWord
  <1> QED
    BY <1>4, <1>6, SameJourney DEF SumInv, AddWord

LEMMA AddEndsKeeps == SumInv /\ AddEnds => SumInv'
  <1> SUFFICES ASSUME SumInv, AddEnds PROVE SumInv'
    OBVIOUS
  <1>1. ChecksumTypeOK /\ len \in 2..MaxLen /\ k \in 1..(Words + 1) /\ ~ (k <= Words)
    BY DEF SumInv, ChecksumTypeOK, AddEnds, WordsLeft
  <1>2. k = Words + 1 /\ k - 1 = Words
    BY <1>1, WordCount
  <1>3. sum = SumOf(data, Words) /\ sum \in Nat
    BY <1>1, <1>2, TotalBound DEF SumInv, Added, AddEnds
  <1>4. CASE len % 2 = 1
    <2>1. phase' = "odd"
      BY <1>4 DEF AddEnds
    <2>2. Added' /\ ChecksumTypeOK'
      BY <1>1, <1>2, <1>3, <1>4, <2>1, SameMessage DEF AddEnds, Added, ChecksumTypeOK
    <2> QED
      BY <2>2, SameJourney DEF SumInv, AddEnds
  <1>5. CASE len % 2 # 1
    <2>1. phase' = "fold" /\ Total = sum
      BY <1>3, <1>5 DEF AddEnds, Total, LastWord
    <2>2. StandsFor(sum, Total)
      <3>1. sum = sum + 0 * (W - 1)
        BY <1>3, WordsAndBytes
      <3> QED
        BY <2>1, <3>1 DEF StandsFor
    <2>3. Added' /\ ChecksumTypeOK'
      BY <1>1, <2>1, <2>2, SameMessage DEF AddEnds, Added, ChecksumTypeOK, StandsFor
    <2> QED
      BY <2>3, SameJourney DEF SumInv, AddEnds
  <1> QED
    BY <1>4, <1>5

LEMMA AddOddKeeps == SumInv /\ AddOdd => SumInv'
  <1> SUFFICES ASSUME SumInv, AddOdd PROVE SumInv'
    OBVIOUS
  <1>1. ChecksumTypeOK /\ len % 2 = 1 /\ k = Words + 1 /\ sum = SumOf(data, Words)
    BY DEF SumInv, Added, AddOdd
  <1>2. sum' = Total /\ phase' = "fold"
    BY <1>1 DEF AddOdd, OddWord, Total, LastWord
  <1>3. StandsFor(sum', Total)
    <2>1. Total = Total + 0 * (W - 1)
      BY <1>1, TotalBound, WordsAndBytes
    <2> QED
      BY <1>2, <2>1 DEF StandsFor
  <1>4. Added' /\ ChecksumTypeOK'
    BY <1>1, <1>2, <1>3, TotalBound, SameMessage DEF AddOdd, Added, ChecksumTypeOK, StandsFor
  <1> QED
    BY <1>4, SameJourney DEF SumInv, AddOdd

LEMMA FoldKeeps == SumInv /\ Fold => SumInv'
  <1> SUFFICES ASSUME SumInv, Fold PROVE SumInv'
    OBVIOUS
  <1>1. ChecksumTypeOK /\ StandsFor(sum, Total) /\ sum \in 0..(W * W - 1)
    BY DEF SumInv, Added, Fold, ChecksumTypeOK
  <1>2. Total \in Nat /\ sum \in Nat /\ W * W \in Nat
    BY <1>1, TotalBound, WordsAndBytes
  <1>3. CASE Carries
    <2>1. sum' = Folded /\ phase' = "fold"
      BY <1>3 DEF Fold
    <2> DEFINE q == sum \div W
    <2>2. /\ sum' \in Nat /\ sum' > 0 /\ sum' < sum
          /\ q \in Nat /\ sum = sum' + q * (W - 1)
      BY <1>2, <1>3, <2>1, FoldedIs DEF Carries, Folded
    <2>3. PICK c \in Nat : Total = sum + c * (W - 1)
      BY <1>1 DEF StandsFor
    <2> HIDE DEF q
    <2>4. Total = sum' + (q + c) * (W - 1) /\ q + c \in Nat
      BY <2>2, <2>3, WordsAndBytes
    <2>5. StandsFor(sum', Total)
      BY <2>2, <2>4 DEF StandsFor
    <2>6. sum' \in 0..(W * W - 1)
      BY <1>1, <1>2, <2>2
    <2>7. Added' /\ ChecksumTypeOK'
      BY <1>1, <2>1, <2>5, <2>6, SameMessage DEF Fold, Added, ChecksumTypeOK, StandsFor
    <2> QED
      BY <2>7, SameJourney DEF SumInv, Fold
  <1>4. CASE ~ Carries
    <2>1. sum' = sum /\ phase' = "done" /\ sum < W
      BY <1>2, <1>4, WordsAndBytes DEF Fold, Carries
    <2>2. Added' /\ ChecksumTypeOK'
      BY <1>1, <2>1, SameMessage DEF Fold, Added, ChecksumTypeOK, StandsFor
    <2> QED
      BY <2>2, SameJourney DEF SumInv, Fold
  <1> QED
    BY <1>3, <1>4

\* The result of a computation that ended is the complement of the total's sum.
LEMMA ResultIs ==
    ASSUME SumInv, phase = "done"
    PROVE  /\ sum = OnesComplementSum(Total) /\ sum \in 0..(W - 1)
           /\ Result = (W - 1) - sum /\ Result \in 0..(W - 1)
  <1>1. sum \in Nat /\ sum < W /\ Total \in Nat /\ StandsFor(sum, Total)
    BY TotalBound, WordsAndBytes DEF SumInv, Added, ChecksumTypeOK
  <1>2. sum = OnesComplementSum(Total)
    BY <1>1, Representative DEF StandsFor
  <1> QED
    BY <1>1, <1>2, WordsAndBytes DEF Result

LEMMA SendKeeps == SumInv /\ SendAndReceive => SumInv'
  <1> SUFFICES ASSUME SumInv, SendAndReceive PROVE SumInv'
    OBVIOUS
  <1> DEFINE d == WithWord(data, field, Result)
  <1>1. /\ ChecksumTypeOK /\ data \in Message /\ len \in 2..MaxLen /\ field \in 1..Words
        /\ phase = "done" /\ len % 2 = 0 /\ WordAt(data, field) = 0
    BY DEF SumInv, ChecksumTypeOK, SendAndReceive, Journey, Message
  <1>2. field \in 1..MaxWords /\ Words \in 0..MaxWords /\ Words \in Nat
    BY <1>1, WordCount
  <1>3. Result \in 0..(W - 1)
    BY <1>1, ResultIs
  <1>4. d \in Message
    BY <1>1, <1>2, <1>3, WordPlaced
  <1>5. sent' = d /\ Words' = Words /\ phase' = "add" /\ k' = 1 /\ sum' = 0 /\ UNCHANGED <<len, field>>
    BY DEF SendAndReceive, Starts, Words
  <1>6. data' = d \/ \E j \in 1..Words, w \in 0..(W - 1) : data' = WithWord(d, j, w)
    <2>1. ASSUME NEW lo \in Byte, NEW hi \in Byte
          PROVE  lo + B * hi \in 0..(W - 1)
      <3>1. lo \in 0..(B - 1) /\ hi \in 0..(B - 1)
        BY ChecksumAssumption
      <3>2. B * hi <= B * (B - 1) /\ B * hi \in Nat
        BY <3>1, WordsAndBytes
      <3> QED
        BY <3>1, <3>2, WordsAndBytes
    <2> QED
      BY <2>1 DEF SendAndReceive
  <1>7. data' \in Message
    <2>1. ASSUME NEW j \in 1..Words, NEW w \in 0..(W - 1)
          PROVE  WithWord(d, j, w) \in Message
      BY <1>1, <1>4, FieldInRoom, WordPlaced
    <2> QED
      BY <1>4, <1>6, <2>1
  <1>8. \E c \in Nat : SumOf(d, Words) = (c + 1) * (W - 1)
    <2>1. Total = SumOf(data, Words) /\ Total \in Nat
      BY <1>1, TotalBound DEF Total, LastWord
    <2>2. SumOf(d, Words) = Total + Result
      BY <1>1, <1>2, <1>3, <2>1, SumOfPlaced, WordsAndBytes
    <2>3. PICK c \in Nat : Total = sum + c * (W - 1)
      BY <1>1 DEF SumInv, Added, StandsFor
    <2>4. sum + Result = W - 1 /\ sum \in Nat /\ Result \in Nat
      BY <1>1, ResultIs, WordsAndBytes
    <2>5. SumOf(d, Words) = (c + 1) * (W - 1)
      BY <2>2, <2>3, <2>4, WordsAndBytes
    <2> QED
      BY <2>5
  <1> HIDE DEF d
  <1>9. d # <<>>
    <2>1. DOMAIN d = 1..(MaxLen + 1) /\ 1 \in 1..(MaxLen + 1)
      BY <1>4, WordsAndBytes DEF Message
    <2>2. DOMAIN << >> = {}
      OBVIOUS
    <2> QED
      BY <2>1, <2>2
  <1>10. Journey'
    BY <1>1, <1>5, <1>6, <1>8, <1>9 DEF Journey
  <1>11. Added'
    BY <1>5, <1>7, SumStep DEF Added
  <1>12. ChecksumTypeOK'
    <2>1. 0 \in 0..(W * W - 1) /\ 1 \in 1..(Words + 1)
      BY <1>2, WordsAndBytes
    <2> QED
      BY <1>1, <1>4, <1>5, <1>7, <2>1 DEF ChecksumTypeOK, Message
  <1> QED
    BY <1>10, <1>11, <1>12 DEF SumInv

LEMMA SumNext == SumInv /\ [ChecksumNext]_sumVars => SumInv'
  <1> SUFFICES ASSUME SumInv, [ChecksumNext]_sumVars PROVE SumInv'
    OBVIOUS
  <1>1. CASE UNCHANGED sumVars
    BY <1>1 DEF sumVars, SumInv, ChecksumTypeOK, Added, Journey, StandsFor,
                Total, LastWord, Words
  <1> QED
    BY <1>1, AddWordKeeps, AddEndsKeeps, AddOddKeeps, FoldKeeps, SendKeeps
       DEF ChecksumNext

LEMMA SumInductive == ChecksumSpec => []SumInv
  BY SumInitEstablishes, SumNext, PTL DEF ChecksumSpec

-----------------------------------------------------------------------------
\* The loops stay inside the message, and neither the sum nor its folding ever
\* exceeds 32 bits, for every message whose length fits 16 bits (sr_ip.c:224-241).
THEOREM ChecksumTypeCorrect == ChecksumSpec => []ChecksumTypeOK
  BY SumInductive, PTL DEF SumInv

\* The folding loop makes the sum smaller at every turn (sr_ip.c:241).
THEOREM FoldCorrect == ChecksumSpec => FoldShrinks
  <1>1. SumInv /\ [ChecksumNext]_sumVars
          => (phase = "fold" /\ phase' = "fold" => sum' < sum) \/ UNCHANGED sumVars
    <2> SUFFICES ASSUME SumInv, ChecksumNext, phase = "fold", phase' = "fold"
                 PROVE  sum' < sum
      OBVIOUS
    <2>1. Fold
      BY DEF ChecksumNext, AddWord, AddEnds, AddOdd, SendAndReceive
    <2>2. Carries /\ sum' = Folded
      BY <2>1 DEF Fold
    <2>3. sum \in Nat /\ sum >= W
      BY <2>2, WordsAndBytes DEF SumInv, ChecksumTypeOK, Carries
    <2> QED
      BY <2>2, <2>3, FoldedIs DEF Folded
  <1> QED
    BY <1>1, SumInductive, PTL DEF ChecksumSpec, FoldShrinks

\* Over an even number of bytes the function is the checksum of RFC 1071, for every
\* message (sr_ip.c:224-245).
THEOREM Rfc1071Correct == ChecksumSpec => []IsRfc1071
  <1>1. SumInv => IsRfc1071
    <2> SUFFICES ASSUME SumInv, phase = "done", len % 2 = 0
                 PROVE  Result = (W - 1) - OnesComplementSum(SumOf(data, Words))
      BY DEF IsRfc1071
    <2>1. Total = SumOf(data, Words)
      BY TotalBound DEF Total, LastWord, SumInv
    <2> QED
      BY <2>1, ResultIs
  <1> QED
    BY <1>1, SumInductive, PTL

\* Over an odd number of bytes it is that of a message whose last byte and the byte
\* past it have changed places (sr_ip.c:235-238): the word shifted up by
\* a byte loses its upper byte to the carries, which come back as the lower one.
THEOREM OddCorrect == ChecksumSpec => []OddSwapsBytes
  <1>1. SumInv => OddSwapsBytes
    <2> SUFFICES ASSUME SumInv, phase = "done", len % 2 = 1
                 PROVE  Result = (W - 1)
                          - OnesComplementSum(SumOf(data, Words) + LastWordSwapped(data))
      BY DEF OddSwapsBytes
    <2> DEFINE lo == data[2 * (Words + 1) - 1]
               hi == data[2 * (Words + 1)]
               words == SumOf(data, Words)
               swapped == LastWordSwapped(data)
    <2>1. /\ ChecksumTypeOK /\ data \in Message /\ len \in 2..MaxLen
          /\ Words \in Nat /\ 2 * Words + 2 <= MaxLen + 1
      <3>1. ChecksumTypeOK /\ data \in Message /\ len \in 2..MaxLen
        BY DEF SumInv, ChecksumTypeOK, Message
      <3> QED
        BY <3>1, WordCount, WordsAndBytes
    <2>2. 2 * (Words + 1) - 1 = 2 * Words + 1 /\ 2 * (Words + 1) = 2 * Words + 2
      BY <2>1
    <2>3. lo \in 0..(B - 1) /\ hi \in 0..(B - 1)
      <3>1. 2 * (Words + 1) - 1 \in 1..(MaxLen + 1) /\ 2 * (Words + 1) \in 1..(MaxLen + 1)
        BY <2>1, WordsAndBytes
      <3> QED
        BY <2>1, <3>1 DEF Message
    <2>4. swapped = hi + B * lo
      BY <2>2 DEF LastWordSwapped
    <2>5. words \in Nat /\ Total = words + (lo + B * hi) * B
      BY <2>1, TotalBound DEF Total, LastWord, WordAt
    <2> HIDE DEF lo, hi, words, swapped
    <2>6. (lo + B * hi) * B = swapped + hi * (W - 1)
      BY <2>3, <2>4, WordsAndBytes
    <2>7. swapped \in Nat /\ hi \in Nat /\ hi <= swapped
      BY <2>3, <2>4, WordsAndBytes
    <2>8. PICK c \in Nat : Total = sum + c * (W - 1)
      BY DEF SumInv, Added, StandsFor
    <2>9. sum \in Nat /\ sum < W /\ sum = OnesComplementSum(Total)
      BY ResultIs, WordsAndBytes
    <2>10. words + swapped = sum + (c - hi) * (W - 1)
      <3>1. (c - hi) * (W - 1) = c * (W - 1) - hi * (W - 1)
        BY <2>7, WordsAndBytes
      <3>2. c * (W - 1) \in Nat /\ hi * (W - 1) \in Nat
        BY <2>7, WordsAndBytes
      <3>3. words + (swapped + hi * (W - 1)) = sum + c * (W - 1)
        BY <2>5, <2>6, <2>8
      <3> QED
        BY <2>5, <2>7, <2>9, <3>1, <3>2, <3>3
    <2>11. words + swapped > 0 => sum > 0
      <3>1. words + swapped > 0 => Total > 0
        <4>1. hi * (W - 1) \in Nat
          BY <2>7, WordsAndBytes
        <4> QED
          BY <2>5, <2>6, <2>7, <4>1
      <3> QED
        BY <3>1 DEF SumInv, Added, StandsFor
    <2>12. c - hi \in Nat
      <3>1. SUFFICES ASSUME c - hi < 0 PROVE FALSE
        BY <2>7, <2>8
      <3>2. (c - hi) * (W - 1) <= 0 - (W - 1)
        BY <2>7, <2>8, <3>1, WordsAndBytes
      <3>3. words + swapped <= 0 \/ words + swapped > 0
        BY <2>5, <2>7
      <3>4. words + swapped <= sum - (W - 1)
        BY <2>5, <2>7, <2>9, <2>10, <3>2, WordsAndBytes
      <3>5. sum = W - 1 /\ words = 0 /\ swapped = 0
        BY <2>5, <2>7, <2>9, <3>4, WordsAndBytes
      <3>6. hi = 0 /\ Total = 0
        BY <2>5, <2>6, <2>7, <3>5, WordsAndBytes
      <3> QED
        BY <2>9, <3>5, <3>6, WordsAndBytes DEF OnesComplementSum
    <2>13. words + swapped \in Nat
      BY <2>5, <2>7
    <2>14. sum = OnesComplementSum(words + swapped)
      BY <2>9, <2>10, <2>11, <2>12, <2>13, Representative
    <2> QED
      BY <2>14, ResultIs DEF words, swapped
  <1> QED
    BY <1>1, SumInductive, PTL

\* Only a multiple of W - 1 that is not zero has the check zero.
LEMMA ZeroCheck ==
    ASSUME SumInv, phase = "done", sent # <<>>
    PROVE  /\ Total = SumOf(data, Words) /\ Total \in Nat
           /\ Result = 0 <=> \E c \in Nat : Total = (c + 1) * (W - 1)
  <1>1. len % 2 = 0 /\ ChecksumTypeOK
    BY DEF SumInv, Journey
  <1>2. Total = SumOf(data, Words) /\ Total \in Nat
    BY <1>1, TotalBound DEF Total, LastWord
  <1>3. sum \in Nat /\ sum < W /\ Result = (W - 1) - sum /\ sum = OnesComplementSum(Total)
    BY ResultIs, WordsAndBytes
  <1>4. PICK a \in Nat : Total = sum + a * (W - 1)
    BY DEF SumInv, Added, StandsFor
  <1>5. ASSUME Result = 0
        PROVE  \E c \in Nat : Total = (c + 1) * (W - 1)
    <2>1. Total = (a + 1) * (W - 1)
      BY <1>3, <1>4, <1>5, WordsAndBytes
    <2> QED
      BY <2>1
  <1>6. ASSUME NEW c \in Nat, Total = (c + 1) * (W - 1)
        PROVE  Result = 0
    <2>1. Total = (W - 1) + c * (W - 1) /\ W - 1 \in Nat /\ W - 1 < W /\ W - 1 > 0
      BY <1>6, WordsAndBytes
    <2>2. W - 1 = OnesComplementSum(Total)
      BY <1>2, <2>1, Representative
    <2> QED
      BY <1>3, <2>2
  <1> QED
    BY <1>2, <1>5, <1>6

\* What arrives unchanged is accepted (sr_router.c:106), whatever it carries.
THEOREM AcceptedCorrect == ChecksumSpec => []UnchangedAccepted
  <1>1. SumInv => UnchangedAccepted
    <2> SUFFICES ASSUME SumInv, phase = "done", sent # <<>>, data = sent
                 PROVE  Result = 0
      BY DEF UnchangedAccepted
    <2>1. \E c \in Nat : SumOf(data, Words) = (c + 1) * (W - 1)
      BY DEF SumInv, Journey
    <2> QED
      BY <2>1, ZeroCheck
  <1> QED
    BY <1>1, SumInductive, PTL

\* One changed word is refused, unless it changed from one zero of one's-complement
\* arithmetic to the other (sr_router.c:106).
THEOREM RefusedCorrect == ChecksumSpec => []ChangeRefused
  <1>1. SumInv => ChangeRefused
    <2> SUFFICES ASSUME SumInv, phase = "done", sent # <<>>, data # sent, Result = 0
                 PROVE  \E j \in 1..Words : {WordAt(data, j), WordAt(sent, j)} = {0, W - 1}
      BY DEF ChangeRefused
    <2>1. PICK j \in 1..Words, w \in 0..(W - 1) : data = WithWord(sent, j, w)
      BY DEF SumInv, Journey
    <2>2. /\ sent \in Message /\ len \in 2..MaxLen /\ ChecksumTypeOK
          /\ j \in 1..MaxWords /\ Words \in 0..MaxWords /\ j <= Words
      BY <2>1, FieldInRoom, WordCount DEF SumInv, ChecksumTypeOK, Message
    <2> DEFINE v == WordAt(sent, j)
    <2>3. v \in 0..(W - 1) /\ WordAt(data, j) = w
      BY <2>1, <2>2, WordIsNat, WordPlaced
    <2>4. v # w
      <3>1. SUFFICES ASSUME v = w PROVE FALSE
        OBVIOUS
      <3>2. v % B = sent[2 * j - 1] /\ v \div B = sent[2 * j]
        <4>1. sent[2 * j - 1] \in 0..(B - 1) /\ sent[2 * j] \in 0..(B - 1)
          BY <2>2, WordCount, WordsAndBytes DEF Message
        <4> DEFINE x == sent[2 * j - 1]
                   y == sent[2 * j]
        <4>2. v = y * B + x
          BY <4>1, WordsAndBytes DEF WordAt
        <4> HIDE DEF x, y, v
        <4>3. x \in Nat /\ y \in Nat /\ x < B
          BY <4>1, WordsAndBytes DEF x, y
        <4>4. v % B = x /\ v \div B = y
          BY <4>2, <4>3, DivisionUnique, WordsAndBytes
        <4> QED
          BY <4>4 DEF x, y
      <3>3. data = sent
        <4> HIDE DEF v
        <4>1. data = [sent EXCEPT ![2 * j - 1] = v % B, ![2 * j] = v \div B]
          BY <2>1, <3>1 DEF WithWord
        <4> QED
          BY <2>2, <3>2, <4>1 DEF Message
      <3> QED
        BY <3>3
    <2>5. SumOf(data, Words) = SumOf(sent, Words) + (w - v)
      BY <2>1, <2>2, SumOfPlaced
    <2>6. PICK a \in Nat : SumOf(data, Words) = (a + 1) * (W - 1)
      BY ZeroCheck
    <2>7. PICK b \in Nat : SumOf(sent, Words) = (b + 1) * (W - 1)
      BY DEF SumInv, Journey
    <2> HIDE DEF v
    <2>8. w - v = (a - b) * (W - 1)
      BY <2>3, <2>5, <2>6, <2>7, WordsAndBytes
    <2>9. a - b = 1 \/ a - b = -1
      <3>1. a - b \in Int /\ w - v < W /\ v - w < W /\ W > 3
        BY <2>3, WordsAndBytes
      <3>2. ASSUME a - b >= 2 PROVE FALSE
        <4>1. (a - b) * (W - 1) >= 2 * (W - 1)
          BY <3>1, <3>2, WordsAndBytes
        <4> QED
          BY <2>3, <2>8, <3>1, <4>1, WordsAndBytes
      <3>3. ASSUME a - b <= -2 PROVE FALSE
        <4>1. (a - b) * (W - 1) <= (-2) * (W - 1)
          BY <3>1, <3>3, WordsAndBytes
        <4> QED
          BY <2>3, <2>8, <3>1, <4>1, WordsAndBytes
      <3>4. a - b # 0
        BY <2>3, <2>4, <2>8, WordsAndBytes
      <3> QED
        BY <3>1, <3>2, <3>3, <3>4
    <2>10. \/ w = W - 1 /\ v = 0
           \/ w = 0 /\ v = W - 1
      BY <2>3, <2>8, <2>9, WordsAndBytes
    <2> QED
      BY <2>3, <2>10 DEF v
  <1> QED
    BY <1>1, SumInductive, PTL
=============================================================================
