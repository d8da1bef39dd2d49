---------------------------- MODULE FrameProofs ----------------------------
(***************************************************************************)
(* What the two checksums of a frame promise whoever receives it, for      *)
(* messages of every length (src/src/protocol.cc:135-241).                 *)
(*                                                                         *)
(* The argument: folding the carries of a sum back into it keeps its       *)
(* remainder by WordMod - 1, and ends at a word (FoldedSum); so a sum and  *)
(* its complement add up to a multiple of WordMod - 1 (ComplementHolds),   *)
(* which is what the receiver looks for; and the zeros the sender leaves   *)
(* out of the sum add nothing (PaddingIsZeros).  Folded and Sums are       *)
(* recursive functions: that there is one and only one function with such  *)
(* a definition is shown of each, by the least number at which two would   *)
(* differ, or at which there is none.                                      *)
(***************************************************************************)
EXTENDS Frame, WellFoundedInduction, SequenceTheorems, TLAPS

----------------------------------------------------------------------------
(* Facts about numbers.                                                    *)

\* A set of numbers, as the ranges of a list (clientsession.cc:71-102), has a first
\* one.
LEMMA LeastNumber ==
  ASSUME NEW S \in SUBSET Nat, S # {}
  PROVE  \E m \in S : \A k \in S : m <= k
<1> DEFINE R == OpToRel(<, Nat)
<1>1. IsWellFoundedOn(R, Nat)
  BY NatLessThanWellFounded
<1>2. \A x, y \in Nat : x < y => <<x, y>> \in R
  BY DEF OpToRel
<1> HIDE DEF R
<1>3. PICK x \in S : \A y \in S : ~ (<<y, x>> \in R)
  BY <1>1, WFMin
<1>4. \A y \in S : ~ (y < x)
  BY <1>2, <1>3
<1>5. \A y \in S : x <= y
  BY <1>4
<1>6. QED
  BY <1>5

\* Counting on from a wrapped count is wrapping the count (clientsession.cc:170).
LEMMA WrappedCount ==
  ASSUME NEW n \in Nat, NEW d \in Nat, d > 0
  PROVE  /\ n % d \in 0 .. (d - 1)
         /\ ((n % d) + 1) % d = (n + 1) % d
<1>1. n % d \in 0 .. (d - 1)
  OBVIOUS
<1>2. \/ /\ (n + 1) \div d = n \div d
         /\ (n + 1) % d = (n % d) + 1
      \/ /\ (n + 1) \div d = (n \div d) + 1
         /\ (n + 1) % d = 0
         /\ n % d = d - 1
  OBVIOUS
<1>3. d % d = 0 /\ \A m \in 0 .. (d - 1) : m % d = m
  OBVIOUS
<1>4. (n + 1) % d \in 0 .. (d - 1)
  OBVIOUS
<1>5. PICK m \in 0 .. (d - 1) : m = n % d
  BY <1>1
<1>6. QED
  BY <1>1, <1>2, <1>3, <1>4, <1>5

\* What is over from whole multiples is the remainder (protocol.cc:199-204).
LEMMA Remainder ==
  ASSUME NEW b \in Nat, b > 0, NEW q \in Nat, NEW r \in 0 .. (b - 1)
  PROVE  (q * b + r) % b = r
<1> DEFINE n == q * b + r
<1>1. q * b \in Nat /\ n \in Nat
  OBVIOUS
<1>2. n = b * (n \div b) + (n % b) /\ n \div b \in Nat /\ n % b \in 0 .. (b - 1)
  <2> HIDE DEF n
  <2>1. QED
    BY <1>1
<1>3. PICK p \in Nat, s \in 0 .. (b - 1) : p = n \div b /\ s = n % b
  BY <1>2
<1>4. q * b + r = b * p + s
  BY <1>2, <1>3
<1>5. CASE p = q
  <2>1. b * p = q * b
    BY <1>5
  <2>2. b * p \in Nat
    OBVIOUS
  <2>3. r = s
    BY <1>1, <1>4, <2>1, <2>2
  <2>4. QED
    BY <1>3, <2>3
<1>6. CASE p < q
  <2>1. b * (p + 1) <= b * q /\ b * (p + 1) = b * p + b /\ b * q = q * b
    BY <1>6
  <2>2. b * p \in Nat /\ b * q \in Nat
    OBVIOUS
  <2>3. FALSE
    BY <1>4, <2>1, <2>2
  <2>4. QED
    BY <2>3
<1>7. CASE q < p
  <2>1. b * (q + 1) <= b * p /\ b * (q + 1) = b * q + b /\ b * q = q * b
    BY <1>7
  <2>2. b * p \in Nat /\ b * q \in Nat
    OBVIOUS
  <2>3. FALSE
    BY <1>4, <2>1, <2>2
  <2>4. QED
    BY <2>3
<1>8. QED
  BY <1>3, <1>5, <1>6, <1>7

\* A number that fits loses nothing when it is cut to its field (protocol.cc:163-165).
LEMMA Fits ==
  ASSUME NEW b \in Nat, NEW n \in Nat, n < b
  PROVE  n % b = n
<1>1. b > 0 /\ n \in 0 .. (b - 1)
  OBVIOUS
<1>2. (0 * b + n) % b = n
  BY <1>1, Remainder
<1>3. 0 * b + n = n
  OBVIOUS
<1>4. QED
  BY <1>2, <1>3

Byte == 0 .. (ByteMod - 1)

\* A word has more than one value, and a carry is one of the values
\* (protocol.cc:199-204).
LEMMA WordsAreMany == WordMod \in Nat /\ WordMod > 3 /\ ByteMod \in Nat /\ ByteMod > 1
<1>1. ByteMod \in Nat /\ ByteMod > 1
  BY FrameAssumption
<1>2. ByteMod * ByteMod >= 2 * ByteMod /\ ByteMod * ByteMod \in Nat
  BY <1>1
<1>3. QED
  BY <1>1, <1>2 DEF WordMod

----------------------------------------------------------------------------
(* The carries.                                                            *)

\* A sum with its carries added back once.
FoldedOnce(sum) == (sum % WordMod) + (sum \div WordMod)

\* Adding back the carries makes a sum that is no word smaller, by a multiple of
\* the largest word (protocol.cc:199-204).
LEMMA FoldedLess ==
  ASSUME NEW sum \in Nat, sum >= WordMod
  PROVE  /\ FoldedOnce(sum) \in Nat /\ FoldedOnce(sum) < sum /\ FoldedOnce(sum) > 0
         /\ sum \div WordMod \in Nat
         /\ sum = FoldedOnce(sum) + (sum \div WordMod) * (WordMod - 1)
<1>1. PICK w \in Nat : w = WordMod /\ w > 3
  BY WordsAreMany
<1>2. sum = w * (sum \div w) + (sum % w) /\ sum \div w \in Nat /\ sum % w \in 0 .. (w - 1)
  BY <1>1
<1>3. PICK q \in Nat, r \in 0 .. (w - 1) : q = sum \div w /\ r = sum % w
  BY <1>2
<1>4. sum = w * q + r /\ sum >= w
  BY <1>1, <1>2, <1>3
<1>5. q > 0
  <2>1. q = 0 => w * q = 0
    OBVIOUS
  <2>2. QED
    BY <1>4, <2>1
<1>6. w * q = q * (w - 1) + q /\ q * (w - 1) \in Nat
  BY <1>1
<1>7. q * (w - 1) >= w - 1
  BY <1>1, <1>5
<1>8. /\ r + q \in Nat /\ r + q < sum /\ r + q > 0
      /\ sum = (r + q) + q * (w - 1)
  BY <1>1, <1>4, <1>5, <1>6, <1>7
<1>9. QED
  BY <1>1, <1>3, <1>8 DEF FoldedOnce

\* f is what the loop makes of the sums up to n.
Folds(f, n) ==
  f = [sum \in 0 .. n |-> IF sum < WordMod THEN sum ELSE f[FoldedOnce(sum)]]

\* There is but one such f (protocol.cc:199-204).
LEMMA FoldsUnique ==
  ASSUME NEW n \in Nat, NEW m \in Nat, NEW f, NEW g, Folds(f, n), Folds(g, m),
         NEW sum \in 0 .. n, sum \in 0 .. m
  PROVE  f[sum] = g[sum]
<1> DEFINE Bad == {s \in Nat : s <= n /\ s <= m /\ f[s] # g[s]}
<1>1. Bad = {}
  <2> SUFFICES ASSUME Bad # {} PROVE FALSE
    OBVIOUS
  <2>1. PICK s \in Bad : \A t \in Bad : s <= t
    <3>1. Bad \in SUBSET Nat
      OBVIOUS
    <3> HIDE DEF Bad
    <3>2. QED
      BY <3>1, LeastNumber
  <2>2. s \in 0 .. n /\ s \in 0 .. m /\ f[s] # g[s]
    BY <2>1
  <2>3. f[s] = (IF s < WordMod THEN s ELSE f[FoldedOnce(s)])
        /\ g[s] = (IF s < WordMod THEN s ELSE g[FoldedOnce(s)])
    BY <2>2 DEF Folds
  <2>4. ~ (s < WordMod)
    BY <2>2, <2>3
  <2>5. FoldedOnce(s) \in Nat /\ FoldedOnce(s) < s
    BY <2>2, <2>4, FoldedLess, WordsAreMany
  <2>6. FoldedOnce(s) \in Bad
    BY <2>2, <2>3, <2>4, <2>5
  <2>7. QED
    BY <2>1, <2>2, <2>5, <2>6
<1>2. QED
  BY <1>1

\* And there is one (protocol.cc:199-204).
LEMMA FoldsExist ==
  ASSUME NEW n \in Nat
  PROVE  \E f : Folds(f, n)
<1> DEFINE Bad == {m \in Nat : ~ \E f : Folds(f, m)}
<1>1. Bad = {}
  <2> SUFFICES ASSUME Bad # {} PROVE FALSE
    OBVIOUS
  <2>1. PICK m \in Bad : \A k \in Bad : m <= k
    <3>1. Bad \in SUBSET Nat
      OBVIOUS
    <3> HIDE DEF Bad
    <3>2. QED
      BY <3>1, LeastNumber
  <2>2. m \in Nat /\ ~ \E f : Folds(f, m)
    BY <2>1
  <2>3. CASE m = 0
    <3> DEFINE none == [sum \in 0 .. 0 |-> 0]
    <3>1. \A sum \in 0 .. 0 : sum < WordMod /\ sum = 0
      BY WordsAreMany
    <3>2. none = [sum \in 0 .. 0 |-> IF sum < WordMod THEN sum ELSE none[FoldedOnce(sum)]]
      BY <3>1
    <3> HIDE DEF none
    <3>3. Folds(none, 0)
      BY <3>2 DEF Folds
    <3>4. QED
      BY <2>2, <2>3, <3>3
  <2>4. CASE m # 0
    <3>1. m - 1 \in Nat /\ m - 1 \notin Bad
      BY <2>1, <2>2, <2>4
    <3>2. PICK f : Folds(f, m - 1)
      BY <3>1
    <3> DEFINE g == [sum \in 0 .. m |->
                       IF sum = m
                       THEN IF m < WordMod THEN m ELSE f[FoldedOnce(m)]
                       ELSE f[sum]]
    <3>3. ASSUME NEW sum \in 0 .. m
          PROVE  g[sum] = IF sum < WordMod THEN sum ELSE g[FoldedOnce(sum)]
      <4>1. sum >= WordMod => FoldedOnce(sum) \in 0 .. (m - 1) /\ g[FoldedOnce(sum)] = f[FoldedOnce(sum)]
        <5>1. SUFFICES ASSUME sum >= WordMod
                       PROVE  FoldedOnce(sum) \in 0 .. (m - 1) /\ g[FoldedOnce(sum)] = f[FoldedOnce(sum)]
          OBVIOUS
        <5>2. PICK c \in Nat : c = FoldedOnce(sum) /\ c < sum
          BY <2>2, <5>1, FoldedLess
        <5>3. c \in 0 .. (m - 1) /\ g[c] = f[c]
          BY <2>2, <5>2
        <5>4. QED
          BY <5>2, <5>3
      <4>2. WordMod \in Nat
        BY WordsAreMany
      <4>3. CASE sum = m
        <5>1. g[sum] = IF sum < WordMod THEN sum ELSE f[FoldedOnce(sum)]
          BY <4>3
        <5> HIDE DEF g
        <5>2. QED
          BY <2>2, <4>1, <4>2, <5>1
      <4>4. CASE sum # m
        <5>1. sum \in 0 .. (m - 1)
          BY <2>2, <4>4
        <5>2. g[sum] = f[sum]
          BY <4>4
        <5>3. f[sum] = IF sum < WordMod THEN sum ELSE f[FoldedOnce(sum)]
          BY <3>2, <5>1 DEF Folds
        <5> HIDE DEF g
        <5>4. QED
          BY <2>2, <4>1, <4>2, <5>2, <5>3
      <4>5. QED
        BY <4>3, <4>4
    <3>4. g = [sum \in 0 .. m |-> g[sum]]
      OBVIOUS
    <3> HIDE DEF g
    <3>5. Folds(g, m)
      BY <3>3, <3>4 DEF Folds
    <3>6. QED
      BY <2>2, <3>5
  <2>5. QED
    BY <2>3, <2>4
<1>2. QED
  BY <1>1

\* Folded is the function it is meant to be (protocol.cc:199-204).
LEMMA FoldedIs ==
  Folded = [sum \in Nat |-> IF sum < WordMod THEN sum ELSE Folded[FoldedOnce(sum)]]
<1> DEFINE some(n) == CHOOSE f : Folds(f, n)
           g == [sum \in Nat |-> some(sum)[sum]]
<1>1. ASSUME NEW n \in Nat PROVE Folds(some(n), n)
  <2>1. \E f : Folds(f, n)
    BY FoldsExist
  <2>2. QED
    BY <2>1
<1>2. ASSUME NEW sum \in Nat
      PROVE  g[sum] = IF sum < WordMod THEN sum ELSE g[FoldedOnce(sum)]
  <2>1. Folds(some(sum), sum)
    BY <1>1
  <2>2. PICK f : f = some(sum) /\ Folds(f, sum)
    BY <2>1
  <2>3. g[sum] = f[sum]
    BY <2>2
  <2>4. sum \in 0 .. sum
    OBVIOUS
  <2>5. f[sum] = IF sum < WordMod THEN sum ELSE f[FoldedOnce(sum)]
    BY <2>2, <2>4 DEF Folds
  <2>6. CASE sum < WordMod
    BY <2>3, <2>5, <2>6
  <2>7. CASE ~ (sum < WordMod)
    <3>1. sum >= WordMod
      BY <2>7, WordsAreMany
    <3>2. PICK c \in Nat : c = FoldedOnce(sum) /\ c < sum
      BY <3>1, FoldedLess
    <3>3. PICK h : h = some(c) /\ Folds(h, c)
      BY <1>1
    <3>4. f[c] = h[c]
      <4>1. c \in 0 .. sum /\ c \in 0 .. c
        BY <3>2
      <4> HIDE DEF some
      <4>2. QED
        BY <2>2, <3>3, <4>1, FoldsUnique
    <3>5. g[c] = h[c]
      BY <3>3
    <3> HIDE DEF g, some
    <3>6. QED
      BY <2>3, <2>5, <2>7, <3>2, <3>4, <3>5
  <2>8. QED
    BY <2>6, <2>7
<1>3. g = [sum \in Nat |-> g[sum]]
  OBVIOUS
<1> HIDE DEF g
<1>4. g = [sum \in Nat |-> IF sum < WordMod THEN sum ELSE g[FoldedOnce(sum)]]
  BY <1>2, <1>3
<1>5. \E f : f = [sum \in Nat |-> IF sum < WordMod THEN sum ELSE f[FoldedOnce(sum)]]
  BY <1>4
<1>6. QED
  BY <1>5 DEF Folded, FoldedOnce

\* Folding keeps what a sum is, modulo the largest word, and makes a word of it,
\* zero of none but zero (protocol.cc:199-204).
LEMMA FoldedSum ==
  ASSUME NEW sum \in Nat
  PROVE  /\ Folded[sum] \in Nat /\ Folded[sum] < WordMod
         /\ \E q \in Nat : sum = Folded[sum] + q * (WordMod - 1)
<1> DEFINE Right(s) == /\ Folded[s] \in Nat /\ Folded[s] < WordMod
                       /\ \E q \in Nat : s = Folded[s] + q * (WordMod - 1)
           Bad == {s \in Nat : ~ Right(s)}
<1>1. \A s \in Nat : Folded[s] = IF s < WordMod THEN s ELSE Folded[FoldedOnce(s)]
  <2> DEFINE f == Folded
  <2>1. f = [s \in Nat |-> IF s < WordMod THEN s ELSE f[FoldedOnce(s)]]
    BY FoldedIs
  <2> HIDE DEF f
  <2>2. \A s \in Nat : f[s] = IF s < WordMod THEN s ELSE f[FoldedOnce(s)]
    BY <2>1
  <2>3. QED
    BY <2>2 DEF f
<1>2. WordMod \in Nat /\ WordMod > 3
  BY WordsAreMany
<1>3. Bad = {}
  <2> SUFFICES ASSUME Bad # {} PROVE FALSE
    OBVIOUS
  <2>1. PICK s \in Bad : \A t \in Bad : s <= t
    <3>1. Bad \in SUBSET Nat
      OBVIOUS
    <3> HIDE DEF Bad
    <3>2. QED
      BY <3>1, LeastNumber
  <2>2. s \in Nat /\ ~ Right(s)
    BY <2>1
  <2>3. CASE s < WordMod
    <3>1. Folded[s] = s
      BY <1>1, <2>2, <2>3
    <3>2. s = s + 0 * (WordMod - 1)
      BY <1>2, <2>2
    <3>3. QED
      BY <2>2, <2>3, <3>1, <3>2
  <2>4. CASE ~ (s < WordMod)
    <3>1. s >= WordMod
      BY <1>2, <2>2, <2>4
    <3>2. PICK c \in Nat, a \in Nat :
            c = FoldedOnce(s) /\ c < s /\ s = c + a * (WordMod - 1)
      BY <2>2, <3>1, FoldedLess
    <3>3. c \notin Bad
      BY <2>1, <2>2, <3>2
    <3>4. Right(c)
      BY <3>3
    <3>5. PICK q \in Nat : c = Folded[c] + q * (WordMod - 1)
      BY <3>4
    <3>6. Folded[s] = Folded[c]
      BY <1>1, <2>2, <2>4, <3>2
    <3>7. s = Folded[c] + (q + a) * (WordMod - 1)
      <4>1. PICK b \in Nat : b = WordMod - 1
        BY <1>2
      <4>2. (q + a) * b = q * b + a * b /\ q * b \in Nat /\ a * b \in Nat
        OBVIOUS
      <4>3. PICK x \in Nat : x = Folded[c]
        BY <3>4
      <4>4. QED
        BY <3>2, <3>5, <4>1, <4>2, <4>3
    <3>8. Right(s)
      BY <3>4, <3>6, <3>7
    <3>9. QED
      BY <2>2, <3>8
  <2>5. QED
    BY <2>3, <2>4
<1>4. QED
  BY <1>3

\* With its complement a sum comes to a multiple of the largest word, and not to
\* zero: what the receiver adds up to (protocol.cc:199-207, :237-240).
LEMMA ComplementHolds ==
  ASSUME NEW sum \in Nat
  PROVE  /\ Complement(sum) \in 0 .. (WordMod - 1)
         /\ sum + Complement(sum) > 0
         /\ 1 + ((sum + Complement(sum) - 1) % (WordMod - 1)) = WordMod - 1
<1>1. PICK b \in Nat : b = WordMod - 1 /\ b > 2 /\ WordMod = b + 1
  BY WordsAreMany
<1>2. PICK x \in 0 .. b, q \in Nat : x = Folded[sum] /\ sum = x + q * b
  <2>1. PICK q \in Nat : sum = Folded[sum] + q * (WordMod - 1)
    BY FoldedSum
  <2>2. q * (WordMod - 1) = q * b
    BY <1>1
  <2>3. Folded[sum] \in 0 .. b
    BY <1>1, FoldedSum
  <2>4. QED
    BY <2>1, <2>2, <2>3
<1>3. Complement(sum) = b - x
  BY <1>1, <1>2 DEF Complement
<1>4. q * b \in Nat
  OBVIOUS
<1>5. sum + (b - x) - 1 = q * b + (b - 1)
  BY <1>1, <1>2, <1>4
<1>6. (q * b + (b - 1)) % b = b - 1
  BY <1>1, Remainder
<1>7. QED
  BY <1>1, <1>2, <1>3, <1>4, <1>5, <1>6

----------------------------------------------------------------------------
(* Sums of words.                                                          *)

\* f is what the first words, up to n of them, add up to.
Adds(f, words, n) ==
  f = [k \in 0 .. n |-> IF k = 0 THEN 0 ELSE f[k - 1] + words[k]]

\* Sums is the function it is meant to be (protocol.cc:188-192).
LEMMA SumsAre ==
  ASSUME NEW words, Len(words) \in Nat
  PROVE  Adds(Sums(words), words, Len(words))
<1> DEFINE Bad == {n \in Nat : ~ \E f : Adds(f, words, n)}
<1>1. Bad = {}
  <2> SUFFICES ASSUME Bad # {} PROVE FALSE
    OBVIOUS
  <2>1. PICK n \in Bad : \A k \in Bad : n <= k
    <3>1. Bad \in SUBSET Nat
      OBVIOUS
    <3> HIDE DEF Bad
    <3>2. QED
      BY <3>1, LeastNumber
  <2>2. n \in Nat /\ ~ \E f : Adds(f, words, n)
    BY <2>1
  <2>3. CASE n = 0
    <3>1. Adds([k \in 0 .. 0 |-> 0], words, 0)
      BY DEF Adds
    <3>2. QED
      BY <2>2, <2>3, <3>1
  <2>4. CASE n # 0
    <3>1. n - 1 \in Nat /\ n - 1 \notin Bad
      BY <2>1, <2>2, <2>4
    <3>2. PICK f : Adds(f, words, n - 1)
      BY <3>1
    <3> DEFINE g == [k \in 0 .. n |-> IF k = n THEN f[n - 1] + words[n] ELSE f[k]]
    <3>3. ASSUME NEW k \in 0 .. n
          PROVE  g[k] = IF k = 0 THEN 0 ELSE g[k - 1] + words[k]
      <4>1. CASE k = n
        <5>1. g[k] = f[n - 1] + words[n] /\ g[k - 1] = f[n - 1] /\ k # 0
          BY <2>2, <2>4, <4>1
        <5> HIDE DEF g
        <5>2. QED
          BY <4>1, <5>1
      <4>2. CASE k # n
        <5>1. k \in 0 .. (n - 1)
          BY <2>2, <4>2
        <5>2. f[k] = IF k = 0 THEN 0 ELSE f[k - 1] + words[k]
          BY <3>2, <5>1 DEF Adds
        <5>3. g[k] = f[k] /\ (k # 0 => g[k - 1] = f[k - 1])
          BY <2>2, <5>1
        <5> HIDE DEF g
        <5>4. QED
          BY <5>2, <5>3
      <4>3. QED
        BY <4>1, <4>2
    <3>4. g = [k \in 0 .. n |-> g[k]]
      OBVIOUS
    <3> HIDE DEF g
    <3>5. Adds(g, words, n)
      BY <3>3, <3>4 DEF Adds
    <3>6. QED
      BY <2>2, <3>5
  <2>5. QED
    BY <2>3, <2>4
<1>2. \E f : Adds(f, words, Len(words))
  BY <1>1
<1>3. QED
  BY <1>2 DEF Sums, Adds

\* One more word adds its value (protocol.cc:188-192).
LEMMA SumsGrow ==
  ASSUME NEW words \in Seq(Nat)
  PROVE  /\ Sums(words)[0] = 0
         /\ \A k \in 1 .. Len(words) : Sums(words)[k] = Sums(words)[k - 1] + words[k]
         /\ \A k \in 0 .. Len(words) : Sums(words)[k] \in Nat
<1> DEFINE f == Sums(words)
           n == Len(words)
           Bad == {k \in 0 .. n : f[k] \notin Nat}
<1>1. n \in Nat /\ \A k \in 1 .. n : words[k] \in Nat
  OBVIOUS
<1>2. Adds(f, words, n)
  BY <1>1, SumsAre
<1> HIDE DEF f
<1>3. f[0] = 0 /\ \A k \in 1 .. n : f[k] = f[k - 1] + words[k]
  BY <1>1, <1>2 DEF Adds
<1>4. Bad = {}
  <2> SUFFICES ASSUME Bad # {} PROVE FALSE
    OBVIOUS
  <2>1. PICK k \in Bad : \A j \in Bad : k <= j
    <3>1. Bad \in SUBSET Nat
      BY <1>1
    <3> HIDE DEF Bad
    <3>2. QED
      BY <3>1, LeastNumber
  <2>2. k \in 1 .. n /\ f[k] \notin Nat
    BY <1>1, <1>3, <2>1
  <2>3. k - 1 \in 0 .. n /\ k - 1 \notin Bad
    BY <1>1, <2>1, <2>2
  <2>4. f[k - 1] \in Nat
    BY <2>3
  <2>5. f[k] = f[k - 1] + words[k] /\ words[k] \in Nat
    BY <1>1, <1>3, <2>2
  <2>6. QED
    BY ONLY <2>2, <2>4, <2>5
<1>5. QED
  BY <1>3, <1>4 DEF f

\* Lists that begin with the same words add up to the same
\* (protocol.cc:188-192).
LEMMA SumsOfSame ==
  ASSUME NEW v \in Seq(Nat), NEW w \in Seq(Nat), NEW n \in Nat,
         n <= Len(v), n <= Len(w), \A k \in 1 .. n : v[k] = w[k]
  PROVE  Sums(v)[n] = Sums(w)[n]
<1> DEFINE f == Sums(v)
           g == Sums(w)
           Bad == {k \in 0 .. n : f[k] # g[k]}
<1>1. /\ f[0] = 0 /\ \A k \in 1 .. n : f[k] = f[k - 1] + v[k]
      /\ g[0] = 0 /\ \A k \in 1 .. n : g[k] = g[k - 1] + w[k]
  BY SumsGrow
<1> HIDE DEF f, g
<1>2. Bad = {}
  <2> SUFFICES ASSUME Bad # {} PROVE FALSE
    OBVIOUS
  <2>1. PICK k \in Bad : \A j \in Bad : k <= j
    <3>1. Bad \in SUBSET Nat
      OBVIOUS
    <3> HIDE DEF Bad
    <3>2. QED
      BY <3>1, LeastNumber
  <2>2. k \in 1 .. n /\ f[k] # g[k]
    BY <1>1, <2>1
  <2>3. k - 1 \in 0 .. n /\ k - 1 \notin Bad
    BY <2>1, <2>2
  <2>4. QED
    BY <1>1, <2>2, <2>3
<1>3. n \in 0 .. n
  OBVIOUS
<1>4. QED
  BY <1>2, <1>3 DEF f, g

\* Zeros add nothing (protocol.cc:167-172).
LEMMA ZerosAddNothing ==
  ASSUME NEW w \in Seq(Nat), NEW m \in Nat, m <= Len(w),
         \A k \in (m + 1) .. Len(w) : w[k] = 0
  PROVE  SumOf(w) = Sums(w)[m]
<1> DEFINE f == Sums(w)
           n == Len(w)
           Bad == {k \in 0 .. n : k >= m /\ f[k] # f[m]}
<1>1. /\ n \in Nat /\ m <= n
      /\ \A k \in 1 .. n : f[k] = f[k - 1] + w[k]
      /\ \A k \in 0 .. n : f[k] \in Nat
  BY SumsGrow
<1> HIDE DEF f
<1>2. Bad = {}
  <2> SUFFICES ASSUME Bad # {} PROVE FALSE
    OBVIOUS
  <2>1. PICK k \in Bad : \A j \in Bad : k <= j
    <3>1. Bad \in SUBSET Nat
      BY <1>1
    <3> HIDE DEF Bad
    <3>2. QED
      BY <3>1, LeastNumber
  <2>2. k \in 1 .. n /\ k > m /\ f[k] # f[m]
    BY <1>1, <2>1
  <2>3. k - 1 \in 0 .. n /\ k - 1 >= m /\ k - 1 \notin Bad
    BY <1>1, <2>1, <2>2
  <2>4. w[k] = 0
    BY <1>1, <2>2
  <2>5. QED
    BY <1>1, <2>2, <2>3, <2>4
<1>3. f[n] = f[m]
  BY <1>1, <1>2
<1>4. QED
  BY <1>3 DEF f, SumOf

\* A list added to another adds its sum (protocol.cc:217-231).
LEMMA SumOfConcat ==
  ASSUME NEW v \in Seq(Nat), NEW w \in Seq(Nat)
  PROVE  /\ SumOf(v \o w) = SumOf(v) + SumOf(w)
         /\ SumOf(v) \in Nat /\ SumOf(w) \in Nat
<1> DEFINE f == Sums(v \o w)
           g == Sums(w)
           a == Len(v)
           n == Len(w)
           s == Sums(v)[a]
           Bad == {k \in 0 .. n : f[a + k] # s + g[k]}
<1>1. /\ v \o w \in Seq(Nat) /\ Len(v \o w) = a + n /\ a \in Nat /\ n \in Nat
      /\ \A k \in 1 .. a : (v \o w)[k] = v[k]
      /\ \A k \in 1 .. n : (v \o w)[a + k] = w[k] /\ w[k] \in Nat
  OBVIOUS
<1>2. f[a] = s
  <2>1. a <= Len(v \o w) /\ a <= Len(v)
    BY <1>1
  <2>2. PICK both \in Seq(Nat) : both = v \o w
    BY <1>1
  <2>3. Sums(both)[Len(v)] = Sums(v)[Len(v)]
    BY <1>1, <2>1, <2>2, SumsOfSame
  <2>4. QED
    BY <2>2, <2>3
<1>3. s \in Nat /\ g[n] \in Nat
  BY <1>1, SumsGrow
<1>4. /\ \A k \in 1 .. (a + n) : f[k] = f[k - 1] + (v \o w)[k]
      /\ \A k \in 1 .. n : g[k] = g[k - 1] + w[k]
      /\ \A k \in 0 .. n : g[k] \in Nat
      /\ g[0] = 0
  BY <1>1, SumsGrow
<1> HIDE DEF f, g, s
<1>5. Bad = {}
  <2> SUFFICES ASSUME Bad # {} PROVE FALSE
    OBVIOUS
  <2>1. PICK k \in Bad : \A j \in Bad : k <= j
    <3>1. Bad \in SUBSET Nat
      OBVIOUS
    <3> HIDE DEF Bad
    <3>2. QED
      BY <3>1, LeastNumber
  <2>2. k \in 1 .. n /\ f[a + k] # s + g[k]
    <3>1. a + 0 = a /\ s + g[0] = s
      BY <1>1, <1>3, <1>4
    <3>2. k # 0
      BY <1>2, <2>1, <3>1
    <3>3. QED
      BY <1>1, <2>1, <3>2
  <2>3. k - 1 \in 0 .. n /\ k - 1 \notin Bad
    BY <1>1, <2>1, <2>2
  <2>4. f[a + (k - 1)] = s + g[k - 1]
    BY <2>3
  <2>5. /\ a + k \in 1 .. (a + n) /\ (a + k) - 1 = a + (k - 1)
        /\ (v \o w)[a + k] = w[k]
    BY <1>1, <2>2
  <2>6. f[a + k] = f[a + (k - 1)] + w[k] /\ g[k] = g[k - 1] + w[k]
        /\ w[k] \in Nat /\ g[k - 1] \in Nat
    BY <1>1, <1>4, <2>2, <2>3, <2>5
  <2>7. QED
    BY ONLY <1>3, <2>2, <2>4, <2>6
<1>6. f[a + n] = s + g[n]
  BY <1>1, <1>5
<1>7. QED
  BY <1>1, <1>3, <1>6 DEF f, g, s, SumOf

\* What the fields of the two headers add up to (protocol.cc:217-227).
LEMMA SumOfFields ==
  ASSUME NEW w \in Seq(Nat)
  PROVE  /\ Len(w) = 2 => SumOf(w) = w[1] + w[2]
         /\ Len(w) = 6 => SumOf(w) = w[1] + w[2] + w[3] + w[4] + w[5] + w[6]
<1> DEFINE g == Sums(w)
<1>1. g[0] = 0 /\ \A k \in 1 .. Len(w) : g[k] = g[k - 1] + w[k]
  BY SumsGrow
<1> HIDE DEF g
<1>2. ASSUME Len(w) = 2
      PROVE  SumOf(w) = w[1] + w[2]
  <2>1. g[1] = g[0] + w[1] /\ g[2] = g[1] + w[2]
    BY <1>1, <1>2
  <2>2. SumOf(w) = g[2] /\ g[0] = 0
    BY <1>1, <1>2 DEF SumOf, g
  <2>3. w[1] \in Nat /\ w[2] \in Nat
    <3>1. \A k \in 1 .. Len(w) : w[k] \in Nat
      OBVIOUS
    <3>2. QED
      BY ONLY <1>2, <3>1
  <2>4. QED
    BY ONLY <2>1, <2>2, <2>3
<1>3. ASSUME Len(w) = 6
      PROVE  SumOf(w) = w[1] + w[2] + w[3] + w[4] + w[5] + w[6]
  <2>1. /\ g[1] = g[0] + w[1] /\ g[2] = g[1] + w[2] /\ g[3] = g[2] + w[3]
        /\ g[4] = g[3] + w[4] /\ g[5] = g[4] + w[5] /\ g[6] = g[5] + w[6]
    BY <1>1, <1>3
  <2>2. SumOf(w) = g[6]
    BY <1>3 DEF SumOf, g
  <2>3. /\ w[1] \in Nat /\ w[2] \in Nat /\ w[3] \in Nat
        /\ w[4] \in Nat /\ w[5] \in Nat /\ w[6] \in Nat
    <3>1. \A k \in 1 .. Len(w) : w[k] \in Nat
      OBVIOUS
    <3>2. QED
      BY <1>3, <3>1
  <2>4. g[0] = 0
    BY <1>1
  <2>5. g[1] = w[1]
    <3>1. g[1] = g[0] + w[1] /\ w[1] \in Nat
      BY <2>1, <2>3
    <3>2. QED
      BY ONLY <2>4, <3>1
  <2>6. g[2] = w[1] + w[2] /\ g[3] = w[1] + w[2] + w[3]
    BY ONLY <2>1, <2>3, <2>5
  <2>7. QED
    BY ONLY <2>1, <2>2, <2>3, <2>6
<1>4. QED
  BY <1>2, <1>3

----------------------------------------------------------------------------
(* Frames.                                                                 *)

\* A field is two bytes (protocol.cc:163-165).
LEMMA FieldBytes ==
  ASSUME NEW v \in Nat
  PROVE  Field(v) \in Seq(Byte) /\ Len(Field(v)) = 2
<1>1. PICK b \in Nat : b = ByteMod /\ b > 1
  BY WordsAreMany
<1>2. v \div b \in Nat
  BY <1>1
<1>3. (v \div b) % b \in 0 .. (b - 1) /\ v % b \in 0 .. (b - 1)
  BY <1>1, <1>2
<1>4. QED
  BY <1>1, <1>3 DEF Field, Byte

\* What follows two fields in a message stands after their four bytes, and what
\* follows three after six (clientsession.cc:183-205).
LEMMA AfterFields ==
  ASSUME NEW first \in Seq(Byte), NEW second \in Seq(Byte)
  PROVE  /\ first \o second \in Seq(Byte)
         /\ Len(first \o second) = Len(first) + Len(second)
         /\ \A k \in 1 .. Len(first) : (first \o second)[k] = first[k]
         /\ \A k \in 1 .. Len(second) : (first \o second)[Len(first) + k] = second[k]
  OBVIOUS

TwoBytes(field) == field \in Seq(Byte) /\ Len(field) = 2
Zeros(bytes) == bytes \in Seq(Byte) /\ \A k \in 1 .. Len(bytes) : bytes[k] = 0

\* A header whose third field is size, and then zeros.
LaidOut(message, size, zeros) ==
  /\ message \in Seq(Byte) /\ Len(message) = 6 + Len(zeros)
  /\ message[5] = size[1] /\ message[6] = size[2]
  /\ \A k \in 1 .. Len(zeros) : message[6 + k] = 0

\* Of a message of three fields and zeros, the third field is where the receiver
\* looks for the size, and the zeros follow (clientsession.cc:183-205).
LEMMA MessageBytes ==
  ASSUME NEW stamp, NEW num, NEW size, NEW zeros,
         TwoBytes(stamp), TwoBytes(num), TwoBytes(size), Zeros(zeros)
  PROVE  LaidOut(stamp \o num \o size \o zeros, size, zeros)
<1>1. 2 + 2 = 4 /\ 4 + 2 = 6 /\ 4 + 1 = 5
  OBVIOUS
<1>2. /\ stamp \in Seq(Byte) /\ num \in Seq(Byte) /\ size \in Seq(Byte)
      /\ zeros \in Seq(Byte)
      /\ Len(stamp) = 2 /\ Len(num) = 2 /\ Len(size) = 2
      /\ \A k \in 1 .. Len(zeros) : zeros[k] = 0
  BY Zenon DEF TwoBytes, Zeros
<1>3. PICK two \in Seq(Byte) : two = stamp \o num /\ Len(two) = 4
  <2>1. stamp \o num \in Seq(Byte) /\ Len(stamp \o num) = Len(stamp) + Len(num)
    BY ONLY <1>2, AfterFields
  <2>2. QED
    BY ONLY <1>1, <2>1, <1>2, Zenon
<1>4. PICK three \in Seq(Byte) :
        /\ three = two \o size /\ Len(three) = 6
        /\ three[5] = size[1] /\ three[6] = size[2]
  <2>1. /\ two \o size \in Seq(Byte) /\ Len(two \o size) = Len(two) + Len(size)
        /\ \A k \in 1 .. Len(size) : (two \o size)[Len(two) + k] = size[k]
    BY ONLY two \in Seq(Byte), <1>2, AfterFields
  <2>2. \A k \in 1 .. 2 : (two \o size)[4 + k] = size[k]
    BY ONLY <1>3, <2>1, <1>2, Zenon
  <2>3. 1 \in 1 .. 2 /\ 2 \in 1 .. 2
    OBVIOUS
  <2>4. (two \o size)[5] = size[1] /\ (two \o size)[6] = size[2]
    BY ONLY <1>1, <2>2, <2>3, Zenon
  <2>5. Len(two \o size) = 6
    BY ONLY <1>1, <1>3, <2>1, <1>2, Zenon
  <2>6. QED
    BY ONLY <2>1, <2>4, <2>5, Zenon
<1>5. PICK all \in Seq(Byte) :
        /\ all = three \o zeros /\ Len(all) = 6 + Len(zeros)
        /\ \A k \in 1 .. 6 : all[k] = three[k]
        /\ \A k \in 1 .. Len(zeros) : all[6 + k] = zeros[k]
  <2>1. /\ three \o zeros \in Seq(Byte) /\ Len(three \o zeros) = Len(three) + Len(zeros)
        /\ \A k \in 1 .. Len(three) : (three \o zeros)[k] = three[k]
        /\ \A k \in 1 .. Len(zeros) : (three \o zeros)[Len(three) + k] = zeros[k]
    BY ONLY three \in Seq(Byte), <1>2, AfterFields
  <2>2. Len(three \o zeros) = 6 + Len(zeros)
    BY ONLY <1>4, <2>1, Zenon
  <2>3. \A k \in 1 .. 6 : (three \o zeros)[k] = three[k]
    BY ONLY <1>4, <2>1, Zenon
  <2>4. \A k \in 1 .. Len(zeros) : (three \o zeros)[6 + k] = zeros[k]
    BY ONLY <1>4, <2>1, Zenon
  <2>5. QED
    BY ONLY <2>1, <2>2, <2>3, <2>4, Zenon
<1>6. 5 \in 1 .. 6 /\ 6 \in 1 .. 6
  OBVIOUS
<1>7. all = stamp \o num \o size \o zeros
  BY ONLY <1>3, <1>4, <1>5, Zenon
<1>8. all[5] = size[1] /\ all[6] = size[2]
  BY ONLY <1>4, <1>5, <1>6, Zenon
<1>9. \A k \in 1 .. Len(zeros) : all[6 + k] = 0
  BY ONLY <1>2, <1>5, Zenon
<1>10. LaidOut(all, size, zeros)
  BY ONLY all \in Seq(Byte), <1>5, <1>8, <1>9, Zenon DEF LaidOut
<1>11. QED
  BY ONLY <1>7, <1>10, Zenon

\* The words of some bytes (protocol.cc:228-231).
LEMMA WordsOfBytes ==
  ASSUME NEW bytes \in Seq(Byte), NEW len \in Nat, len <= Len(bytes)
  PROVE  /\ WordsOf(bytes, len) \in Seq(Nat)
         /\ Len(WordsOf(bytes, len)) = len \div 2
         /\ len \div 2 \in Nat
         /\ \A k \in 1 .. (len \div 2) :
              /\ 2 * k - 1 \in 1 .. len /\ 2 * k \in 1 .. len
              /\ WordsOf(bytes, len)[k] = bytes[2 * k - 1] * ByteMod + bytes[2 * k]
<1>1. PICK n \in Nat : n = len \div 2 /\ 2 * n <= len
  OBVIOUS
<1>2. \A k \in 1 .. n : 2 * k - 1 \in 1 .. len /\ 2 * k \in 1 .. len
  BY <1>1
<1>3. WordsOf(bytes, len) = [k \in 1 .. n |-> bytes[2 * k - 1] * ByteMod + bytes[2 * k]]
  BY <1>1 DEF WordsOf
<1>4. ASSUME NEW k \in 1 .. n PROVE bytes[2 * k - 1] * ByteMod + bytes[2 * k] \in Nat
  <2>1. PICK i \in 1 .. Len(bytes), j \in 1 .. Len(bytes) : i = 2 * k - 1 /\ j = 2 * k
    BY <1>2
  <2>2. bytes[i] \in Byte /\ bytes[j] \in Byte
    OBVIOUS
  <2>3. PICK x \in Nat, y \in Nat : x = bytes[i] /\ y = bytes[j]
    BY <2>2 DEF Byte
  <2>4. x * ByteMod + y \in Nat
    BY WordsAreMany
  <2>5. QED
    BY <2>1, <2>3, <2>4
<1>5. WordsOf(bytes, len) \in [1 .. n -> Nat]
  BY <1>3, <1>4
<1>6. WordsOf(bytes, len) \in Seq(Nat) /\ Len(WordsOf(bytes, len)) = n
  BY <1>5, SeqDef
<1>7. QED
  BY <1>1, <1>2, <1>3, <1>6

\* The zeros after the part that is summed, and the byte that makes a word of the
\* last one, change no sum (protocol.cc:167-172).
LEMMA PaddingIsZeros ==
  ASSUME NEW message \in Seq(Byte), NEW n \in 0 .. Len(message), NEW c \in 0 .. n,
         c % 2 = 0, \A k \in (c + 1) .. n : message[k] = 0
  PROVE  LET padded == Padded(SubSeq(message, 1, n))
         IN  SumOf(WordsOf(padded, Len(padded))) = SumOf(WordsOf(message, c))
<1> DEFINE padded == Padded(SubSeq(message, 1, n))
           v == WordsOf(message, c)
           w == WordsOf(padded, Len(padded))
<1>1. /\ SubSeq(message, 1, n) \in Seq(Byte) /\ Len(SubSeq(message, 1, n)) = n
      /\ \A k \in 1 .. n : SubSeq(message, 1, n)[k] = message[k]
  <2>1. \A k \in 1 .. n : message[k] \in Byte
    OBVIOUS
  <2>2. n \in Nat /\ n - 1 + 1 = n /\ (~ (1 <= n) => n = 0) /\ \A k \in 1 .. n : 1 + k - 1 = k
    OBVIOUS
  <2>3. QED
    BY <2>1, <2>2, SubSeqProperties
<1>2. PICK body \in Seq(Byte) : body = SubSeq(message, 1, n)
  BY <1>1
<1>3. 0 \in Byte
  BY WordsAreMany DEF Byte
<1>4. PICK all \in Seq(Byte) :
        /\ all = padded
        /\ Len(all) % 2 = 0 /\ Len(all) >= n
        /\ \A k \in 1 .. n : all[k] = message[k]
        /\ \A k \in (n + 1) .. Len(all) : all[k] = 0
  <2>1. CASE n % 2 = 1
    <3>1. padded = Append(body, 0)
      BY <1>1, <1>2, <2>1 DEF Padded
    <3>2. /\ Append(body, 0) \in Seq(Byte) /\ Len(Append(body, 0)) = n + 1
          /\ \A k \in 1 .. n : Append(body, 0)[k] = message[k]
          /\ Append(body, 0)[n + 1] = 0
      BY <1>1, <1>2, <1>3
    <3>3. (n + 1) % 2 = 0 /\ \A k \in (n + 1) .. (n + 1) : k = n + 1
      BY <2>1
    <3>4. QED
      BY <3>1, <3>2, <3>3
  <2>2. CASE n % 2 # 1
    <3>1. padded = body
      BY <1>1, <1>2, <2>2 DEF Padded
    <3>2. n % 2 = 0 /\ (n + 1) .. n = {}
      BY <2>2
    <3>3. QED
      BY <1>1, <1>2, <3>1, <3>2
  <2>3. QED
    BY <2>1, <2>2
<1>5. /\ v \in Seq(Nat) /\ Len(v) = c \div 2
      /\ \A k \in 1 .. (c \div 2) : /\ 2 * k - 1 \in 1 .. c /\ 2 * k \in 1 .. c
                                    /\ v[k] = message[2 * k - 1] * ByteMod + message[2 * k]
  <2>1. c \in Nat /\ c <= Len(message)
    OBVIOUS
  <2>2. QED
    BY <2>1, WordsOfBytes
<1>6. /\ w \in Seq(Nat) /\ Len(w) = Len(all) \div 2
      /\ \A k \in 1 .. (Len(all) \div 2) :
           /\ 2 * k - 1 \in 1 .. Len(all) /\ 2 * k \in 1 .. Len(all)
           /\ w[k] = all[2 * k - 1] * ByteMod + all[2 * k]
  <2>1. w = WordsOf(all, Len(all)) /\ Len(all) \in Nat /\ Len(all) <= Len(all)
    BY <1>4
  <2>2. /\ w \in Seq(Nat) /\ Len(w) = Len(all) \div 2
    BY <1>4, <2>1, WordsOfBytes
  <2>3. \A k \in 1 .. (Len(all) \div 2) :
           /\ 2 * k - 1 \in 1 .. Len(all) /\ 2 * k \in 1 .. Len(all)
           /\ w[k] = all[2 * k - 1] * ByteMod + all[2 * k]
    BY <1>4, <2>1, WordsOfBytes
  <2>4. QED
    BY ONLY <2>2, <2>3
<1>7. PICK m \in Nat, l \in Nat :
        m = c \div 2 /\ l = Len(all) \div 2 /\ c = 2 * m /\ Len(all) = 2 * l /\ m <= l
  <2>1. PICK a \in Nat : a = Len(all)
    OBVIOUS
  <2>2. c <= a /\ a % 2 = 0 /\ c \in Nat
    BY <1>4, <2>1
  <2>3. /\ c \div 2 \in Nat /\ a \div 2 \in Nat /\ c = 2 * (c \div 2) /\ a = 2 * (a \div 2)
        /\ c \div 2 <= a \div 2
    BY <2>2
  <2>4. QED
    BY <2>1, <2>3
<1> HIDE DEF padded, v, w
<1>8. \A k \in 1 .. m : w[k] = v[k]
  <2>1. ASSUME NEW k \in 1 .. m PROVE w[k] = v[k]
    <3>1. PICK i \in 1 .. c, j \in 1 .. c : i = 2 * k - 1 /\ j = 2 * k
      BY <1>7
    <3>2. all[i] = message[i] /\ all[j] = message[j]
      BY <1>4
    <3>3. k \in 1 .. l
      BY <1>7
    <3>4. QED
      BY <1>5, <1>6, <1>7, <3>1, <3>2, <3>3
  <2>2. QED
    BY <2>1
<1>9. \A k \in (m + 1) .. l : w[k] = 0
  <2>1. ASSUME NEW k \in (m + 1) .. l PROVE w[k] = 0
    <3>1. PICK i \in Nat, j \in Nat : i = 2 * k - 1 /\ j = 2 * k
      OBVIOUS
    <3>2. i \in (c + 1) .. Len(all) /\ j \in (c + 1) .. Len(all)
      BY <1>7, <3>1
    <3>3. \A h \in (c + 1) .. Len(all) : all[h] = 0
      <4>1. \A h \in (c + 1) .. Len(all) : h \in (c + 1) .. n \/ h \in (n + 1) .. Len(all)
        BY <1>4
      <4>2. \A h \in (c + 1) .. n : h \in 1 .. n
        OBVIOUS
      <4>3. QED
        BY <1>4, <4>1, <4>2
    <3>4. all[i] = 0 /\ all[j] = 0 /\ k \in 1 .. l
      BY <3>2, <3>3, <1>7
    <3>5. 0 * ByteMod + 0 = 0
      BY WordsAreMany
    <3>6. QED
      BY <1>6, <1>7, <3>1, <3>4, <3>5
  <2>2. QED
    BY <2>1
<1>10. SumOf(w) = Sums(w)[m]
  BY <1>6, <1>7, <1>9, ZerosAddNothing
<1>11. Sums(w)[m] = Sums(v)[m]
  <2>1. v \in Seq(Nat) /\ w \in Seq(Nat) /\ m <= Len(v) /\ m <= Len(w)
    BY <1>5, <1>6, <1>7
  <2>2. QED
    BY ONLY <2>1, <1>8, m \in Nat, SumsOfSame
<1>12. SumOf(v) = Sums(v)[m]
  BY <1>5, <1>7 DEF SumOf
<1>13. QED
  BY <1>10, <1>11, <1>12 DEF padded, v, w

\* A header whose complement stands in one of its fields adds up to the largest
\* word (protocol.cc:159-160, :167-172).
LEMMA SumHolds ==
  ASSUME NEW words, NEW sum \in Nat, SumOf(words) = sum + Complement(sum)
  PROVE  OnesSum(words) = WordMod - 1
<1>1. PICK c \in Nat : c = Complement(sum) /\ sum + c > 0
                       /\ 1 + ((sum + c - 1) % (WordMod - 1)) = WordMod - 1
  BY ComplementHolds
<1>2. SumOf(words) = sum + c /\ SumOf(words) # 0
  BY <1>1
<1>3. QED
  BY <1>1, <1>2 DEF OnesSum

\* The IP header's words (protocol.cc:147-160).
LEMMA HeaderSum ==
  ASSUME NEW length \in Nat, NEW sum \in Nat
  PROVE  /\ SumOf(IpHeader(length, sum)) = SumOf(IpWords) + length + sum + SumOf(AddrWords)
         /\ SumOf(IpWords) \in Nat /\ SumOf(AddrWords) \in Nat
<1>1. IpWords \in Seq(Nat) /\ AddrWords \in Seq(Nat)
  BY FrameAssumption, WordsAreMany DEF Word
<1>2. PICK v \in Seq(Nat), w \in Seq(Nat) : v = IpWords /\ w = AddrWords
  BY <1>1
<1>3. <<length, sum>> \in Seq(Nat)
  OBVIOUS
<1>4. PICK fields \in Seq(Nat) : fields = <<length, sum>>
  BY <1>3
<1>5. SumOf(fields) = length + sum
  <2>1. Len(fields) = 2 /\ fields[1] = length /\ fields[2] = sum
    BY <1>4
  <2>2. QED
    BY <2>1, SumOfFields
<1>6. v \o fields \in Seq(Nat)
  OBVIOUS
<1>7. SumOf(v \o fields) = SumOf(v) + SumOf(fields) /\ SumOf(v) \in Nat
  BY SumOfConcat
<1>8. SumOf((v \o fields) \o w) = SumOf(v \o fields) + SumOf(w) /\ SumOf(w) \in Nat
  BY <1>6, SumOfConcat
<1>9. IpHeader(length, sum) = (v \o fields) \o w
  BY <1>2, <1>4 DEF IpHeader
<1>10. SumOf((v \o fields) \o w) = SumOf(v) + length + sum + SumOf(w)
  BY <1>5, <1>7, <1>8
<1>11. QED
  BY <1>2, <1>7, <1>8, <1>9, <1>10

\* The words of the pseudo header, the UDP header and the message
\* (protocol.cc:217-231).
LEMMA SegmentSum ==
  ASSUME NEW fields \in Seq(Nat), NEW words \in Seq(Nat)
  PROVE  SumOf(AddrWords \o fields \o words)
         = SumOf(AddrWords) + SumOf(fields) + SumOf(words)
<1>1. AddrWords \in Seq(Nat)
  BY FrameAssumption, WordsAreMany DEF Word
<1>2. PICK v \in Seq(Nat) : v = AddrWords
  BY <1>1
<1>3. v \o fields \in Seq(Nat)
  OBVIOUS
<1>4. SumOf(v \o fields) = SumOf(v) + SumOf(fields)
  BY SumOfConcat
<1>5. SumOf((v \o fields) \o words) = SumOf(v \o fields) + SumOf(words)
  BY <1>3, SumOfConcat
<1>6. AddrWords \o fields \o words = (v \o fields) \o words
  BY <1>2
<1>7. QED
  BY ONLY <1>2, <1>4, <1>5, <1>6

\* The receiver takes every frame whose message has nothing but zeros after the
\* even number of bytes that are summed (protocol.cc:135-178).
THEOREM FrameHolds ==
  ASSUME NEW mac, NEW srcPort \in Nat, NEW dstPort \in Nat,
         NEW message \in Seq(Byte), NEW datalen \in 0 .. Len(message),
         NEW checksumLength \in 1 .. datalen, checksumLength % 2 = 0,
         \A k \in (checksumLength + 1) .. datalen : message[k] = 0
  PROVE  Accepted(BuildFrame(mac, srcPort, dstPort, message, datalen, checksumLength))
<1> DEFINE f == BuildFrame(mac, srcPort, dstPort, message, datalen, checksumLength)
           summed == WordsOf(message, checksumLength)
           padded == Padded(SubSeq(message, 1, datalen))
           received == WordsOf(padded, Len(padded))
<1>1. PICK ipLen \in Nat, udpLen \in Nat, source \in Nat, dest \in Nat :
        /\ ipLen = Ip4HdrLen + UdpHdrLen + datalen
        /\ udpLen = UdpHdrLen + datalen
        /\ ipLen = Ip4HdrLen + udpLen
        /\ source = srcPort % WordMod
        /\ dest = dstPort % WordMod
  <2>1. srcPort % WordMod \in Nat /\ dstPort % WordMod \in Nat
    BY WordsAreMany
  <2>2. /\ Ip4HdrLen + UdpHdrLen + datalen \in Nat /\ UdpHdrLen + datalen \in Nat
        /\ Ip4HdrLen + UdpHdrLen + datalen = Ip4HdrLen + (UdpHdrLen + datalen)
    BY DEF UdpHdrLen, Ip4HdrLen
  <2>3. QED
    BY <2>1, <2>2
<1>2. UdpProto \in Nat
  BY WordsAreMany DEF UdpProto
<1>3. summed \in Seq(Nat)
  BY WordsOfBytes
<1>4. PICK header \in Nat : header = SumOf(IpHeader(ipLen, 0))
                            /\ header = SumOf(IpWords) + ipLen + SumOf(AddrWords)
  <2>1. SumOf(IpHeader(ipLen, 0)) = SumOf(IpWords) + ipLen + 0 + SumOf(AddrWords)
        /\ SumOf(IpWords) \in Nat /\ SumOf(AddrWords) \in Nat
    BY HeaderSum
  <2>2. QED
    BY <2>1
<1>5. PICK data \in Nat, addrs \in Nat : data = SumOf(summed) /\ addrs = SumOf(AddrWords)
  BY <1>1, <1>3, SumOfConcat, HeaderSum
<1>6. PICK pseudo \in Nat :
        pseudo = addrs + UdpProto + udpLen + source + dest + udpLen + data
  BY <1>2
<1>7. /\ f.ipLen = ipLen /\ f.udpLen = udpLen
      /\ f.ipSum = Complement(header)
      /\ f.source = source /\ f.dest = dest
      /\ f.check = Complement(pseudo)
      /\ f.message = SubSeq(message, 1, datalen)
  <2>1. checksumLength # 0 /\ checksumLength % 2 # 1
    OBVIOUS
  <2>2. addrs + UdpProto + udpLen + source + dest + udpLen + data + 0 = pseudo
    BY <1>2, <1>6
  <2>3. Udp4Checksum2(source, dest, udpLen, message, checksumLength) = Complement(pseudo)
    BY <1>5, <2>1, <2>2 DEF Udp4Checksum2
  <2>4. QED
    BY <1>1, <1>4, <2>1, <2>3 DEF BuildFrame, Checksum
<1>8. SubSeq(message, 1, datalen) \in Seq(Byte) /\ Len(SubSeq(message, 1, datalen)) = datalen
  <2>1. \A k \in 1 .. datalen : message[k] \in Byte
    OBVIOUS
  <2>2. datalen \in Int /\ datalen - 1 + 1 = datalen /\ (~ (1 <= datalen) => datalen = 0)
    OBVIOUS
  <2>3. QED
    BY <2>1, <2>2, SubSeqProperties
<1>9. received \in Seq(Nat) /\ SumOf(received) = data
  <2>1. padded \in Seq(Byte)
    <3>1. 0 \in Byte
      BY WordsAreMany DEF Byte
    <3>2. \A b \in Seq(Byte) : Append(b, 0) \in Seq(Byte)
      BY <3>1
    <3>3. QED
      BY <1>8, <3>2 DEF Padded
  <2>2. received \in Seq(Nat)
    <3>1. PICK b \in Seq(Byte) : b = padded
      BY <2>1
    <3>2. Len(b) \in Nat /\ Len(b) <= Len(b)
      OBVIOUS
    <3>3. WordsOf(b, Len(b)) \in Seq(Nat)
      BY <3>2, WordsOfBytes
    <3>4. QED
      BY <3>1, <3>3
  <2>3. checksumLength \in 0 .. datalen
    OBVIOUS
  <2>4. SumOf(received) = SumOf(summed)
    BY <2>3, PaddingIsZeros
  <2>5. QED
    BY <1>5, <2>2, <2>4
<1> HIDE DEF f, padded, received, summed
<1>10. OnesSum(IpHeader(f.ipLen, f.ipSum)) = WordMod - 1
  <2>1. PICK c \in Nat : c = Complement(header)
    BY ComplementHolds
  <2>2. SumOf(IpHeader(ipLen, c)) = SumOf(IpWords) + ipLen + c + SumOf(AddrWords)
        /\ SumOf(IpWords) \in Nat /\ SumOf(AddrWords) \in Nat
    BY HeaderSum
  <2>3. SumOf(IpHeader(ipLen, c)) = header + c
    BY ONLY <1>4, <2>2, ipLen \in Nat, c \in Nat
  <2>4. PICK words : words = IpHeader(ipLen, c)
    OBVIOUS
  <2>5. OnesSum(words) = WordMod - 1
    BY <2>1, <2>3, <2>4, SumHolds
  <2>6. QED
    BY <1>7, <2>1, <2>4, <2>5
<1>11. OnesSum(AddrWords \o <<UdpProto, f.udpLen, f.source, f.dest, f.udpLen, f.check>>
               \o received) = WordMod - 1
  <2>1. PICK c \in Nat : c = Complement(pseudo)
    BY ComplementHolds
  <2>2. PICK fields : fields = <<UdpProto, udpLen, source, dest, udpLen, c>>
    OBVIOUS
  <2>3. /\ fields \in Seq(Nat) /\ Len(fields) = 6
        /\ fields[1] = UdpProto /\ fields[2] = udpLen /\ fields[3] = source
        /\ fields[4] = dest /\ fields[5] = udpLen /\ fields[6] = c
    BY <1>2, <2>2
  <2>4. SumOf(AddrWords \o fields \o received)
        = SumOf(AddrWords) + SumOf(fields) + SumOf(received)
    BY ONLY <1>9, <2>3, SegmentSum
  <2>5. SumOf(AddrWords \o fields \o received)
        = addrs + (UdpProto + udpLen + source + dest + udpLen + c) + data
    <3>1. SumOf(fields) = fields[1] + fields[2] + fields[3] + fields[4] + fields[5] + fields[6]
      BY <2>3, SumOfFields
    <3>2. SumOf(fields) = UdpProto + udpLen + source + dest + udpLen + c
      BY ONLY <2>3, <3>1
    <3>3. QED
      BY ONLY <1>5, <1>9, <2>4, <3>2
  <2>6. PICK words : words = AddrWords \o fields \o received
    OBVIOUS
  <2>7. SumOf(words) = pseudo + c
    BY ONLY <1>2, <1>6, <2>5, <2>6, udpLen \in Nat, source \in Nat, dest \in Nat,
            c \in Nat, addrs \in Nat, data \in Nat
  <2>8. OnesSum(words) = WordMod - 1
    BY <2>1, <2>7, SumHolds
  <2>9. QED
    BY <1>7, <2>1, <2>2, <2>6, <2>8
<1>12. QED
  BY <1>1, <1>7, <1>8, <1>10, <1>11 DEF Accepted, f, padded, received
=============================================================================
