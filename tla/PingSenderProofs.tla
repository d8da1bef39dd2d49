-------------------------- MODULE PingSenderProofs --------------------------
(***************************************************************************)
(* Proofs about the reader of ping's output, for every size of the ring    *)
(* and every slack: while ping's numbers stay below the limit of the       *)
(* parse, and until a line comes of a ping the ring has passed or answered *)
(* before, the counts are exact (CountsExact) and the space of each new    *)
(* number is reset (NewSequenceReset).  MaxPings, how many pings are       *)
(* followed, is no bound of the reader's: MaxPings < ParseLimit says that  *)
(* it is followed until the numbers can no longer be parsed.               *)
(* PingSenderParse.cfg shows what happens at the limit of the parse.       *)
(*                                                                         *)
(* The inductive invariant says where the reader is, at the last number    *)
(* printed, and what the marks of this turn of the ring mean: exactly the  *)
(* pings missed have one.  The marks of earlier turns mean nothing.        *)
(***************************************************************************)
EXTENDS PingSender, FiniteSetTheorems, TLAPS

\* The n-th ping is of the turn of the ring that the last one printed is of.
ThisTurn(n) == n \div Ring = printed \div Ring

TypeOK ==
  /\ ringBuf \in [0 .. (Ring - 1) -> {0, 1}]
  /\ curSeq \in 0 .. (Ring - 1)
  /\ targetCount \in Int /\ dropCount \in Int
  /\ printed \in 0 .. MaxPings
  /\ missed \subseteq 1 .. printed
  /\ answered \subseteq 1 .. printed
  /\ strays \in Nat

AtLastPrinted == curSeq = printed % Ring

Marks ==
  \A n \in 1 .. printed : ThisTurn(n) => (ringBuf[n % Ring] # 0 <=> n \in missed)

\* What holds until a line strays.
ReaderInv == TypeOK /\ strays = 0 /\ AtLastPrinted /\ Marks /\ CountsExact

SenderInv == TypeOK /\ (strays = 0 => ReaderInv)

----------------------------------------------------------------------------
(* The ring's arithmetic.                                                  *)

\* A number is a turn of the ring and a space in it (ping_otelsender.go:103).
LEMMA Space ==
  ASSUME NEW n \in Nat
  PROVE  /\ n \div Ring \in Nat
         /\ n % Ring \in 0 .. (Ring - 1)
         /\ n = Ring * (n \div Ring) + (n % Ring)
<1>1. QED
  BY RingAssumption

\* The number after n has the next space, or the first one of the next turn
\* (ping_otelsender.go:103).
LEMMA NextSpace ==
  ASSUME NEW n \in Nat
  PROVE  \/ /\ (n + 1) \div Ring = n \div Ring
            /\ (n + 1) % Ring = (n % Ring) + 1
         \/ /\ (n + 1) \div Ring = (n \div Ring) + 1
            /\ (n + 1) % Ring = 0
            /\ n % Ring = Ring - 1
<1>1. QED
  BY RingAssumption

\* Below the limit of the parse the space of a ping is that of its number
\* (ping_otelsender.go:102-103).
LEMMA IndexIs ==
  ASSUME MaxPings < ParseLimit, NEW n \in 0 .. MaxPings
  PROVE  Index(n) = n % Ring
<1>1. n \in Nat /\ n < ParseLimit /\ n < PingMod
  BY RingAssumption
<1>2. n % PingMod = n
  BY <1>1, RingAssumption
<1>3. QED
  BY <1>1, <1>2 DEF Index, IcmpSeq

----------------------------------------------------------------------------
(* The lines.                                                              *)

\* The first line of a ping resets its space and no other of this turn
\* (ping_otelsender.go:104-108).
LEMMA FirstSpace ==
  ASSUME MaxPings < ParseLimit, ReaderInv, printed < MaxPings,
         NEW k \in 0 .. MaxPings, k = printed + 1
  PROVE  /\ Index(k) = k % Ring /\ k % Ring \in 0 .. (Ring - 1)
         /\ IsNew(Index(k))
         /\ Opened(Index(k)) = [ringBuf EXCEPT ![k % Ring] = 0]
         /\ \A n \in 1 .. printed :
              n \div Ring = k \div Ring => ThisTurn(n) /\ n % Ring # k % Ring
<1>1. printed \in Nat /\ k \in Nat /\ curSeq = printed % Ring
  BY RingAssumption DEF ReaderInv, TypeOK, AtLastPrinted
<1>2. Index(k) = k % Ring /\ k % Ring \in 0 .. (Ring - 1)
  BY <1>1, IndexIs, Space
<1>3. \/ /\ k \div Ring = printed \div Ring
         /\ k % Ring = (printed % Ring) + 1
      \/ /\ k \div Ring = (printed \div Ring) + 1
         /\ k % Ring = 0
         /\ printed % Ring = Ring - 1
  BY <1>1, NextSpace
<1>4. IsNew(Index(k))
  <2>1. printed % Ring \in 0 .. (Ring - 1)
    BY <1>1, Space
  <2>2. QED
    BY <1>1, <1>2, <1>3, <2>1, RingAssumption DEF IsNew
<1>5. ASSUME NEW n \in 1 .. printed, n \div Ring = k \div Ring
      PROVE  ThisTurn(n) /\ n % Ring # k % Ring
  <2>1. /\ n \in Nat /\ n < k
        /\ n = Ring * (n \div Ring) + (n % Ring)
        /\ k = Ring * (k \div Ring) + (k % Ring)
        /\ k \div Ring \in Nat
        /\ n % Ring \in 0 .. (Ring - 1)
    BY <1>1, Space
  <2>2. n % Ring < k % Ring
    BY <1>1, <1>2, <1>5, <2>1, RingAssumption
  <2>3. k % Ring # 0
    BY <1>2, <2>1, <2>2
  <2>4. QED
    BY <1>2, <1>3, <1>5, <2>1, <2>2, <2>3 DEF ThisTurn
<1>6. QED
  BY <1>2, <1>4, <1>5 DEF Opened

\* A later line of a ping missed in this turn finds its mark, and nothing is reset
\* (ping_otelsender.go:104-108).
LEMMA LaterSpace ==
  ASSUME MaxPings < ParseLimit, ReaderInv, NEW n \in missed, InTime(n)
  PROVE  /\ Index(n) = n % Ring
         /\ ~ IsNew(Index(n))
         /\ Opened(Index(n)) = ringBuf
         /\ ringBuf[Index(n)] # 0
<1>1. /\ printed \in Nat /\ n \in 1 .. printed /\ n \in 0 .. MaxPings /\ n \in Nat
      /\ curSeq = printed % Ring
  BY RingAssumption DEF ReaderInv, TypeOK, AtLastPrinted
<1>2. Index(n) = n % Ring
  BY <1>1, IndexIs
<1>3. n \div Ring = printed \div Ring /\ printed - n <= Slack
  BY DEF InTime
<1>4. ~ IsNew(Index(n))
  <2>1. /\ n = Ring * (n \div Ring) + (n % Ring)
        /\ printed = Ring * (printed \div Ring) + (printed % Ring)
        /\ n \div Ring \in Nat
        /\ n % Ring \in Int /\ printed % Ring \in Int
    BY <1>1, Space, RingAssumption
  <2>2. n % Ring <= curSeq /\ curSeq - (n % Ring) <= Slack
    BY <1>1, <1>3, <2>1, RingAssumption
  <2>3. QED
    BY <1>1, <1>2, <2>1, <2>2, RingAssumption DEF IsNew
<1>5. ringBuf[n % Ring] # 0
  BY <1>1, <1>3 DEF ReaderInv, Marks, ThisTurn
<1>6. QED
  BY <1>2, <1>4, <1>5 DEF Opened

\* The pings missed and not answered, which dropCount counts, are finitely many
\* (ping_otelsender.go:113-134).
LEMMA Dropped ==
  ASSUME ReaderInv
  PROVE  IsFiniteSet(missed \ answered) /\ IsFiniteSet(missed)
<1>1. printed \in Int /\ missed \in SUBSET (1 .. printed)
  BY RingAssumption DEF ReaderInv, TypeOK
<1>2. IsFiniteSet(1 .. printed)
  BY <1>1, FS_Interval
<1>3. missed \ answered \in SUBSET (1 .. printed)
  BY <1>1
<1>4. QED
  BY <1>1, <1>2, <1>3, FS_Subset

\* The first line of a ping counts it, as a drop if it is a miss, and leaves the
\* mark of a miss (ping_otelsender.go:103-138).
LEMMA FirstLineStep ==
  ASSUME MaxPings < ParseLimit, ReaderInv, FirstLine
  PROVE  ReaderInv' /\ IsNew(Index(printed'))
<1>1. PICK k \in 0 .. MaxPings : k = printed + 1 /\ printed' = k /\ printed < MaxPings
  BY RingAssumption DEF FirstLine, ReaderInv, TypeOK
<1>2. PICK r \in 0 .. (Ring - 1) : r = k % Ring
  BY <1>1, FirstSpace
<1>3. /\ Index(k) = r
      /\ IsNew(Index(k))
      /\ Opened(Index(k)) = [ringBuf EXCEPT ![r] = 0]
      /\ \A n \in 1 .. printed : n \div Ring = k \div Ring => ThisTurn(n) /\ n % Ring # r
  BY <1>1, <1>2, FirstSpace
<1>4. /\ Index(printed') = r
      /\ IsNew(Index(printed')) /\ Opened(Index(printed')) = [ringBuf EXCEPT ![r] = 0]
  BY <1>1, <1>3 DEF IsNew, Opened
<1>5. /\ ringBuf \in [0 .. (Ring - 1) -> {0, 1}]
      /\ targetCount \in Int /\ dropCount \in Int /\ printed \in Nat
      /\ missed \subseteq 1 .. printed /\ answered \subseteq 1 .. printed
      /\ k \notin missed /\ k \notin answered
  BY <1>1, RingAssumption DEF ReaderInv, TypeOK
<1>6. /\ curSeq' = r
      /\ targetCount' = targetCount + 1
      /\ \/ /\ ringBuf' = [ringBuf EXCEPT ![r] = 1]
            /\ dropCount' = dropCount + 1
            /\ missed' = missed \cup {k} /\ answered' = answered
         \/ /\ ringBuf' = [ringBuf EXCEPT ![r] = 0]
            /\ dropCount' = dropCount
            /\ missed' = missed /\ answered' = answered \cup {k}
  <2>1. CASE MissLine(printed')
    BY <1>1, <1>4, <1>5, <2>1 DEF MissLine
  <2>2. CASE AnswerLine(printed')
    BY <1>1, <1>4, <1>5, <2>2 DEF AnswerLine, CountAnswer
  <2>3. QED
    BY <2>1, <2>2 DEF FirstLine
<1>7. TypeOK' /\ AtLastPrinted'
  <2>1. AtLastPrinted'
    BY <1>1, <1>2, <1>6 DEF AtLastPrinted
  <2>2. ringBuf' \in [0 .. (Ring - 1) -> {0, 1}]
    BY <1>5, <1>6
  <2>3. targetCount' \in Int /\ dropCount' \in Int
    BY <1>5, <1>6
  <2>4. missed' \subseteq 1 .. k /\ answered' \subseteq 1 .. k
    <3>1. 1 .. printed \subseteq 1 .. k /\ k \in 1 .. k
      BY <1>1, <1>5
    <3>2. QED
      BY <1>5, <1>6, <3>1
  <2>5. strays' \in Nat
    BY DEF FirstLine, ReaderInv
  <2>6. QED
    BY <1>1, <1>6, <2>1, <2>2, <2>3, <2>4, <2>5 DEF TypeOK
<1>8. Marks'
  <2> SUFFICES ASSUME NEW n \in 1 .. k, n \div Ring = k \div Ring
               PROVE  ringBuf'[n % Ring] # 0 <=> n \in missed'
    BY <1>1 DEF Marks, ThisTurn
  <2>1. CASE n = k
    <3>1. ringBuf'[r] # 0 <=> k \in missed'
      BY <1>5, <1>6, RingAssumption
    <3>2. QED
      BY <1>2, <2>1, <3>1
  <2>2. CASE n # k
    <3>1. n \in 1 .. printed /\ ThisTurn(n) /\ n % Ring # r
      BY <1>1, <1>3, <1>5, <2>2
    <3>2. ringBuf[n % Ring] # 0 <=> n \in missed
      BY <3>1 DEF ReaderInv, Marks
    <3>3. n % Ring \in 0 .. (Ring - 1)
      BY <1>5, <3>1, Space
    <3>4. QED
      BY <1>5, <1>6, <2>2, <3>1, <3>2, <3>3
  <2>3. QED
    BY <2>1, <2>2
<1>9. CountsExact'
  <2>1. targetCount' = printed'
    BY <1>1, <1>6 DEF ReaderInv, CountsExact
  <2>2. IsFiniteSet(missed \ answered) /\ dropCount = Cardinality(missed \ answered)
    BY Dropped DEF ReaderInv, CountsExact
  <2>3. CASE missed' = missed \cup {k} /\ answered' = answered /\ dropCount' = dropCount + 1
    <3>1. missed' \ answered' = (missed \ answered) \cup {k} /\ k \notin missed \ answered
      BY <1>5, <2>3
    <3>2. Cardinality((missed \ answered) \cup {k}) = Cardinality(missed \ answered) + 1
      BY <2>2, <3>1, FS_AddElement
    <3>3. QED
      BY <2>1, <2>2, <2>3, <3>1, <3>2 DEF CountsExact
  <2>4. CASE missed' = missed /\ answered' = answered \cup {k} /\ dropCount' = dropCount
    <3>1. missed' \ answered' = missed \ answered
      BY <1>5, <2>4
    <3>2. QED
      BY <2>1, <2>2, <2>4, <3>1 DEF CountsExact
  <2>5. QED
    BY <1>6, <2>3, <2>4
<1>10. strays' = 0
  BY DEF FirstLine, ReaderInv
<1>11. QED
  BY <1>4, <1>7, <1>8, <1>9, <1>10 DEF ReaderInv

\* A later line of a ping of this turn: a miss changes nothing, and a late answer
\* takes back the drop, while the ping stays counted (ping_otelsender.go:109-134).
LEMMA LaterLineStep ==
  ASSUME MaxPings < ParseLimit, ReaderInv, LaterLine, strays' = 0
  PROVE  ReaderInv'
<1>1. PICK n \in missed \ answered :
        /\ MissLine(n) \/ AnswerLine(n)
        /\ strays' = IF InTime(n) THEN strays ELSE strays + 1
  BY DEF LaterLine
<1>2. InTime(n) /\ printed' = printed /\ strays' = strays
  BY <1>1 DEF LaterLine, ReaderInv
<1>3. ~ IsNew(Index(n)) /\ Opened(Index(n)) = ringBuf /\ ringBuf[Index(n)] # 0
  BY <1>1, <1>2, LaterSpace
<1>4. CASE MissLine(n)
  <2>1. missed' = missed
    BY <1>1, <1>4 DEF MissLine
  <2>2. UNCHANGED vars
    BY <1>2, <1>3, <1>4, <2>1 DEF MissLine, vars
  <2>3. QED
    BY <2>2 DEF ReaderInv, TypeOK, AtLastPrinted, Marks, ThisTurn, CountsExact, vars
<1>5. CASE AnswerLine(n)
  <2>1. /\ UNCHANGED <<ringBuf, curSeq, targetCount, missed>>
        /\ dropCount' = dropCount - 1
        /\ answered' = answered \cup {n}
    BY <1>1, <1>3, <1>5 DEF AnswerLine, CountAnswer
  <2>2. TypeOK' /\ AtLastPrinted' /\ Marks'
    BY <1>1, <1>2, <2>1 DEF ReaderInv, TypeOK, AtLastPrinted, Marks, ThisTurn
  <2>3. CountsExact'
    <3>1. missed' \ answered' = (missed \ answered) \ {n}
      BY <2>1
    <3>2. Cardinality((missed \ answered) \ {n}) = Cardinality(missed \ answered) - 1
      BY <1>1, Dropped, FS_RemoveElement
    <3>3. QED
      BY <1>2, <2>1, <3>1, <3>2 DEF ReaderInv, CountsExact
  <2>4. QED
    BY <1>2, <2>2, <2>3 DEF ReaderInv
<1>6. QED
  BY <1>1, <1>4, <1>5

\* A line changes the ring and the counts in their ranges, wherever its ping is
\* (ping_otelsender.go:103-138).
LEMMA LineTypes ==
  ASSUME TypeOK, NEW n \in Nat, MissLine(n) \/ AnswerLine(n)
  PROVE  /\ ringBuf' \in [0 .. (Ring - 1) -> {0, 1}]
         /\ curSeq' \in 0 .. (Ring - 1)
         /\ targetCount' \in Int /\ dropCount' \in Int
<1>1. IcmpSeq(n) \in Nat
  BY RingAssumption DEF IcmpSeq
<1>2. Index(n) \in 0 .. (Ring - 1)
  BY <1>1, Space DEF Index
<1>3. Opened(Index(n)) \in [0 .. (Ring - 1) -> {0, 1}]
  BY <1>2 DEF Opened, TypeOK
<1>4. CASE MissLine(n)
  BY <1>2, <1>3, <1>4 DEF MissLine, TypeOK
<1>5. CASE AnswerLine(n)
  BY <1>2, <1>3, <1>5 DEF AnswerLine, CountAnswer, TypeOK
<1>6. QED
  BY <1>4, <1>5

\* The types hold of stray lines too (ping_otelsender.go:89-140).
LEMMA TypeStep ==
  ASSUME TypeOK, Next
  PROVE  TypeOK'
<1>1. printed \in Nat /\ strays \in Nat /\ MaxPings \in Nat
  BY RingAssumption DEF TypeOK
<1>2. CASE FirstLine
  <2>1. /\ printed' = printed + 1 /\ printed' \in 0 .. MaxPings /\ printed' \in Nat
        /\ strays' = strays
    BY <1>1, <1>2 DEF FirstLine, TypeOK
  <2>2. MissLine(printed') \/ AnswerLine(printed')
    BY <1>2 DEF FirstLine
  <2>3. /\ missed' \subseteq missed \cup {printed'}
        /\ answered' \subseteq answered \cup {printed'}
    BY <2>2 DEF MissLine, AnswerLine
  <2>4. missed' \subseteq 1 .. printed' /\ answered' \subseteq 1 .. printed'
    <3>1. 1 .. printed \subseteq 1 .. printed' /\ printed' \in 1 .. printed'
      BY <1>1, <2>1
    <3>2. QED
      BY <2>3, <3>1 DEF TypeOK
  <2>5. PICK k \in Nat : k = printed'
    BY <2>1
  <2>6. MissLine(k) \/ AnswerLine(k)
    BY <2>2, <2>5
  <2>7. /\ ringBuf' \in [0 .. (Ring - 1) -> {0, 1}]
        /\ curSeq' \in 0 .. (Ring - 1)
        /\ targetCount' \in Int /\ dropCount' \in Int
    BY <2>6, LineTypes
  <2>8. QED
    BY <1>1, <2>1, <2>4, <2>7 DEF TypeOK
<1>3. CASE LaterLine \/ SecondAnswer
  <2>1. PICK n \in 1 .. printed : MissLine(n) \/ AnswerLine(n)
    BY <1>3 DEF LaterLine, SecondAnswer, TypeOK
  <2>2. n \in Nat
    BY <1>1
  <2>3. missed' \subseteq 1 .. printed /\ answered' \subseteq 1 .. printed
    BY <2>1 DEF MissLine, AnswerLine, TypeOK
  <2>4. printed' = printed /\ strays' \in Nat
    BY <1>1, <1>3 DEF LaterLine, SecondAnswer
  <2>5. QED
    BY <2>1, <2>2, <2>3, <2>4, LineTypes DEF TypeOK
<1>4. QED
  BY <1>2, <1>3 DEF Next

----------------------------------------------------------------------------
(* The results.                                                            *)

\* The reader starts at number 0, before the first ping (ping_otelsender.go:86-88).
LEMMA InitReader == Init => ReaderInv
<1> SUFFICES ASSUME Init PROVE ReaderInv
  OBVIOUS
<1>1. 0 % Ring = 0
  BY RingAssumption
<1>2. TypeOK /\ AtLastPrinted /\ Marks
  BY <1>1, RingAssumption DEF Init, TypeOK, AtLastPrinted, Marks
<1>3. CountsExact
  <2>1. missed \ answered = {}
    BY DEF Init
  <2>2. QED
    BY <2>1, FS_EmptySet DEF Init, CountsExact
<1>4. strays = 0
  BY DEF Init
<1>5. QED
  BY <1>2, <1>3, <1>4 DEF ReaderInv

\* What the reader knows of the pings, while the numbers can be parsed
\* (ping_otelsender.go:89-140).
THEOREM SenderInvariant ==
  ASSUME MaxPings < ParseLimit
  PROVE  Spec => []SenderInv
<1>1. Init => SenderInv
  BY InitReader DEF SenderInv, ReaderInv
<1>2. SenderInv /\ [Next]_vars => SenderInv'
  <2> SUFFICES ASSUME SenderInv, [Next]_vars PROVE SenderInv'
    OBVIOUS
  <2>1. CASE UNCHANGED vars
    BY <2>1 DEF SenderInv, ReaderInv, TypeOK, AtLastPrinted, Marks, ThisTurn,
                CountsExact, vars
  <2>2. CASE Next
    <3>1. TypeOK'
      BY <2>2, TypeStep DEF SenderInv
    <3>2. ASSUME strays' = 0
          PROVE  ReaderInv'
      <4>1. strays \in Nat
        BY DEF SenderInv, TypeOK
      <4>2. strays = 0 /\ ~ SecondAnswer
        BY <2>2, <3>2, <4>1 DEF Next, FirstLine, LaterLine, SecondAnswer
      <4>3. ReaderInv
        BY <4>2 DEF SenderInv
      <4>4. CASE FirstLine
        BY <4>3, <4>4, FirstLineStep
      <4>5. CASE LaterLine
        BY <3>2, <4>3, <4>5, LaterLineStep
      <4>6. QED
        BY <2>2, <4>2, <4>4, <4>5 DEF Next
    <3>3. QED
      BY <3>1, <3>2 DEF SenderInv
  <2>3. QED
    BY <2>1, <2>2
<1>3. QED
  BY <1>1, <1>2, PTL DEF Spec

\* While the numbers can be parsed, and until a line comes of a ping the ring has
\* passed or answered before, every ping is a target once and the drops are the
\* pings missed and not answered since, for every ring and however often it turns
\* (ping_otelsender.go:103-138).
THEOREM Exactness ==
  ASSUME MaxPings < ParseLimit
  PROVE  Spec => []CountsExact
<1>1. SenderInv => CountsExact
  BY DEF SenderInv, ReaderInv, CountsExact
<1>2. QED
  BY <1>1, SenderInvariant, PTL

\* Under the same condition, and until the same lines, the first line of a ping
\* finds its space reset (ping_otelsender.go:104-108).
THEOREM SpaceReset ==
  ASSUME MaxPings < ParseLimit
  PROVE  Spec => NewSequenceReset
<1>1. SenderInv /\ [Next]_vars =>
        [printed' # printed /\ strays = 0 => IsNew(Index(printed'))]_vars
  <2> SUFFICES ASSUME SenderInv, Next, printed' # printed, strays = 0
               PROVE  IsNew(Index(printed'))
    OBVIOUS
  <2>1. FirstLine
    BY DEF Next, LaterLine, SecondAnswer
  <2>2. QED
    BY <2>1, FirstLineStep DEF SenderInv
<1>2. QED
  BY <1>1, SenderInvariant, PTL DEF Spec, NewSequenceReset
=============================================================================
