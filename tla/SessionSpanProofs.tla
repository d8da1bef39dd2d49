------------------------- MODULE SessionSpanProofs -------------------------
(***************************************************************************)
(* Proofs about the sequence window: what recordSeq does to either end of  *)
(* a session, and that a session counts exactly what its client sent.      *)
(***************************************************************************)
EXTENDS SessionSpan, TLAPS

\* Wrapped addition stays in the range of seqnum_t, for steps of either sign
\* smaller than the counter (the unsigned arithmetic of serversession.cc:44-49).
LEMMA ShiftSeqnum ==
  ASSUME NEW a \in Seqnum, NEW k \in -(SeqMod - 1) .. (SeqMod - 1)
  PROVE  Shift(a, k) \in Seqnum
BY WindowAssumption DEF Shift, Seqnum

\* The wrapped difference of two positions is their true distance, whichever
\* of the two the counter wrapped before (serversession.cc:45 and 49).
LEMMA DistanceOfShifts ==
  ASSUME NEW a \in Seqnum,
         NEW m \in Int, NEW n \in Int,
         -SeqMod < m, m <= n, n < SeqMod, n - m < SeqMod
  PROVE  /\ WrapSub(Shift(a, n), Shift(a, m)) = n - m
         /\ m < n => WrapSub(Shift(a, m), Shift(a, n)) = SeqMod - (n - m)
BY WindowAssumption DEF Shift, WrapSub, Seqnum

\* recordSeq moves maxSeq to the new ping exactly when it is the newest, as
\* long as no burst of Window is skipped (serversession.cc:45-48).
LEMMA RecordMaxIsNewest ==
  ASSUME NEW a \in Seqnum,
         NEW m \in Int, NEW n \in Int,
         -SeqMod < m, m < SeqMod, -SeqMod < n, n < SeqMod,
         n < m + Window, m - n <= SeqMod - Window
  PROVE  RecordMax(Shift(a, m), Shift(a, n)) = Shift(a, IF n > m THEN n ELSE m)
<1>1. CASE n > m
  BY <1>1, DistanceOfShifts, WindowAssumption DEF RecordMax
<1>2. CASE n = m
  BY <1>2, DistanceOfShifts, WindowAssumption DEF RecordMax
<1>3. CASE n < m
  <2>1. WrapSub(Shift(a, n), Shift(a, m)) = SeqMod - (m - n)
    BY <1>3, DistanceOfShifts, WindowAssumption
  <2>2. QED
    BY <1>3, <2>1, WindowAssumption DEF RecordMax
<1>4. QED
  BY <1>1, <1>2, <1>3

\* The mirror image for minSeq (serversession.cc:49-52).
LEMMA RecordMinIsOldest ==
  ASSUME NEW a \in Seqnum,
         NEW m \in Int, NEW n \in Int,
         -SeqMod < m, m < SeqMod, -SeqMod < n, n < SeqMod,
         m - Window < n, n - m <= SeqMod - Window
  PROVE  RecordMin(Shift(a, m), Shift(a, n)) = Shift(a, IF n < m THEN n ELSE m)
<1>1. CASE n < m
  BY <1>1, DistanceOfShifts, WindowAssumption DEF RecordMin
<1>2. CASE n = m
  BY <1>2, DistanceOfShifts, WindowAssumption DEF RecordMin
<1>3. CASE n > m
  <2>1. WrapSub(Shift(a, m), Shift(a, n)) = SeqMod - (n - m)
    BY <1>3, DistanceOfShifts, WindowAssumption
  <2>2. QED
    BY <1>3, <2>1, WindowAssumption DEF RecordMin
<1>4. QED
  BY <1>1, <1>2, <1>3

\* The ends as the code keeps them and as the ghosts know them: the part of
\* SpanTracked that is inductive.
Ends ==
  /\ minSeq = Shift(first, oldest)
  /\ maxSeq = Shift(first, newest)
  /\ newest - oldest <= MaxSpan

IInv == TypeOK /\ Ends

\* A session begins at the number of its first ping (serversession.cc:21-28).
LEMMA InitIInv == Init => IInv
BY WindowAssumption, SpanAssumption DEF Init, IInv, TypeOK, Ends, Seqnum, Shift

\* A number that arrives in the window moves the end it is beyond, and no other
\* (serversession.cc:43-53).
LEMMA ArriveIInv ==
  ASSUME IInv, NEW n \in -MaxSpan .. MaxSpan, Arrive(n)
  PROVE  IInv'
<1> DEFINE low == IF n < oldest THEN n ELSE oldest
           high == IF n > newest THEN n ELSE newest
<1> USE WindowAssumption, SpanAssumption
<1>1. /\ oldest' = low
      /\ newest' = high
      /\ high - low <= MaxSpan
      /\ first' = first
      /\ maxSeq' = RecordMax(maxSeq, Shift(first, n))
      /\ minSeq' = RecordMin(minSeq, Shift(first, n))
      /\ oldest - Window < n
      /\ n < newest + Window
  BY DEF Arrive, RecordSeq
<1>2. /\ oldest \in Int /\ newest \in Int /\ n \in Int
      /\ oldest \in -MaxSpan .. 0 /\ newest \in 0 .. MaxSpan
      /\ first \in Seqnum
      /\ minSeq = Shift(first, oldest)
      /\ maxSeq = Shift(first, newest)
  BY DEF IInv, TypeOK, Ends
<1>3. maxSeq' = Shift(first, high)
  <2>1. newest - n <= SeqMod - Window
    BY <1>1, <1>2
  <2>2. RecordMax(Shift(first, newest), Shift(first, n)) = Shift(first, high)
    BY <1>1, <1>2, <2>1, RecordMaxIsNewest
  <2>3. QED
    BY <1>1, <1>2, <2>2
<1>4. minSeq' = Shift(first, low)
  <2>1. n - oldest <= SeqMod - Window
    BY <1>1, <1>2
  <2>2. RecordMin(Shift(first, oldest), Shift(first, n)) = Shift(first, low)
    BY <1>1, <1>2, <2>1, RecordMinIsOldest
  <2>3. QED
    BY <1>1, <1>2, <2>2
<1>5. low \in -MaxSpan .. 0 /\ high \in 0 .. MaxSpan
  BY <1>2
<1>6. Shift(first, low) \in Seqnum /\ Shift(first, high) \in Seqnum
  BY <1>2, <1>5, ShiftSeqnum
<1>7. QED
  BY <1>1, <1>2, <1>3, <1>4, <1>5, <1>6 DEF IInv, TypeOK, Ends

\* A session's two wrapped numbers stay the ends of what it received, for
\* every counter width and window (serversession.cc:43-53).
THEOREM EndsInvariant == Spec => []IInv
<1>1. Init => IInv
  BY InitIInv
<1>2. IInv /\ [Next]_vars => IInv'
  <2>1. ASSUME IInv, Next PROVE IInv'
    BY <2>1, ArriveIInv DEF Next
  <2>2. ASSUME IInv, UNCHANGED vars PROVE IInv'
    BY <2>2 DEF IInv, TypeOK, Ends, vars
  <2>3. QED
    BY <2>1, <2>2
<1>3. QED
  BY <1>1, <1>2, PTL DEF Spec

\* The two ends of a session keep their types (serversession.h:18-19).
THEOREM TypeInvariant == Spec => []TypeOK
<1>1. IInv => TypeOK
  BY DEF IInv
<1>2. QED
  BY <1>1, EndsInvariant, PTL

\* writeStats reports the number of pings the client sent between the first
\* and the last one received, whatever was lost, late or repeated in between
\* (serversession.cc:35-53), for every counter width and window.
THEOREM SpanInvariant == Spec => []SpanTracked
<1>1. IInv => SpanTracked
  <2> SUFFICES ASSUME IInv PROVE SpanTracked
    OBVIOUS
  <2> USE WindowAssumption, SpanAssumption
  <2>1. /\ oldest \in -MaxSpan .. 0 /\ newest \in 0 .. MaxSpan
        /\ first \in Seqnum
        /\ minSeq = Shift(first, oldest)
        /\ maxSeq = Shift(first, newest)
        /\ newest - oldest <= MaxSpan
    BY DEF IInv, TypeOK, Ends
  <2>2. WrapSub(maxSeq, minSeq) = newest - oldest
    BY <2>1, DistanceOfShifts
  <2>3. TargetCount(minSeq, maxSeq) = 1 + newest - oldest
    BY <2>1, <2>2 DEF TargetCount, Shift
  <2>4. QED
    BY <2>1, <2>3 DEF SpanTracked
<1>2. QED
  BY <1>1, EndsInvariant, PTL
=============================================================================
