---------------------------- MODULE UDPingProofs ----------------------------
(***************************************************************************)
(* The accounts of UDPing: no report counts more than it expects, and      *)
(* every loss is charged once and to the right period, for any number of   *)
(* ports, ids, pings, losses and copies.                                   *)
(*                                                                         *)
(* The sessions are followed by id (live), without their addresses: what a *)
(* ping, an alarm, a sweep and a second do to them is proved once, of the  *)
(* session manager's own operators (RecordLive, CreateLive, SweepLive,     *)
(* TickLive).  The ghosts number the pings of a port from 1 on, without    *)
(* wrapping.  The invariant has three parts:                               *)
(*   Ordered   the client's ids and numbers, what the network delivered of *)
(*             them, and the session manager's own invariant;              *)
(*   Awake, Sources   the latest id of a port has a session, silent no     *)
(*             longer than its losses last, and sourceMap holds it;        *)
(*   Accounts  a session spans the pings of its id, and its successor is   *)
(*             the id heard next (Spans); a report was of that span and of *)
(*             the losses after it (Settled).                              *)
(* Two conditions are needed and stated: a run of losses ends within the   *)
(* window and the keepalive (ShortBursts), and the pings of an id are      *)
(* fewer than the counter's values less the window (ShortPeriods).         *)
(***************************************************************************)
EXTENDS UDPing, ServerSessionsProofs, FiniteSetTheorems

----------------------------------------------------------------------------
(* Wrapped numbers.                                                        *)

\* The wrapped difference of two numbers of a client is their true distance,
\* however often the counter has wrapped, if they are less than its width apart
\* (serversession.cc:45 and 49).
LEMMA WrappedDistance ==
  ASSUME NEW m \in Nat, NEW n \in Nat, m <= n, n - m < SeqMod
  PROVE  /\ m % SeqMod \in Seqnum /\ n % SeqMod \in Seqnum
         /\ WrapSub(n % SeqMod, m % SeqMod) = n - m
         /\ m < n => WrapSub(m % SeqMod, n % SeqMod) = SeqMod - (n - m)
<1>1. PICK d \in Nat : d = SeqMod /\ d > 0
  BY WindowAssumption
<1>2. /\ n = d * (n \div d) + (n % d) /\ n \div d \in Nat /\ n % d \in 0 .. (d - 1)
      /\ m = d * (m \div d) + (m % d) /\ m \div d \in Nat /\ m % d \in 0 .. (d - 1)
  BY <1>1
<1>3. PICK a \in Nat, r \in 0 .. (d - 1) : a = n \div d /\ r = n % d
  BY <1>2
<1>4. PICK b \in Nat, t \in 0 .. (d - 1) : b = m \div d /\ t = m % d
  BY <1>2
<1>5. n = d * a + r /\ m = d * b + t
  BY <1>2, <1>3, <1>4
<1>6. d * a \in Nat /\ d * b \in Nat
  OBVIOUS
<1>7. a = b \/ a = b + 1
  <2>1. CASE a < b
    <3>1. d * (a + 1) <= d * b /\ d * (a + 1) = d * a + d
      BY <2>1
    <3>2. QED
      BY <1>1, <1>3, <1>4, <1>5, <1>6, <3>1
  <2>2. CASE b + 2 <= a
    <3>1. d * (b + 2) <= d * a /\ d * (b + 2) = d * b + d + d
      BY <2>2
    <3>2. QED
      BY <1>1, <1>3, <1>4, <1>5, <1>6, <3>1
  <2>3. QED
    BY <2>1, <2>2
<1>8. \/ d * a = d * b
      \/ d * a = d * b + d
  BY <1>7
<1>9. \/ n - m = r - t /\ t <= r
      \/ n - m = r - t + d /\ r < t
  BY <1>1, <1>3, <1>4, <1>5, <1>6, <1>8
<1>10. QED
  BY <1>1, <1>3, <1>4, <1>9 DEF WrapSub, Seqnum

\* The number before a number of a client (serversession.cc:88).
LEMMA WrappedBefore ==
  ASSUME NEW n \in Nat, n > 0
  PROVE  WrapSub(n % SeqMod, 1) = (n - 1) % SeqMod
<1>1. PICK d \in Nat : d = SeqMod /\ d > 2
  BY WindowAssumption
<1>2. PICK m \in Nat : n = m + 1
  <2>1. n - 1 \in Nat /\ n = (n - 1) + 1
    OBVIOUS
  <2>2. QED
    BY <2>1
<1>3. \/ /\ (m + 1) \div d = m \div d
         /\ (m + 1) % d = (m % d) + 1
      \/ /\ (m + 1) \div d = (m \div d) + 1
         /\ (m + 1) % d = 0
         /\ m % d = d - 1
  BY <1>1
<1>4. m % d \in 0 .. (d - 1) /\ (m + 1) % d \in 0 .. (d - 1)
  BY <1>1
<1>5. n - 1 = m
  BY <1>2
<1>6. PICK x \in 0 .. (d - 1), y \in 0 .. (d - 1) : x = m % d /\ y = (m + 1) % d
  BY <1>4
<1>7. QED
  BY <1>1, <1>2, <1>3, <1>5, <1>6 DEF WrapSub

\* Counting on from a wrapped count is wrapping the count (clientsession.cc:170).
LEMMA WrappedNext ==
  ASSUME NEW n \in Nat
  PROVE  ((n % SeqMod) + 1) % SeqMod = (n + 1) % SeqMod
<1>1. PICK d \in Nat : d = SeqMod /\ d > 0
  BY WindowAssumption
<1>2. \/ /\ (n + 1) \div d = n \div d
         /\ (n + 1) % d = (n % d) + 1
      \/ /\ (n + 1) \div d = (n \div d) + 1
         /\ (n + 1) % d = 0
         /\ n % d = d - 1
  BY <1>1
<1>3. d % d = 0 /\ \A m \in 0 .. (d - 1) : m % d = m
  BY <1>1
<1>4. n % d \in 0 .. (d - 1) /\ (n + 1) % d \in 0 .. (d - 1)
  BY <1>1
<1>5. PICK m \in 0 .. (d - 1) : m = n % d
  BY <1>4
<1>6. QED
  BY <1>1, <1>2, <1>3, <1>4, <1>5

\* recordSeq moves maxSeq on to a later number less than Window ahead
\* (serversession.cc:45-48).
LEMMA MaxMoves ==
  ASSUME NEW m \in Nat, NEW n \in Nat, m <= n, n - m < Window
  PROVE  RecordMax(m % SeqMod, n % SeqMod) = n % SeqMod
<1>1. n - m < SeqMod
  BY WindowAssumption
<1>2. WrapSub(n % SeqMod, m % SeqMod) = n - m
  BY <1>1, WrappedDistance
<1>3. CASE m = n
  BY <1>2, <1>3 DEF RecordMax
<1>4. CASE m < n
  BY <1>2, <1>4, WindowAssumption DEF RecordMax
<1>5. QED
  BY <1>3, <1>4

\* recordSeq leaves minSeq alone for a later number, unless the counter has come
\* round to it (serversession.cc:49-52).
LEMMA MinStays ==
  ASSUME NEW m \in Nat, NEW n \in Nat, m <= n, n - m <= SeqMod - Window
  PROVE  RecordMin(m % SeqMod, n % SeqMod) = m % SeqMod
<1>1. n - m < SeqMod
  BY WindowAssumption
<1>2. m < n => WrapSub(m % SeqMod, n % SeqMod) = SeqMod - (n - m)
  BY <1>1, WrappedDistance
<1>3. CASE m = n
  BY <1>3 DEF RecordMin
<1>4. CASE m < n
  BY <1>2, <1>4, WindowAssumption DEF RecordMin
<1>5. QED
  BY <1>3, <1>4

\* The target of two ends is the number of pings from one to the other
\* (serversession.cc:35-37).
LEMMA TargetOfEnds ==
  ASSUME NEW m \in Nat, NEW n \in Nat, m <= n, n - m < SeqMod - 1
  PROVE  TargetCount(m % SeqMod, n % SeqMod) = n - m + 1
<1>1. n - m < SeqMod
  BY WindowAssumption
<1>2. WrapSub(n % SeqMod, m % SeqMod) = n - m
  BY <1>1, WrappedDistance
<1>3. QED
  BY <1>2, WindowAssumption DEF TargetCount, Shift

----------------------------------------------------------------------------
(* The pings of a port.                                                    *)

Pings == [session : Port, guid : Guid, seqNum : Seqnum, stamp : Int, mac : Int]

\* How many of the first k pings of s are of port i.
Count(s, i, k) == Cardinality({j \in 1 .. k : s[j].session = i})

\* The count grows by one with each ping of the port, and by none with any other
\* (clientsession.cc:163-173).
LEMMA CountStep ==
  ASSUME NEW s, NEW i, NEW k \in Nat
  PROVE  /\ Count(s, i, k) \in Nat
         /\ s[k + 1].session = i => Count(s, i, k + 1) = Count(s, i, k) + 1
         /\ s[k + 1].session # i => Count(s, i, k + 1) = Count(s, i, k)
<1> DEFINE S == {j \in 1 .. k : s[j].session = i}
           T == {j \in 1 .. (k + 1) : s[j].session = i}
<1>1. IsFiniteSet(S)
  <2>1. IsFiniteSet(1 .. k)
    BY FS_Interval
  <2>2. QED
    BY <2>1, FS_Subset
<1>2. Cardinality(S) \in Nat
  BY <1>1, FS_CardinalityType
<1>3. CASE s[k + 1].session = i
  <2>1. T = S \cup {k + 1} /\ k + 1 \notin S
    BY <1>3
  <2>2. QED
    BY <1>1, <1>2, <1>3, <2>1, FS_AddElement DEF Count
<1>4. CASE s[k + 1].session # i
  <2>1. T = S
    BY <1>4
  <2>2. QED
    BY <1>2, <1>4, <2>1 DEF Count
<1>5. QED
  BY <1>3, <1>4

\* No ping is counted before the first (clientsession.cc:128-133).
LEMMA CountNone == \A s, i : Count(s, i, 0) = 0
<1>1. \A s, i : {j \in 1 .. 0 : s[j].session = i} = {}
  OBVIOUS
<1>2. QED
  BY <1>1, FS_EmptySet DEF Count

\* The count never falls (clientsession.cc:163-173).
LEMMA CountGrows ==
  ASSUME NEW s, NEW i, NEW j \in Nat, NEW k \in Nat, j <= k
  PROVE  Count(s, i, j) <= Count(s, i, k)
<1> DEFINE S == {x \in 1 .. j : s[x].session = i}
           T == {x \in 1 .. k : s[x].session = i}
<1>1. S \subseteq T
  OBVIOUS
<1>2. IsFiniteSet(T)
  <2>1. IsFiniteSet(1 .. k)
    BY FS_Interval
  <2>2. QED
    BY <2>1, FS_Subset
<1>3. QED
  BY <1>1, <1>2, FS_Subset DEF Count

\* Two pings of a port have different counts, in the order they were sent
\* (clientsession.cc:163-173).
LEMMA CountOrders ==
  ASSUME NEW s, NEW i, NEW j \in Nat, NEW k \in Nat, j < k, s[k].session = i
  PROVE  Count(s, i, j) < Count(s, i, k)
<1>1. k - 1 \in Nat /\ j <= k - 1 /\ (k - 1) + 1 = k
  OBVIOUS
<1>2. Count(s, i, j) <= Count(s, i, k - 1)
  BY <1>1, CountGrows
<1>3. s[(k - 1) + 1].session = i
  BY <1>1
<1>4. Count(s, i, k) = Count(s, i, k - 1) + 1
  BY <1>1, <1>3, CountStep
<1>5. Count(s, i, j) \in Nat /\ Count(s, i, k - 1) \in Nat
  BY <1>1, CountStep
<1>6. QED
  BY <1>2, <1>4, <1>5

\* The order of the counts is the order of the pings (clientsession.cc:163-173).
LEMMA CountOrder ==
  ASSUME NEW s, NEW i, NEW j \in Nat, NEW k \in Nat, s[j].session = i, s[k].session = i
  PROVE  /\ Count(s, i, j) < Count(s, i, k) <=> j < k
         /\ Count(s, i, j) = Count(s, i, k) <=> j = k
<1>1. Count(s, i, j) \in Nat /\ Count(s, i, k) \in Nat
  BY CountStep
<1>2. CASE j < k
  BY <1>1, <1>2, CountOrders
<1>3. CASE k < j
  BY <1>1, <1>3, CountOrders
<1>4. CASE j = k
  BY <1>1, <1>4
<1>5. QED
  BY <1>2, <1>3, <1>4

\* No more pings of a port are counted than pings (clientsession.cc:163-173).
LEMMA CountBound ==
  ASSUME NEW s, NEW i, NEW k \in Nat
  PROVE  Count(s, i, k) <= k
<1> DEFINE S == {j \in 1 .. k : s[j].session = i}
<1>1. IsFiniteSet(1 .. k) /\ Cardinality(1 .. k) = k
  BY FS_Interval
<1>2. S \subseteq 1 .. k
  OBVIOUS
<1>3. Cardinality(S) <= Cardinality(1 .. k)
  BY <1>1, <1>2, FS_Subset
<1>4. QED
  BY <1>1, <1>3 DEF Count

\* Pings sent later do not change the count (clientsession.cc:163-173).
LEMMA CountSame ==
  ASSUME NEW s, NEW t, NEW i, NEW k \in Nat, \A j \in 1 .. k : t[j] = s[j]
  PROVE  Count(t, i, k) = Count(s, i, k)
<1>1. {j \in 1 .. k : t[j].session = i} = {j \in 1 .. k : s[j].session = i}
  OBVIOUS
<1>2. QED
  BY <1>1 DEF Count

----------------------------------------------------------------------------
(* The session manager by id: its sessions without their addresses.        *)

Live(sm, h) == [g \in Guid |-> IF sm[g] = Nil THEN Nil ELSE h[sm[g]]]
Lives == [Guid -> Session \cup {Nil}]
live == Live(sessionMap, heap)

\* A map that owns a heap has one session per id, and an address of its own for each
\* (serversession.cc:58-74).
LEMMA LiveSessions ==
  ASSUME NEW sm \in Maps, NEW h \in Heaps, Owns(sm, h)
  PROVE  /\ Live(sm, h) \in Lives
         /\ \A g \in Guid : Live(sm, h)[g] = Nil <=> sm[g] = Nil
         /\ \A g \in Guid : Live(sm, h)[g] # Nil =>
              /\ sm[g] \in Addr /\ h[sm[g]] # Nil
              /\ Live(sm, h)[g] = h[sm[g]]
              /\ Live(sm, h)[g] \in Session
         /\ \A g, e \in Guid : sm[g] # Nil /\ sm[g] = sm[e] => g = e
<1>1. \A g \in Guid : sm[g] # Nil => sm[g] \in Addr /\ h[sm[g]] # Nil /\ h[sm[g]] \in Session
  BY DEF Owns, Maps, Heaps
<1>2. \A g, e \in Guid : sm[g] # Nil /\ sm[g] = sm[e] => g = e
  BY DEF Owns
<1>3. QED
  BY <1>1, <1>2, NilAssumption DEF Live, Lives

\* The ids a sweep reports, and what it says each was sent.
Silent(v) == {g \in Guid : v[g] # Nil /\ v[g].idle > Keepalive}

Found(v, g) ==
  LET e == v[g].successor
  IN  e # Nil /\ v[e] # Nil /\ ~ (e \in Silent(v) /\ e < g)

Target(v, g) ==
  LET boundary == WrapSub(v[v[g].successor].minSeq, 1)
  IN  IF Found(v, g)
      THEN TargetCount(RecordMin(v[g].minSeq, boundary), RecordMax(v[g].maxSeq, boundary))
      ELSE TargetCount(v[g].minSeq, v[g].maxSeq)

\* The step ends with a sweep of the sessions v at the addresses sm.
EndsInSweep(v, sm) ==
  /\ sessionMap' = [g \in Guid |-> IF g \in Silent(v) THEN Nil ELSE sm[g]]
  /\ live' = [g \in Guid |-> IF g \in Silent(v) THEN Nil ELSE v[g]]
  /\ published' = [g \in Guid |->
       IF g \in Silent(v)
       THEN [count |-> published[g].count + v[g].count,
             target |-> published[g].target + Target(v, g)]
       ELSE published[g]]

\* The sweep of a map and a heap, by id (serversession.cc:76-101).
LEMMA SweepLive ==
  ASSUME NEW sm \in Maps, NEW h \in Heaps, Owns(sm, h), published \in Reports,
         SweepServerSessions(sm, h)
  PROVE  EndsInSweep(Live(sm, h), sm)
<1> DEFINE v == Live(sm, h)
<1>1. /\ v \in Lives
      /\ \A g \in Guid : v[g] = Nil <=> sm[g] = Nil
      /\ \A g \in Guid : v[g] # Nil => sm[g] \in Addr /\ v[g] = h[sm[g]] /\ v[g] \in Session
      /\ \A g, e \in Guid : sm[g] # Nil /\ sm[g] = sm[e] => g = e
  BY LiveSessions
<1> HIDE DEF v
<1>2. Expired(sm, h) = Silent(v)
  BY <1>1 DEF Expired, Silent
<1>3. ASSUME NEW g \in Silent(v) PROVE FinalTarget(sm, h, g) = Target(v, g)
  <2>1. /\ g \in Guid /\ v[g] = h[sm[g]] /\ v[g] \in Session
    BY <1>1 DEF Silent
  <2>2. v[g].successor \in Guid \cup {Nil}
    BY <2>1 DEF Session
  <2>3. SuccessorFound(sm, h, g) <=> Found(v, g)
    BY <1>1, <1>2, <2>1, <2>2 DEF SuccessorFound, Found
  <2>4. CASE Found(v, g)
    <3>1. v[g].successor \in Guid /\ v[v[g].successor] # Nil
      BY <2>2, <2>4 DEF Found
    <3>2. v[v[g].successor] = h[sm[h[sm[g]].successor]]
      BY <1>1, <2>1, <3>1
    <3>3. QED
      BY <2>1, <2>3, <2>4, <3>2 DEF FinalTarget, Target
  <2>5. CASE ~ Found(v, g)
    BY <2>1, <2>3, <2>5 DEF FinalTarget, Target
  <2>6. QED
    BY <2>4, <2>5
<1>4. /\ sessionMap' = [g \in Guid |-> IF g \in Silent(v) THEN Nil ELSE sm[g]]
      /\ heap' = [a \in Addr |-> IF \E g \in Silent(v) : sm[g] = a THEN Nil ELSE h[a]]
      /\ published' = [g \in Guid |->
           IF g \in Silent(v)
           THEN [count |-> published[g].count + h[sm[g]].count,
                 target |-> published[g].target + FinalTarget(sm, h, g)]
           ELSE published[g]]
  BY <1>2 DEF SweepServerSessions
<1>5. \A g \in Silent(v) : h[sm[g]].count = v[g].count
  BY <1>1 DEF Silent
<1>6. published' = [g \in Guid |->
        IF g \in Silent(v)
        THEN [count |-> published[g].count + v[g].count,
              target |-> published[g].target + Target(v, g)]
        ELSE published[g]]
  BY <1>3, <1>4, <1>5
<1>7. live' = [g \in Guid |-> IF g \in Silent(v) THEN Nil ELSE v[g]]
  <2>1. ASSUME NEW g \in Guid
        PROVE  (IF sessionMap'[g] = Nil THEN Nil ELSE heap'[sessionMap'[g]])
                 = IF g \in Silent(v) THEN Nil ELSE v[g]
    <3>1. CASE g \in Silent(v)
      BY <1>4, <3>1
    <3>2. CASE g \notin Silent(v) /\ sm[g] = Nil
      BY <1>1, <1>4, <3>2
    <3>3. CASE g \notin Silent(v) /\ sm[g] # Nil
      <4>1. sessionMap'[g] = sm[g] /\ sm[g] \in Addr /\ v[g] = h[sm[g]]
        BY <1>1, <1>4, <3>3
      <4>2. ~ \E e \in Silent(v) : sm[e] = sm[g]
        BY <1>1, <3>3 DEF Silent
      <4>3. QED
        BY <1>4, <3>3, <4>1, <4>2
    <3>4. QED
      BY <3>1, <3>2, <3>3
  <2>2. live' = [g \in Guid |-> IF sessionMap'[g] = Nil THEN Nil ELSE heap'[sessionMap'[g]]]
    BY DEF live, Live
  <2>3. QED
    BY <2>1, <2>2
<1>8. QED
  BY <1>4, <1>6, <1>7 DEF EndsInSweep, v

\* A ping of an id with a session is recorded in it (serversession.cc:103-117).
LEMMA RecordLive ==
  ASSUME TypeOK, SessionsOwned, NEW p \in Ping, NEW src \in Source,
         ReceivePing(p, src), live[p.guid] # Nil
  PROVE  /\ sourceMap' = sourceMap
         /\ \E v \in Lives :
              /\ v = [live EXCEPT ![p.guid] = Recorded(live[p.guid], p)]
              /\ EndsInSweep(v, sessionMap)
<1> DEFINE b == sessionMap[p.guid]
           k == [heap EXCEPT ![b] = Recorded(heap[b], p)]
           v == Live(sessionMap, k)
<1>1. p.guid \in Guid
  BY NamesAssumption
<1>2. /\ sessionMap \in Maps /\ heap \in Heaps /\ published \in Reports
      /\ Owns(sessionMap, heap)
  BY Typed DEF SessionsOwned
<1>3. /\ live \in Lives
      /\ \A g \in Guid : live[g] = Nil <=> sessionMap[g] = Nil
      /\ \A g \in Guid : live[g] # Nil =>
           sessionMap[g] \in Addr /\ heap[sessionMap[g]] # Nil /\ live[g] = heap[sessionMap[g]]
      /\ \A g, e \in Guid : sessionMap[g] # Nil /\ sessionMap[g] = sessionMap[e] => g = e
  BY <1>2, LiveSessions DEF live
<1>4. b \in Addr /\ b # Nil /\ heap[b] # Nil /\ live[p.guid] = heap[b]
  BY <1>1, <1>3
<1>5. /\ sourceMap' = sourceMap
      /\ SweepServerSessions(sessionMap, k)
  BY <1>1, <1>3, <1>4 DEF ReceivePing
<1>6. k \in Heaps
  BY <1>2, <1>4, RecordHeap
<1>7. k[b] = Recorded(heap[b], p) /\ \A a \in Addr : a # b => k[a] = heap[a]
  BY <1>2, <1>4 DEF Heaps
<1> HIDE DEF k
<1>8. Owns(sessionMap, k)
  BY ONLY <1>2, <1>4, <1>6, <1>7, RecordKeepsOwner, p \in Ping
<1>9. v \in Lives
  BY <1>2, <1>6, <1>8, LiveSessions
<1>10. v = [live EXCEPT ![p.guid] = Recorded(live[p.guid], p)]
  <2>1. ASSUME NEW g \in Guid
        PROVE  v[g] = IF g = p.guid THEN Recorded(live[p.guid], p) ELSE live[g]
    <3>1. CASE g = p.guid
      BY <1>4, <1>7, <3>1 DEF Live
    <3>2. CASE g # p.guid /\ sessionMap[g] = Nil
      BY <1>3, <3>2 DEF Live
    <3>3. CASE g # p.guid /\ sessionMap[g] # Nil
      <4>1. sessionMap[g] # b /\ sessionMap[g] \in Addr /\ live[g] = heap[sessionMap[g]]
        BY <1>1, <1>3, <3>3
      <4>2. QED
        BY <1>7, <3>3, <4>1 DEF Live
    <3>4. QED
      BY <3>1, <3>2, <3>3
  <2>2. QED
    BY <1>1, <1>3, <1>9, <2>1 DEF Lives
<1>11. EndsInSweep(v, sessionMap)
  BY <1>2, <1>5, <1>6, <1>8, SweepLive
<1>12. QED
  BY <1>5, <1>9, <1>10, <1>11

\* The first ping of an id makes its session, and tells the one last made for the
\* source, if it still has a session of the same start (serversession.cc:58-74).
LEMMA CreateLive ==
  ASSUME TypeOK, SessionsOwned, NEW p \in Ping, NEW src \in Source,
         ReceivePing(p, src), live[p.guid] = Nil,
         sourceMap[src] # Nil => heap[sourceMap[src]] # Nil
  PROVE  \E a \in Addr : \E v \in Lives :
           /\ sourceMap' = [sourceMap EXCEPT ![src] = a]
           /\ v[p.guid] = Recorded(NewSession(p, src), p)
           /\ \A g \in Guid \ {p.guid} :
                v[g] = IF /\ live[g] # Nil
                          /\ sessionMap[g] = sourceMap[src]
                          /\ live[g].startTime = p.startTime
                       THEN [live[g] EXCEPT !.successor = p.guid]
                       ELSE live[g]
           /\ EndsInSweep(v, [sessionMap EXCEPT ![p.guid] = a])
<1>1. p.guid \in Guid
  BY NamesAssumption
<1>2. /\ sessionMap \in Maps /\ heap \in Heaps /\ published \in Reports
      /\ Owns(sessionMap, heap) /\ sourceMap \in [Source -> Addr \cup {Nil}]
  BY Typed DEF SessionsOwned, TypeOK
<1>3. /\ live \in Lives
      /\ \A g \in Guid : live[g] = Nil <=> sessionMap[g] = Nil
      /\ \A g \in Guid : live[g] # Nil =>
           sessionMap[g] \in Addr /\ heap[sessionMap[g]] # Nil /\ live[g] = heap[sessionMap[g]]
      /\ \A g, e \in Guid : sessionMap[g] # Nil /\ sessionMap[g] = sessionMap[e] => g = e
  BY <1>2, LiveSessions DEF live
<1>4. sessionMap[p.guid] = Nil
  BY <1>1, <1>3
<1> DEFINE n == NewSession(p, src)
           q == sourceMap[src]
<1>5. PICK a \in FreeAddrs :
        /\ sourceMap' = [sourceMap EXCEPT ![src] = a]
        /\ SweepServerSessions([sessionMap EXCEPT ![p.guid] = a],
             [Linked([heap EXCEPT ![a] = n], q, p)
                EXCEPT ![a] = Recorded(Linked([heap EXCEPT ![a] = n], q, p)[a], p)])
  BY <1>4 DEF ReceivePing
<1> DEFINE sm == [sessionMap EXCEPT ![p.guid] = a]
           created == [heap EXCEPT ![a] = n]
           linked == Linked(created, q, p)
           k == [linked EXCEPT ![a] = Recorded(linked[a], p)]
           v == Live(sm, k)
<1>6. a \in Addr /\ heap[a] = Nil /\ a # Nil /\ q \in Addr \cup {Nil} /\ q # a
  BY <1>2, NilAssumption DEF FreeAddrs
<1>7. n \in Session /\ n.guid = p.guid /\ n.count = 0 /\ n # Nil
  BY NewSessionTyped, NilAssumption
<1>8. SweepServerSessions(sm, k)
  BY <1>5
<1>9. q # Nil => heap[q] # Nil
  OBVIOUS
<1> HIDE DEF n, q
<1>10. /\ sm \in Maps /\ sm[p.guid] = a
       /\ \A g \in Guid \ {p.guid} : sm[g] = sessionMap[g]
       /\ created \in Heaps /\ created[a] = n
       /\ \A b \in Addr \ {a} : created[b] = heap[b]
  BY <1>1, <1>2, <1>6, <1>7 DEF Maps, Heaps
<1> HIDE DEF sm, created
<1>11. Owns(sm, created)
  BY ONLY <1>2, <1>4, <1>6, <1>7, <1>10, CreateKeepsOwner
<1>12. linked \in Heaps /\ Owns(sm, linked)
  BY ONLY <1>6, <1>10, <1>11, LinkKeepsOwner, p \in Ping
<1>13. /\ linked[a] = n
       /\ \A b \in Addr \ {a} :
            linked[b] = IF b = q /\ heap[b].startTime = p.startTime
                        THEN [heap[b] EXCEPT !.successor = p.guid]
                        ELSE heap[b]
  <2>1. CASE q # Nil /\ created[q] # Nil /\ created[q].startTime = p.startTime
    <3>1. q \in Addr \ {a} /\ created[q] = heap[q]
      BY <1>6, <1>10, <2>1
    <3>2. linked = [created EXCEPT ![q] = [created[q] EXCEPT !.successor = p.guid]]
      BY <2>1 DEF Linked
    <3>3. QED
      BY <1>6, <1>10, <2>1, <3>1, <3>2 DEF Heaps
  <2>2. CASE ~ (q # Nil /\ created[q] # Nil /\ created[q].startTime = p.startTime)
    <3>1. linked = created
      BY <2>2 DEF Linked
    <3>2. \A b \in Addr \ {a} : ~ (b = q /\ heap[b].startTime = p.startTime)
      BY <1>6, <1>9, <1>10, <2>2, NilAssumption
    <3>3. QED
      BY <1>10, <3>1, <3>2
  <2>3. QED
    BY <2>1, <2>2
<1> HIDE DEF linked
<1>14. k \in Heaps
  <2>1. linked[a] # Nil
    BY <1>7, <1>13
  <2>2. QED
    BY ONLY <1>6, <1>12, <2>1, RecordHeap, p \in Ping
<1>15. k[a] = Recorded(n, p) /\ \A b \in Addr : b # a => k[b] = linked[b]
  BY <1>6, <1>12, <1>13 DEF Heaps
<1>16. k[a] = Recorded(linked[a], p)
  BY <1>13, <1>15
<1> HIDE DEF k
<1>17. Owns(sm, k)
  BY ONLY <1>6, <1>10, <1>12, <1>14, <1>15, <1>16, RecordKeepsOwner, p \in Ping
<1>18. v \in Lives
  BY <1>10, <1>14, <1>17, LiveSessions
<1>19. v[p.guid] = Recorded(n, p)
  BY <1>1, <1>6, <1>10, <1>15 DEF Live
<1>20. ASSUME NEW g \in Guid \ {p.guid}
       PROVE  v[g] = IF live[g] # Nil /\ sessionMap[g] = q /\ live[g].startTime = p.startTime
                     THEN [live[g] EXCEPT !.successor = p.guid]
                     ELSE live[g]
  <2>1. CASE sessionMap[g] = Nil
    BY <1>3, <1>10, <2>1 DEF Live
  <2>2. CASE sessionMap[g] # Nil
    <3>1. /\ live[g] # Nil /\ sessionMap[g] \in Addr /\ heap[sessionMap[g]] # Nil
          /\ live[g] = heap[sessionMap[g]]
      BY <1>3, <2>2
    <3>2. sessionMap[g] # a
      BY <1>6, <3>1
    <3>3. v[g] = linked[sessionMap[g]]
      BY <1>10, <1>15, <2>2, <3>1, <3>2 DEF Live
    <3>4. QED
      BY <1>13, <3>1, <3>2, <3>3
  <2>3. QED
    BY <2>1, <2>2
<1>21. EndsInSweep(v, sm)
  BY <1>2, <1>8, <1>10, <1>14, <1>17, SweepLive DEF k, linked, created
<1>22. QED
  BY <1>5, <1>6, <1>18, <1>19, <1>20, <1>21 DEF sm, n, q

\* A second makes every session a second older (serversession.cc:82).
LEMMA TickLive ==
  ASSUME TypeOK, SessionsOwned, Tick
  PROVE  live' = [g \in Guid |-> IF live[g] = Nil THEN Nil
                                 ELSE [live[g] EXCEPT !.idle = @ + 1]]
<1>1. /\ sessionMap \in Maps /\ heap \in Heaps /\ Owns(sessionMap, heap)
  BY Typed DEF SessionsOwned
<1>2. /\ \A g \in Guid : live[g] = Nil <=> sessionMap[g] = Nil
      /\ \A g \in Guid : live[g] # Nil =>
           /\ sessionMap[g] \in Addr /\ heap[sessionMap[g]] # Nil
           /\ live[g] = heap[sessionMap[g]]
  BY <1>1, LiveSessions DEF live
<1>3. /\ sessionMap' = sessionMap
      /\ heap' = [a \in Addr |-> IF heap[a] = Nil THEN Nil
                                 ELSE [heap[a] EXCEPT !.idle = @ + 1]]
  BY DEF Tick
<1>4. live' = [g \in Guid |-> IF sessionMap[g] = Nil THEN Nil ELSE heap'[sessionMap[g]]]
  BY <1>3 DEF live, Live
<1>5. QED
  BY <1>2, <1>3, <1>4

----------------------------------------------------------------------------
(* The ids of a port, by the first ping of each that arrived (fh), and the *)
(* last that arrived of the port (lh).                                     *)

Firsts == [Port -> [Guid -> Nat]]
Lasts == [Port -> Nat]
Copies == [Guid -> Nat]

\* The runs of losses that recordSeq and the keepalive are made for: with the ping
\* that ends it, a run is less than Window, and no longer than Keepalive seconds.
ShortBursts == MaxBurst <= Window - 2 /\ MaxBurst + 1 <= Keepalive

\* A run of losses in numbers (serversession.cc:45, server.cc:45).
LEMMA BurstsFit ==
  ASSUME ShortBursts
  PROVE  /\ MaxBurst \in Nat /\ Window \in Nat /\ SeqMod \in Nat
         /\ MaxBurst + 2 <= Window /\ 2 * Window < SeqMod
         /\ Keepalive \in Nat /\ MaxBurst + 1 <= Keepalive
<1>1. MaxBurst \in Nat
  BY ClientAssumption
<1>2. QED
  BY <1>1, WindowAssumption, KeepaliveAssumption DEF ShortBursts

Latest(fh, i, g) == fh[i][g] # 0 /\ \A h \in Guid : fh[i][h] <= fh[i][g]

Follows(fh, i, g, e) ==
  /\ fh[i][g] # 0
  /\ fh[i][g] < fh[i][e]
  /\ \A h \in Guid : fh[i][h] <= fh[i][g] \/ fh[i][e] <= fh[i][h]

\* An id is of one port, and its first ping is no other id's.
Separate(fh) ==
  /\ \A i, j \in Port : \A g \in Guid : fh[i][g] # 0 /\ fh[j][g] # 0 => i = j
  /\ \A i \in Port : \A g, h \in Guid : fh[i][g] # 0 /\ fh[i][g] = fh[i][h] => g = h

\* An id of a port is the latest, or another follows it (serversession.cc:63-69).
LEMMA LatestOrFollowed ==
  ASSUME NEW fh \in Firsts, NEW i \in Port, NEW g \in Guid, fh[i][g] # 0
  PROVE  Latest(fh, i, g) \/ \E e \in Guid : Follows(fh, i, g, e)
<1>1. \A h \in Guid : fh[i][h] \in Nat
  BY DEF Firsts
<1> DEFINE S == {m \in Nat : fh[i][g] < m /\ \E h \in Guid : fh[i][h] = m}
<1>2. CASE S = {}
  BY <1>1, <1>2 DEF Latest
<1>3. CASE S # {}
  <2>1. PICK m \in S : \A k \in S : m <= k
    BY <1>3, LeastNumber
  <2>2. PICK e \in Guid : fh[i][e] = m
    BY <2>1
  <2>3. ASSUME NEW h \in Guid PROVE fh[i][h] <= fh[i][g] \/ fh[i][e] <= fh[i][h]
    <3>1. CASE fh[i][g] < fh[i][h]
      <4>1. fh[i][h] \in S
        BY <1>1, <3>1
      <4>2. QED
        BY <2>1, <2>2, <4>1
    <3>2. CASE ~ (fh[i][g] < fh[i][h])
      BY <1>1, <3>2
    <3>3. QED
      BY <3>1, <3>2
  <2>4. fh[i][g] < fh[i][e]
    BY <2>1, <2>2
  <2>5. QED
    BY <2>3, <2>4 DEF Follows
<1>4. QED
  BY <1>2, <1>3

\* The session s has seen the pings of its port from first to last, c of them twice.
Tracks(s, first, last, c) ==
  /\ first <= last
  /\ last - first <= SeqMod - Window - MaxBurst
  /\ s.minSeq = (first - 1) % SeqMod
  /\ s.maxSeq = (last - 1) % SeqMod
  /\ s.count <= last - first + 1 + c

\* Every session knows the first and the last ping of its id, and its successor is
\* the id heard next on its port, which has been heard from as lately and began
\* within a run of losses.
Spans(v, fh, lh, cp) ==
  \A g \in Guid : v[g] # Nil =>
    /\ \E i \in Port : fh[i][g] # 0
    /\ \A i \in Port :
         /\ Latest(fh, i, g) =>
              /\ v[g].successor = Nil
              /\ Tracks(v[g], fh[i][g], lh[i], cp[g])
         /\ \A e \in Guid : Follows(fh, i, g, e) =>
              /\ v[e] # Nil
              /\ v[g].successor = e
              /\ v[e].idle <= v[g].idle
              /\ \E l \in 1 .. (fh[i][e] - 1) :
                   /\ fh[i][e] <= l + MaxBurst + 1
                   /\ Tracks(v[g], fh[i][g], l, cp[g])

\* What was reported of the ids that have no session any more.
Settled(v, pub, fh, lh, cp, asc) ==
  \A g \in Guid :
    /\ v[g] # Nil \/ (\A i \in Port : fh[i][g] = 0) =>
         pub[g].count = 0 /\ pub[g].target = 0
    /\ \A i \in Port : v[g] = Nil /\ fh[i][g] # 0 =>
         /\ pub[g].count <= pub[g].target + cp[g]
         /\ Latest(fh, i, g) => pub[g].target = lh[i] - fh[i][g] + 1
         /\ \A e \in Guid : Follows(fh, i, g, e) /\ asc =>
              pub[g].target = fh[i][e] - fh[i][g]

\* A session that knows its first ping's number has it in minSeq, latest or not
\* (serversession.cc:43-53).
LEMMA FirstKnown ==
  ASSUME NEW v \in Lives, NEW fh \in Firsts, NEW lh \in Lasts, NEW cp \in Copies,
         Spans(v, fh, lh, cp), NEW g \in Guid, v[g] # Nil,
         NEW i \in Port, fh[i][g] # 0
  PROVE  v[g].minSeq = (fh[i][g] - 1) % SeqMod
<1>1. Latest(fh, i, g) \/ \E e \in Guid : Follows(fh, i, g, e)
  BY LatestOrFollowed
<1>2. QED
  BY <1>1 DEF Spans, Tracks

\* What a sweep says an id was sent, the gap to its successor included
\* (serversession.cc:82-91).
LEMMA TargetPaid ==
  ASSUME ShortBursts,
         NEW v \in Lives, NEW fh \in Firsts, NEW lh \in Lasts, NEW cp \in Copies,
         Spans(v, fh, lh, cp), NEW g \in Guid, v[g] # Nil,
         NEW i \in Port, fh[i][g] # 0
  PROVE  /\ v[g].count <= Target(v, g) + cp[g]
         /\ Latest(fh, i, g) => Target(v, g) = lh[i] - fh[i][g] + 1
         /\ \A e \in Guid : Follows(fh, i, g, e) /\ g < e =>
              Target(v, g) = fh[i][e] - fh[i][g]
<1>1. /\ v[g] \in Session /\ v[g].count \in Nat /\ cp[g] \in Nat
      /\ \A h \in Guid : fh[i][h] \in Nat
      /\ lh[i] \in Nat
  BY DEF Lives, Firsts, Lasts, Copies, Session
<1>2. MaxBurst \in Nat /\ Window \in Nat /\ SeqMod \in Nat /\ MaxBurst + 2 <= Window
      /\ 2 * Window < SeqMod
  BY BurstsFit
<1>3. CASE Latest(fh, i, g)
  <2>1. v[g].successor = Nil /\ Tracks(v[g], fh[i][g], lh[i], cp[g])
    BY <1>3 DEF Spans
  <2>2. PICK m \in Nat, n \in Nat : m = fh[i][g] - 1 /\ n = lh[i] - 1
    <3>1. fh[i][g] - 1 \in Nat /\ lh[i] - 1 \in Nat
      BY <1>1, <2>1 DEF Tracks
    <3>2. QED
      BY <3>1
  <2>3. m <= n /\ n - m < SeqMod - 1
    BY <1>1, <1>2, <2>1, <2>2 DEF Tracks
  <2>4. TargetCount(m % SeqMod, n % SeqMod) = n - m + 1
    BY <2>3, TargetOfEnds
  <2>5. Target(v, g) = TargetCount(m % SeqMod, n % SeqMod)
    BY <2>1, <2>2 DEF Target, Found, Tracks
  <2>6. Target(v, g) = lh[i] - fh[i][g] + 1
    BY <1>1, <2>2, <2>4, <2>5
  <2>7. ~ \E e \in Guid : Follows(fh, i, g, e)
    BY <1>1, <1>3 DEF Latest, Follows
  <2>8. QED
    BY <1>1, <2>1, <2>6, <2>7 DEF Tracks
<1>4. ASSUME NEW e \in Guid, Follows(fh, i, g, e)
      PROVE  /\ v[g].count <= Target(v, g) + cp[g]
             /\ g < e => Target(v, g) = fh[i][e] - fh[i][g]
  <2>1. v[e] # Nil /\ v[g].successor = e
    BY <1>4 DEF Spans
  <2>2. PICK l \in 1 .. (fh[i][e] - 1) :
          fh[i][e] <= l + MaxBurst + 1 /\ Tracks(v[g], fh[i][g], l, cp[g])
    BY <1>4 DEF Spans
  <2>3. fh[i][e] # 0 /\ fh[i][g] < fh[i][e] /\ fh[i][g] # 0
    BY <1>1, <1>4 DEF Follows
  <2>4. v[e].minSeq = (fh[i][e] - 1) % SeqMod
    BY <2>1, <2>3, FirstKnown
  <2>5. PICK m \in Nat, n \in Nat, b \in Nat :
          m = fh[i][g] - 1 /\ n = l - 1 /\ b = fh[i][e] - 2
    <3>1. fh[i][g] - 1 \in Nat /\ l - 1 \in Nat /\ fh[i][e] - 2 \in Nat
      BY <1>1, <2>3
    <3>2. QED
      BY <3>1
  <2>6. /\ m <= n /\ n <= b /\ m <= b
        /\ b - n < Window /\ b - m <= SeqMod - Window
        /\ n - m < SeqMod - 1 /\ b - m < SeqMod - 1
    <3>1. m <= n /\ n <= b /\ b - n <= MaxBurst /\ n - m <= SeqMod - Window - MaxBurst
      BY <1>1, <1>2, <2>2, <2>3, <2>5 DEF Tracks
    <3>2. QED
      BY <1>2, <3>1
  <2>7. /\ v[g].minSeq = m % SeqMod /\ v[g].maxSeq = n % SeqMod
        /\ v[g].count <= n - m + 1 + cp[g]
    BY <1>1, <2>2, <2>5 DEF Tracks
  <2>8. WrapSub(v[e].minSeq, 1) = b % SeqMod
    <3>1. b + 1 \in Nat /\ b + 1 > 0 /\ (b + 1) - 1 = b /\ fh[i][e] - 1 = b + 1
      BY <1>1, <2>5
    <3>2. WrapSub((b + 1) % SeqMod, 1) = ((b + 1) - 1) % SeqMod
      BY <3>1, WrappedBefore
    <3>3. QED
      BY <2>4, <3>1, <3>2
  <2>9. CASE Found(v, g)
    <3>1. RecordMin(m % SeqMod, b % SeqMod) = m % SeqMod
      BY <2>6, MinStays
    <3>2. RecordMax(n % SeqMod, b % SeqMod) = b % SeqMod
      BY <2>6, MaxMoves
    <3>3. Target(v, g) = TargetCount(m % SeqMod, b % SeqMod)
      BY <2>1, <2>7, <2>8, <2>9, <3>1, <3>2 DEF Target
    <3>4. TargetCount(m % SeqMod, b % SeqMod) = b - m + 1
      BY <2>6, TargetOfEnds
    <3>5. QED
      BY <1>1, <2>5, <2>6, <2>7, <3>3, <3>4
  <2>10. CASE ~ Found(v, g)
    <3>1. Target(v, g) = TargetCount(m % SeqMod, n % SeqMod)
      BY <2>7, <2>10 DEF Target
    <3>2. TargetCount(m % SeqMod, n % SeqMod) = n - m + 1
      BY <2>6, TargetOfEnds
    <3>3. ~ (g < e)
      <4>1. e < g /\ e \in Nat /\ g \in Nat
        BY <2>1, <2>10, NamesAssumption, NilAssumption DEF Found
      <4>2. QED
        BY <4>1
    <3>4. QED
      BY <1>1, <2>6, <2>7, <3>1, <3>2, <3>3
  <2>11. QED
    BY <2>9, <2>10
<1>5. CASE ~ Latest(fh, i, g)
  <2>1. PICK e \in Guid : Follows(fh, i, g, e)
    BY <1>5, LatestOrFollowed
  <2>2. v[g].count <= Target(v, g) + cp[g]
    BY <1>4, <2>1
  <2>3. QED
    BY <1>4, <1>5, <2>2
<1>6. QED
  BY <1>3, <1>5

\* The target of a sweep is a number (serversession.cc:36).
LEMMA TargetTyped ==
  ASSUME NEW v \in Lives, NEW g \in Guid, v[g] # Nil
  PROVE  Target(v, g) \in Int
<1>1. v[g] \in Session
  BY DEF Lives
<1>2. v[g].minSeq \in Seqnum /\ v[g].maxSeq \in Seqnum /\ v[g].successor \in Guid \cup {Nil}
  BY <1>1 DEF Session
<1>3. CASE Found(v, g)
  <2>1. v[g].successor \in Guid /\ v[v[g].successor] # Nil
    BY <1>2, <1>3 DEF Found
  <2>2. v[v[g].successor] \in Session
    BY <2>1 DEF Lives
  <2>3. v[v[g].successor].minSeq \in Seqnum
    BY <2>2 DEF Session
  <2>4. PICK b \in Seqnum : b = WrapSub(v[v[g].successor].minSeq, 1)
    BY <2>3, BoundarySeqnum
  <2>5. RecordMin(v[g].minSeq, b) \in Seqnum /\ RecordMax(v[g].maxSeq, b) \in Seqnum
    BY <1>2, RecordSeqnum
  <2>6. TargetCount(RecordMin(v[g].minSeq, b), RecordMax(v[g].maxSeq, b)) \in Nat
    BY <2>5, TargetNat
  <2>7. QED
    BY <1>3, <2>4, <2>6 DEF Target
<1>4. CASE ~ Found(v, g)
  BY <1>2, <1>4, TargetNat DEF Target
<1>5. QED
  BY <1>3, <1>4

\* A sweep reports of each id it frees what was sent of it, and a session outlives no
\* session it follows (serversession.cc:76-101).
LEMMA SweepSpans ==
  ASSUME ShortBursts, published \in Reports,
         NEW v \in Lives, NEW fh \in Firsts, NEW lh \in Lasts, NEW cp \in Copies,
         NEW asc \in BOOLEAN, NEW sm,
         Spans(v, fh, lh, cp), Settled(v, published, fh, lh, cp, asc),
         asc => \A i \in Port : \A g, e \in Guid : Follows(fh, i, g, e) => g < e,
         EndsInSweep(v, sm)
  PROVE  Spans(live', fh, lh, cp) /\ Settled(live', published', fh, lh, cp, asc)
<1>1. /\ live' = [g \in Guid |-> IF g \in Silent(v) THEN Nil ELSE v[g]]
      /\ published' = [g \in Guid |->
           IF g \in Silent(v)
           THEN [count |-> published[g].count + v[g].count,
                 target |-> published[g].target + Target(v, g)]
           ELSE published[g]]
  BY DEF EndsInSweep
<1>2. \A g \in Guid : g \in Silent(v) <=> v[g] # Nil /\ v[g].idle > Keepalive
  BY DEF Silent
<1>3. \A g \in Guid : v[g] # Nil => v[g].idle \in Nat /\ v[g].count \in Nat
  BY DEF Lives, Session
<1>4. Spans(live', fh, lh, cp)
  <2> SUFFICES ASSUME NEW g \in Guid, live'[g] # Nil
               PROVE  /\ \E i \in Port : fh[i][g] # 0
                      /\ \A i \in Port :
                           /\ Latest(fh, i, g) =>
                                /\ live'[g].successor = Nil
                                /\ Tracks(live'[g], fh[i][g], lh[i], cp[g])
                           /\ \A e \in Guid : Follows(fh, i, g, e) =>
                                /\ live'[e] # Nil
                                /\ live'[g].successor = e
                                /\ live'[e].idle <= live'[g].idle
                                /\ \E l \in 1 .. (fh[i][e] - 1) :
                                     /\ fh[i][e] <= l + MaxBurst + 1
                                     /\ Tracks(live'[g], fh[i][g], l, cp[g])
    BY DEF Spans
  <2>1. live'[g] = v[g] /\ v[g] # Nil /\ ~ (v[g].idle > Keepalive)
    BY <1>1, <1>2
  <2>2. ASSUME NEW i \in Port, NEW e \in Guid, Follows(fh, i, g, e)
        PROVE  live'[e] = v[e]
    <3>1. v[e] # Nil /\ v[e].idle <= v[g].idle
      BY <2>1, <2>2 DEF Spans
    <3>2. e \notin Silent(v)
      BY <1>2, <1>3, <2>1, <3>1, KeepaliveAssumption
    <3>3. QED
      BY <1>1, <3>2
  <2>3. QED
    BY <2>1, <2>2 DEF Spans
<1>5. Settled(live', published', fh, lh, cp, asc)
  <2> SUFFICES ASSUME NEW g \in Guid
               PROVE  /\ live'[g] # Nil \/ (\A i \in Port : fh[i][g] = 0) =>
                           published'[g].count = 0 /\ published'[g].target = 0
                      /\ \A i \in Port : live'[g] = Nil /\ fh[i][g] # 0 =>
                           /\ published'[g].count <= published'[g].target + cp[g]
                           /\ Latest(fh, i, g) =>
                                published'[g].target = lh[i] - fh[i][g] + 1
                           /\ \A e \in Guid : Follows(fh, i, g, e) /\ asc =>
                                published'[g].target = fh[i][e] - fh[i][g]
    BY DEF Settled
  <2>1. CASE g \notin Silent(v)
    <3>1. live'[g] = v[g] /\ published'[g] = published[g]
      BY <1>1, <2>1
    <3>2. QED
      BY <3>1 DEF Settled
  <2>2. CASE g \in Silent(v)
    <3>1. /\ v[g] # Nil /\ live'[g] = Nil
          /\ published'[g].count = published[g].count + v[g].count
          /\ published'[g].target = published[g].target + Target(v, g)
      BY <1>1, <1>2, <2>2
    <3>2. published[g].count = 0 /\ published[g].target = 0
      BY <3>1 DEF Settled
    <3>3. PICK h \in Port : fh[h][g] # 0
      BY <3>1 DEF Spans
    <3>4. ASSUME NEW i \in Port, fh[i][g] # 0
          PROVE  /\ Target(v, g) \in Int
                 /\ v[g].count <= Target(v, g) + cp[g]
                 /\ Latest(fh, i, g) => Target(v, g) = lh[i] - fh[i][g] + 1
                 /\ \A e \in Guid : Follows(fh, i, g, e) /\ asc =>
                      Target(v, g) = fh[i][e] - fh[i][g]
      <4>1. /\ v[g].count <= Target(v, g) + cp[g]
            /\ Latest(fh, i, g) => Target(v, g) = lh[i] - fh[i][g] + 1
            /\ \A e \in Guid : Follows(fh, i, g, e) /\ g < e =>
                 Target(v, g) = fh[i][e] - fh[i][g]
        BY <3>1, <3>4, TargetPaid
      <4>2. Target(v, g) \in Int
        BY <3>1, TargetTyped
      <4>3. QED
        BY <4>1, <4>2
    <3>5. /\ published'[g].count = v[g].count
          /\ published'[g].target = Target(v, g)
      BY <1>3, <3>1, <3>2, <3>3, <3>4
    <3>6. QED
      BY <3>1, <3>3, <3>4, <3>5
  <2>3. QED
    BY <2>1, <2>2
<1>6. QED
  BY <1>4, <1>5

\* A session that is only older knows no less (serversession.cc:82).
LEMMA AgedSpans ==
  ASSUME NEW v \in Lives, NEW w, NEW pub,
         NEW fh \in Firsts, NEW lh \in Lasts, NEW cp \in Copies, NEW asc \in BOOLEAN,
         Spans(v, fh, lh, cp), Settled(v, pub, fh, lh, cp, asc),
         w = [g \in Guid |-> IF v[g] = Nil THEN Nil ELSE [v[g] EXCEPT !.idle = @ + 1]]
  PROVE  Spans(w, fh, lh, cp) /\ Settled(w, pub, fh, lh, cp, asc)
<1>1. ASSUME NEW g \in Guid
      PROVE  /\ w[g] = Nil <=> v[g] = Nil
             /\ v[g] # Nil =>
                  /\ w[g].successor = v[g].successor
                  /\ w[g].minSeq = v[g].minSeq
                  /\ w[g].maxSeq = v[g].maxSeq
                  /\ w[g].count = v[g].count
                  /\ v[g].idle \in Nat
                  /\ w[g].idle = v[g].idle + 1
  <2>1. CASE v[g] = Nil
    BY <2>1
  <2>2. CASE v[g] # Nil
    <3>1. v[g] \in Session /\ w[g] = [v[g] EXCEPT !.idle = @ + 1]
      BY <2>2 DEF Lives
    <3>2. w[g] \in Session
      BY <3>1 DEF Session
    <3>3. QED
      BY <2>2, <3>1, <3>2, NilAssumption DEF Session
  <2>3. QED
    BY <2>1, <2>2
<1>2. Spans(w, fh, lh, cp)
  BY <1>1 DEF Spans, Tracks
<1>3. Settled(w, pub, fh, lh, cp, asc)
  BY <1>1 DEF Settled
<1>4. QED
  BY <1>2, <1>3

\* The fields of a session after a ping (serversession.cc:43-53, 115).
LEMMA RecordedFields ==
  ASSUME NEW s \in Session, NEW p \in Ping
  PROVE  /\ Recorded(s, p).successor = s.successor
         /\ Recorded(s, p).startTime = s.startTime
         /\ Recorded(s, p).maxSeq = RecordMax(s.maxSeq, p.seqNum)
         /\ Recorded(s, p).minSeq = RecordMin(s.minSeq, p.seqNum)
<1> DEFINE high == RecordMax(s.maxSeq, p.seqNum)
           low == RecordMin(s.minSeq, p.seqNum)
<1>1. Recorded(s, p) =
        [s EXCEPT !.idle = 0, !.maxSeq = high, !.minSeq = low, !.count = s.count + 1]
  BY DEF Recorded
<1> HIDE DEF high, low
<1>2. Recorded(s, p) =
        [guid |-> s.guid, source |-> s.source, startTime |-> s.startTime,
         successor |-> s.successor, idle |-> 0, minSeq |-> low, maxSeq |-> high,
         count |-> s.count + 1]
  BY <1>1 DEF Session
<1>3. QED
  BY <1>2 DEF high, low

\* A ping of the latest id of its port, a new one or the last one again, leaves the
\* sessions knowing what they have seen (serversession.cc:43-53, 103-117).
LEMMA RecordSpans ==
  ASSUME ShortBursts,
         NEW v \in Lives, NEW w, NEW pub, NEW p \in Ping,
         NEW fh \in Firsts, NEW lh \in Lasts, NEW cp \in Copies, NEW cp2 \in Copies,
         NEW asc \in BOOLEAN,
         Separate(fh), Spans(v, fh, lh, cp), Settled(v, pub, fh, lh, cp, asc),
         NEW i \in Port, Latest(fh, i, p.guid), v[p.guid] # Nil,
         NEW n \in Nat, lh[i] <= n, n <= lh[i] + MaxBurst + 1,
         n - fh[i][p.guid] <= SeqMod - Window - MaxBurst,
         p.seqNum = (n - 1) % SeqMod,
         \A g \in Guid \ {p.guid} : cp2[g] = cp[g],
         n + cp2[p.guid] >= lh[i] + cp[p.guid] + 1,
         NEW lh2 \in Lasts, lh2[i] = n, \A j \in Port \ {i} : lh2[j] = lh[j],
         w[p.guid] = Recorded(v[p.guid], p), \A g \in Guid \ {p.guid} : w[g] = v[g]
  PROVE  Spans(w, fh, lh2, cp2) /\ Settled(w, pub, fh, lh2, cp2, asc)
<1> DEFINE id == p.guid
<1>1. id \in Guid
  BY NamesAssumption
<1>2. /\ \A j \in Port : \A g \in Guid : fh[j][g] \in Nat
      /\ \A j \in Port : lh[j] \in Nat
      /\ \A g \in Guid : cp[g] \in Nat /\ cp2[g] \in Nat
  BY DEF Firsts, Lasts, Copies
<1>3. lh2[i] = n /\ \A j \in Port \ {i} : lh2[j] = lh[j]
  OBVIOUS
<1>4. MaxBurst \in Nat /\ Window \in Nat /\ SeqMod \in Nat /\ MaxBurst + 2 <= Window
      /\ 2 * Window < SeqMod
  BY BurstsFit
<1>5. v[id] \in Session /\ v[id].count \in Nat
  BY <1>1 DEF Lives, Session
<1>6. /\ \A g \in Guid \ {id} : w[g] = v[g]
      /\ w[id] = Recorded(v[id], p)
  BY <1>1 DEF Lives
<1>7. /\ w[id] # Nil /\ w[id].idle = 0
      /\ w[id].successor = v[id].successor
      /\ w[id].count = v[id].count + 1
      /\ w[id].maxSeq = RecordMax(v[id].maxSeq, p.seqNum)
      /\ w[id].minSeq = RecordMin(v[id].minSeq, p.seqNum)
  BY <1>5, <1>6, RecordedSession, RecordedFields, NilAssumption
<1>8. \A j \in Port : fh[j][id] # 0 => j = i
  BY <1>1 DEF Separate, Latest
<1>9. \A g \in Guid : Latest(fh, i, g) => g = id
  <2>1. \A g \in Guid : Latest(fh, i, g) => fh[i][g] = fh[i][id] /\ fh[i][g] # 0
    BY <1>1, <1>2 DEF Latest
  <2>2. QED
    BY <1>1, <2>1 DEF Separate
<1>10. v[id].successor = Nil /\ Tracks(v[id], fh[i][id], lh[i], cp[id])
  BY <1>1 DEF Spans
<1>11. Tracks(w[id], fh[i][id], n, cp2[id])
  <2>1. PICK a \in Nat, b \in Nat, c \in Nat :
          a = fh[i][id] - 1 /\ b = lh[i] - 1 /\ c = n - 1
    <3>1. fh[i][id] - 1 \in Nat /\ lh[i] - 1 \in Nat /\ n - 1 \in Nat
      BY <1>1, <1>2, <1>10 DEF Latest, Tracks
    <3>2. QED
      BY <3>1
  <2>2. /\ a <= b /\ b <= c /\ a <= c /\ c - b < Window /\ c - a <= SeqMod - Window
    <3>1. fh[i][id] \in Nat /\ lh[i] \in Nat /\ fh[i][id] <= lh[i]
      BY <1>1, <1>2, <1>10 DEF Tracks
    <3>2. /\ lh[i] <= n /\ n <= lh[i] + MaxBurst + 1
          /\ n - fh[i][id] <= SeqMod - Window - MaxBurst
      OBVIOUS
    <3>3. QED
      BY ONLY <1>4, <2>1, <3>1, <3>2, n \in Nat
  <2>3. RecordMax(b % SeqMod, c % SeqMod) = c % SeqMod
    BY <2>2, MaxMoves
  <2>4. RecordMin(a % SeqMod, c % SeqMod) = a % SeqMod
    BY <2>2, MinStays
  <2>5. w[id].maxSeq = (n - 1) % SeqMod /\ w[id].minSeq = (fh[i][id] - 1) % SeqMod
    BY <1>7, <1>10, <2>1, <2>3, <2>4 DEF Tracks
  <2>6. w[id].count <= n - fh[i][id] + 1 + cp2[id]
    BY <1>1, <1>2, <1>5, <1>7, <1>10 DEF Tracks
  <2>7. fh[i][id] <= n
    BY <1>1, <1>2, <1>10 DEF Tracks
  <2>8. QED
    BY <2>5, <2>6, <2>7 DEF Tracks
<1> HIDE DEF id
<1>12. Spans(w, fh, lh2, cp2)
  <2> SUFFICES ASSUME NEW g \in Guid, w[g] # Nil
               PROVE  /\ \E j \in Port : fh[j][g] # 0
                      /\ \A j \in Port :
                           /\ Latest(fh, j, g) =>
                                /\ w[g].successor = Nil
                                /\ Tracks(w[g], fh[j][g], lh2[j], cp2[g])
                           /\ \A e \in Guid : Follows(fh, j, g, e) =>
                                /\ w[e] # Nil
                                /\ w[g].successor = e
                                /\ w[e].idle <= w[g].idle
                                /\ \E l \in 1 .. (fh[j][e] - 1) :
                                     /\ fh[j][e] <= l + MaxBurst + 1
                                     /\ Tracks(w[g], fh[j][g], l, cp2[g])
    BY DEF Spans
  <2>1. CASE g = id
    <3>1. fh[i][id] # 0
      BY DEF Latest, id
    <3>2. \A j \in Port : Latest(fh, j, id) => j = i
      BY <1>8 DEF Latest
    <3>3. \A j \in Port : \A e \in Guid : ~ Follows(fh, j, id, e)
      BY <1>1, <1>2, <1>8 DEF Follows, Latest, id
    <3>4. QED
      BY <1>3, <1>7, <1>10, <1>11, <2>1, <3>1, <3>2, <3>3
  <2>2. CASE g # id
    <3>1. w[g] = v[g] /\ v[g] # Nil /\ cp2[g] = cp[g] /\ v[g].idle \in Nat
      <4>1. w[g] = v[g] /\ cp2[g] = cp[g]
        BY <1>6, <2>2 DEF id
      <4>2. QED
        BY <4>1 DEF Lives, Session
    <3>2. \A j \in Port : Latest(fh, j, g) => lh2[j] = lh[j]
      BY <1>3, <1>9, <2>2
    <3>3. \A j \in Port : \A e \in Guid : Follows(fh, j, g, e) =>
            w[e] # Nil /\ w[e].idle <= w[g].idle
      <4> SUFFICES ASSUME NEW j \in Port, NEW e \in Guid, Follows(fh, j, g, e)
                   PROVE  w[e] # Nil /\ w[e].idle <= w[g].idle
        OBVIOUS
      <4>1. v[e] # Nil /\ v[e].idle <= v[g].idle
        BY <3>1 DEF Spans
      <4>2. CASE e = id
        BY <1>7, <3>1, <4>2
      <4>3. CASE e # id
        BY <1>6, <3>1, <4>1, <4>3
      <4>4. QED
        BY <4>2, <4>3
    <3>4. QED
      BY <3>1, <3>2, <3>3 DEF Spans
  <2>3. QED
    BY <2>1, <2>2
<1>13. Settled(w, pub, fh, lh2, cp2, asc)
  <2>1. \A g \in Guid : w[g] = Nil <=> v[g] = Nil
    BY <1>6, <1>7 DEF id
  <2>2. \A g \in Guid : v[g] = Nil => cp2[g] = cp[g]
    BY DEF id
  <2>3. \A g \in Guid : \A j \in Port : v[g] = Nil /\ Latest(fh, j, g) => lh2[j] = lh[j]
    BY <1>3, <1>9 DEF id
  <2>4. QED
    BY <2>1, <2>2, <2>3 DEF Settled
<1>14. QED
  BY <1>12, <1>13

\* Two sessions that have seen the same pings.
Alike(s, r) ==
  s.minSeq = r.minSeq /\ s.maxSeq = r.maxSeq /\ s.count = r.count /\ s.idle = r.idle

\* The first ping of an id makes a session that has seen just that ping
\* (serversession.cc:58-74, 103-117).
LEMMA CreatedTracks ==
  ASSUME ShortBursts, NEW p \in Ping, NEW src \in Source, NEW n \in Nat, NEW c \in Nat,
         p.seqNum = (n - 1) % SeqMod
  PROVE  /\ Recorded(NewSession(p, src), p) # Nil
         /\ Recorded(NewSession(p, src), p).idle = 0
         /\ Recorded(NewSession(p, src), p).successor = Nil
         /\ Tracks(Recorded(NewSession(p, src), p), n, n, c)
<1>1. p.seqNum \in Seqnum
  BY NamesAssumption
<1>2. MaxBurst \in Nat /\ Window \in Nat /\ SeqMod \in Nat /\ MaxBurst + 2 <= Window
      /\ 2 * Window < SeqMod
  BY BurstsFit
<1>3. /\ NewSession(p, src) \in Session
      /\ NewSession(p, src).count = 0 /\ NewSession(p, src).successor = Nil
      /\ NewSession(p, src).minSeq = p.seqNum /\ NewSession(p, src).maxSeq = p.seqNum
  BY NewSessionTyped DEF NewSession
<1>4. PICK s \in Session : s = NewSession(p, src)
  BY <1>3
<1>5. PICK r \in Session :
        /\ r = Recorded(NewSession(p, src), p)
        /\ r.idle = 0 /\ r.count = 1 /\ r.successor = Nil
        /\ r.maxSeq = RecordMax(p.seqNum, p.seqNum)
        /\ r.minSeq = RecordMin(p.seqNum, p.seqNum)
  BY <1>3, <1>4, RecordedSession, RecordedFields
<1>6. r.maxSeq = p.seqNum /\ r.minSeq = p.seqNum
  BY <1>5 DEF RecordMax, RecordMin
<1>7. r.count <= n - n + 1 + c /\ n - n <= SeqMod - Window - MaxBurst /\ n <= n
  BY <1>2, <1>5
<1>8. Tracks(r, n, n, c)
  BY <1>6, <1>7 DEF Tracks
<1>9. QED
  BY <1>5, <1>8, NilAssumption

\* The n-th ping of port i is the first of id to arrive, and the last of the port.
Begins(fh, fh2, lh, lh2, i, id, n) ==
  /\ \A j \in Port : fh[j][id] = 0
  /\ \A g \in Guid : fh[i][g] <= lh[i]
  /\ fh2[i][id] = n
  /\ \A g \in Guid \ {id} : fh2[i][g] = fh[i][g]
  /\ \A j \in Port \ {i} : \A g \in Guid : fh2[j][g] = fh[j][g]
  /\ lh2[i] = n
  /\ \A j \in Port \ {i} : lh2[j] = lh[j]

\* The latest id of port i has a session, and learns that id succeeds it; the other
\* sessions stay as they are.
Succeeds(v, w, fh, i, id) ==
  /\ v[id] = Nil
  /\ \A g \in Guid : Latest(fh, i, g) => v[g] # Nil
  /\ \A g \in Guid \ {id} : w[g] = Nil <=> v[g] = Nil
  /\ \A g \in Guid \ {id} : v[g] # Nil =>
       /\ Alike(w[g], v[g])
       /\ w[g].successor = IF Latest(fh, i, g) THEN id ELSE v[g].successor

\* The first ping of an id makes it the latest of its port, and the successor of the
\* one that was (serversession.cc:58-74).
LEMMA CreateSpans ==
  ASSUME ShortBursts,
         NEW v \in Lives, NEW w \in Lives, NEW pub, NEW id \in Guid, NEW asc \in BOOLEAN,
         NEW fh \in Firsts, NEW fh2 \in Firsts, NEW lh \in Lasts, NEW lh2 \in Lasts,
         NEW cp \in Copies, NEW i \in Port, NEW n \in Nat,
         Separate(fh), Spans(v, fh, lh, cp), Settled(v, pub, fh, lh, cp, asc),
         Begins(fh, fh2, lh, lh2, i, id, n), Succeeds(v, w, fh, i, id),
         lh[i] < n, n <= lh[i] + MaxBurst + 1,
         w[id] # Nil, w[id].idle = 0, w[id].successor = Nil, Tracks(w[id], n, n, cp[id])
  PROVE  Spans(w, fh2, lh2, cp) /\ Settled(w, pub, fh2, lh2, cp, asc)
<1>1. /\ \A j \in Port : \A g \in Guid : fh[j][g] \in Nat
      /\ \A j \in Port : lh[j] \in Nat
      /\ \A g \in Guid : cp[g] \in Nat
  BY DEF Firsts, Lasts, Copies
<1>2. lh2[i] = n /\ \A j \in Port \ {i} : lh2[j] = lh[j]
  BY DEF Begins
<1>3. /\ fh2[i][id] = n
      /\ \A g \in Guid \ {id} : fh2[i][g] = fh[i][g]
      /\ \A j \in Port \ {i} : \A g \in Guid : fh2[j][g] = fh[j][g]
  BY DEF Begins
<1>4. MaxBurst \in Nat /\ Window \in Nat /\ SeqMod \in Nat /\ MaxBurst + 2 <= Window
      /\ 2 * Window < SeqMod
  BY BurstsFit
<1>5. id \in Guid /\ n <= lh[i] + MaxBurst + 1
  OBVIOUS
<1>6. /\ w[id] # Nil /\ w[id].idle = 0 /\ w[id].successor = Nil
      /\ Tracks(w[id], n, n, cp[id])
  OBVIOUS
<1>7. ASSUME NEW g \in Guid \ {id}
      PROVE  /\ w[g] = Nil <=> v[g] = Nil
             /\ v[g] # Nil =>
                  /\ w[g].minSeq = v[g].minSeq /\ w[g].maxSeq = v[g].maxSeq
                  /\ w[g].count = v[g].count /\ w[g].idle = v[g].idle /\ v[g].idle \in Nat
                  /\ Latest(fh, i, g) => w[g].successor = id
                  /\ ~ Latest(fh, i, g) => w[g].successor = v[g].successor
  <2>1. v[g] # Nil => v[g].idle \in Nat
    BY DEF Lives, Session
  <2>2. QED
    BY <2>1 DEF Alike, Succeeds
<1>8. \A j \in Port : fh[j][id] = 0
  BY DEF Begins
<1>9. \A g \in Guid : fh[i][g] < n /\ fh[i][g] <= lh[i]
  BY <1>1 DEF Begins
<1>10. \A j \in Port : Latest(fh2, j, id) => j = i
  BY <1>3, <1>5, <1>8 DEF Latest
<1>11. \A j \in Port : \A e \in Guid : ~ Follows(fh2, j, id, e)
  <2> SUFFICES ASSUME NEW j \in Port, NEW e \in Guid, Follows(fh2, j, id, e) PROVE FALSE
    OBVIOUS
  <2>1. j = i
    BY <1>3, <1>5, <1>8 DEF Follows
  <2>2. n < fh2[i][e]
    BY <1>3, <2>1 DEF Follows
  <2>3. QED
    BY <1>1, <1>3, <1>9, <2>2
\* The ids of other ports, and on this port those before the one that was the latest,
\* are followed as before.
<1>12. ASSUME NEW g \in Guid \ {id}, NEW j \in Port
       PROVE  /\ Latest(fh2, j, g) => j # i /\ Latest(fh, j, g) /\ fh2[j][g] = fh[j][g]
              /\ \A e \in Guid : Follows(fh2, j, g, e) =>
                   \/ /\ e # id /\ Follows(fh, j, g, e)
                      /\ fh2[j][g] = fh[j][g] /\ fh2[j][e] = fh[j][e]
                   \/ e = id /\ j = i /\ Latest(fh, i, g)
  <2>1. CASE j # i
    <3>1. \A h \in Guid : fh2[j][h] = fh[j][h]
      BY <1>3, <2>1
    <3>2. \A e \in Guid : Follows(fh, j, g, e) => e # id
      BY <1>1, <1>8 DEF Follows
    <3>3. QED
      BY <2>1, <3>1, <3>2 DEF Latest, Follows
  <2>2. CASE j = i
    <3>1. ~ Latest(fh2, i, g)
      BY <1>1, <1>3, <1>5, <1>9 DEF Latest
    <3>2. ASSUME NEW e \in Guid, Follows(fh2, i, g, e), e # id
          PROVE  Follows(fh, i, g, e)
      <4>1. fh2[i][g] = fh[i][g] /\ fh2[i][e] = fh[i][e]
        BY <1>3, <3>2
      <4>2. \A h \in Guid : fh[i][h] <= fh[i][g] \/ fh[i][e] <= fh[i][h]
        <5> SUFFICES ASSUME NEW h \in Guid
                     PROVE  fh[i][h] <= fh[i][g] \/ fh[i][e] <= fh[i][h]
          OBVIOUS
        <5>1. CASE h = id
          BY <1>1, <1>8, <5>1
        <5>2. CASE h # id
          BY <1>3, <3>2, <4>1, <5>2 DEF Follows
        <5>3. QED
          BY <5>1, <5>2
      <4>3. QED
        BY <3>2, <4>1, <4>2 DEF Follows
    <3>3. ASSUME Follows(fh2, i, g, id) PROVE Latest(fh, i, g)
      <4>1. fh[i][g] # 0
        BY <1>3, <3>3 DEF Follows
      <4>2. \A h \in Guid \ {id} : fh[i][h] <= fh[i][g]
        BY <1>1, <1>3, <1>9, <3>3 DEF Follows
      <4>3. fh[i][id] <= fh[i][g]
        BY <1>1, <1>8
      <4>4. QED
        BY <4>1, <4>2, <4>3 DEF Latest
    <3>4. QED
      BY <1>3, <2>2, <3>1, <3>2, <3>3
  <2>3. QED
    BY <2>1, <2>2
<1>13. Spans(w, fh2, lh2, cp)
  <2> SUFFICES ASSUME NEW g \in Guid, w[g] # Nil
               PROVE  /\ \E j \in Port : fh2[j][g] # 0
                      /\ \A j \in Port :
                           /\ Latest(fh2, j, g) =>
                                /\ w[g].successor = Nil
                                /\ Tracks(w[g], fh2[j][g], lh2[j], cp[g])
                           /\ \A e \in Guid : Follows(fh2, j, g, e) =>
                                /\ w[e] # Nil
                                /\ w[g].successor = e
                                /\ w[e].idle <= w[g].idle
                                /\ \E l \in 1 .. (fh2[j][e] - 1) :
                                     /\ fh2[j][e] <= l + MaxBurst + 1
                                     /\ Tracks(w[g], fh2[j][g], l, cp[g])
    BY DEF Spans
  <2>1. CASE g = id
    <3>1. fh2[i][id] # 0
      BY <1>3, <1>5, <1>8, <1>9
    <3>2. \A j \in Port : Latest(fh2, j, id) =>
            w[id].successor = Nil /\ Tracks(w[id], fh2[j][id], lh2[j], cp[id])
      BY <1>2, <1>3, <1>6, <1>10
    <3>3. QED
      BY <1>11, <2>1, <3>1, <3>2
  <2>2. CASE g # id
    <3>1. g \in Guid \ {id} /\ v[g] # Nil
      BY <1>7, <2>2
    <3>2. \E j \in Port : fh2[j][g] # 0
      BY <1>3, <2>2, <3>1 DEF Spans
    <3>3. ASSUME NEW j \in Port, Latest(fh2, j, g)
          PROVE  w[g].successor = Nil /\ Tracks(w[g], fh2[j][g], lh2[j], cp[g])
      <4>1. j # i /\ Latest(fh, j, g) /\ fh2[j][g] = fh[j][g] /\ lh2[j] = lh[j]
        BY <1>2, <1>12, <3>1, <3>3
      <4>2. v[g].successor = Nil /\ Tracks(v[g], fh[j][g], lh[j], cp[g])
        BY <3>1, <4>1 DEF Spans
      <4>3. ~ Latest(fh, i, g)
        BY <4>1 DEF Separate, Latest
      <4>4. QED
        BY <1>7, <3>1, <4>1, <4>2, <4>3 DEF Tracks
    <3>4. ASSUME NEW j \in Port, NEW e \in Guid, Follows(fh2, j, g, e)
          PROVE  /\ w[e] # Nil
                 /\ w[g].successor = e
                 /\ w[e].idle <= w[g].idle
                 /\ \E l \in 1 .. (fh2[j][e] - 1) :
                      /\ fh2[j][e] <= l + MaxBurst + 1
                      /\ Tracks(w[g], fh2[j][g], l, cp[g])
      <4>1. CASE /\ e # id /\ Follows(fh, j, g, e)
                 /\ fh2[j][g] = fh[j][g] /\ fh2[j][e] = fh[j][e]
        <5>1. /\ v[e] # Nil /\ v[g].successor = e /\ v[e].idle <= v[g].idle
              /\ \E l \in 1 .. (fh[j][e] - 1) :
                   /\ fh[j][e] <= l + MaxBurst + 1
                   /\ Tracks(v[g], fh[j][g], l, cp[g])
          BY <3>1, <4>1 DEF Spans
        <5>2. ~ Latest(fh, i, g)
          <6>1. fh[j][g] # 0 /\ ~ Latest(fh, j, g)
            BY <1>1, <4>1 DEF Follows, Latest
          <6>2. QED
            BY <6>1 DEF Separate, Latest
        <5>3. /\ w[g].successor = e /\ w[e] # Nil /\ w[e].idle <= w[g].idle
          BY <1>7, <3>1, <4>1, <5>1, <5>2
        <5>4. \A l : Tracks(v[g], fh[j][g], l, cp[g]) => Tracks(w[g], fh2[j][g], l, cp[g])
          BY <1>7, <3>1, <4>1 DEF Tracks
        <5>5. QED
          BY <4>1, <5>1, <5>3, <5>4
      <4>2. CASE e = id /\ j = i /\ Latest(fh, i, g)
        <5>1. Tracks(v[g], fh[i][g], lh[i], cp[g])
          BY <3>1, <4>2 DEF Spans
        <5>2. Tracks(w[g], fh2[i][g], lh[i], cp[g])
          BY <1>3, <1>7, <3>1, <5>1 DEF Tracks
        <5>3. lh[i] \in 1 .. (fh2[i][id] - 1) /\ fh2[i][id] <= lh[i] + MaxBurst + 1
          BY <1>1, <1>3, <1>4, <4>2, <5>1 DEF Latest, Tracks
        <5>4. w[g].successor = id /\ w[id].idle <= w[g].idle
          BY <1>6, <1>7, <3>1, <4>2
        <5>5. QED
          BY <1>6, <4>2, <5>2, <5>3, <5>4
      <4>3. QED
        BY <1>12, <3>1, <3>4, <4>1, <4>2
    <3>5. QED
      BY <3>2, <3>3, <3>4
  <2>3. QED
    BY <2>1, <2>2
<1>14. Settled(w, pub, fh2, lh2, cp, asc)
  <2> SUFFICES ASSUME NEW g \in Guid
               PROVE  /\ w[g] # Nil \/ (\A j \in Port : fh2[j][g] = 0) =>
                           pub[g].count = 0 /\ pub[g].target = 0
                      /\ \A j \in Port : w[g] = Nil /\ fh2[j][g] # 0 =>
                           /\ pub[g].count <= pub[g].target + cp[g]
                           /\ Latest(fh2, j, g) => pub[g].target = lh2[j] - fh2[j][g] + 1
                           /\ \A e \in Guid : Follows(fh2, j, g, e) /\ asc =>
                                pub[g].target = fh2[j][e] - fh2[j][g]
    BY DEF Settled
  <2>1. CASE g = id
    BY <1>6, <1>8, <2>1 DEF Settled
  <2>2. CASE g # id
    <3>1. g \in Guid \ {id} /\ (w[g] = Nil <=> v[g] = Nil)
          /\ \A j \in Port : fh2[j][g] = fh[j][g]
      BY <1>3, <1>7, <2>2
    <3>2. ASSUME NEW j \in Port, v[g] = Nil, Latest(fh2, j, g)
          PROVE  Latest(fh, j, g) /\ lh2[j] = lh[j]
      BY <1>2, <1>12, <3>1, <3>2
    <3>3. ASSUME NEW j \in Port, v[g] = Nil, NEW e \in Guid, Follows(fh2, j, g, e)
          PROVE  Follows(fh, j, g, e) /\ fh2[j][e] = fh[j][e]
      <4>1. ~ Latest(fh, i, g)
        BY <3>3 DEF Succeeds
      <4>2. QED
        BY <1>12, <3>1, <3>3, <4>1
    <3>4. v[g] # Nil \/ (\A j \in Port : fh[j][g] = 0) =>
            pub[g].count = 0 /\ pub[g].target = 0
      BY DEF Settled
    <3>5. ASSUME NEW j \in Port, v[g] = Nil, fh[j][g] # 0
          PROVE  /\ pub[g].count <= pub[g].target + cp[g]
                 /\ Latest(fh, j, g) => pub[g].target = lh[j] - fh[j][g] + 1
                 /\ \A e \in Guid : Follows(fh, j, g, e) /\ asc =>
                      pub[g].target = fh[j][e] - fh[j][g]
      BY <3>5 DEF Settled
    <3>6. w[g] # Nil \/ (\A j \in Port : fh2[j][g] = 0) =>
            pub[g].count = 0 /\ pub[g].target = 0
      BY <3>1, <3>4
    <3>7. ASSUME NEW j \in Port, w[g] = Nil, fh2[j][g] # 0
          PROVE  /\ pub[g].count <= pub[g].target + cp[g]
                 /\ Latest(fh2, j, g) => pub[g].target = lh2[j] - fh2[j][g] + 1
                 /\ \A e \in Guid : Follows(fh2, j, g, e) /\ asc =>
                      pub[g].target = fh2[j][e] - fh2[j][g]
      <4>1. v[g] = Nil /\ fh[j][g] # 0 /\ fh2[j][g] = fh[j][g]
        BY <3>1, <3>7
      <4>2. pub[g].count <= pub[g].target + cp[g]
        BY <3>5, <4>1
      <4>3. Latest(fh2, j, g) => pub[g].target = lh2[j] - fh2[j][g] + 1
        BY <3>2, <3>5, <4>1
      <4>4. ASSUME NEW e \in Guid, Follows(fh2, j, g, e), asc
            PROVE  pub[g].target = fh2[j][e] - fh2[j][g]
        <5>1. Follows(fh, j, g, e) /\ fh2[j][e] = fh[j][e]
          BY <3>3, <4>1, <4>4
        <5>2. pub[g].target = fh[j][e] - fh[j][g]
          BY <3>5, <4>1, <4>4, <5>1
        <5>3. QED
          BY <4>1, <5>1, <5>2
      <4>5. QED
        BY <4>2, <4>3, <4>4
    <3>8. QED
      BY <3>6, <3>7
  <2>3. QED
    BY <2>1, <2>2
<1>15. QED
  BY <1>13, <1>14

----------------------------------------------------------------------------
(* The client.                                                             *)

Turns == [guid : Guid, seqNum : Seqnum, lastRollover : Int, curMac : Int]

ClientTyped ==
  /\ now \in Int
  /\ phase \in {"choose", "send"}
  /\ curSession \in Port /\ chosen \in Port
  /\ sessions \in [Port -> Turns]
  /\ used \subseteq Guid
  /\ sent \in Seq(Pings)
  /\ Len(sent) <= MaxSends
  /\ phase = "send" => Len(sent) < MaxSends

\* The pings of a port are numbered in the order they were sent, and none is stamped
\* later than now.
Numbered ==
  /\ \A k \in 1 .. Len(sent) :
       /\ sent[k].seqNum = (Count(sent, sent[k].session, k) - 1) % SeqMod
       /\ sent[k].stamp <= now
  /\ \A i \in Port : sessions[i].seqNum = Count(sent, i, Len(sent)) % SeqMod

\* An id is of one port, and its pings follow each other there.
Identified ==
  /\ \A i, j \in Port : sessions[i].guid = sessions[j].guid => i = j
  /\ \A i \in Port : sessions[i].guid \in used
  /\ \A k \in 1 .. Len(sent) : sent[k].guid \in used
  /\ \A k \in 1 .. Len(sent) : \A i \in Port :
       sent[k].guid = sessions[i].guid => sent[k].session = i
  /\ \A j, k \in 1 .. Len(sent) :
       sent[j].guid = sent[k].guid => sent[j].session = sent[k].session
  /\ \A j, k \in 1 .. Len(sent) :
       j < k /\ sent[j].session = sent[k].session
       /\ sent[j].guid = sessions[sent[j].session].guid
         => sent[k].guid = sent[j].guid
  /\ \A j, k, l \in 1 .. Len(sent) :
       j < k /\ k < l /\ sent[j].session = sent[k].session /\ sent[j].guid = sent[l].guid
         => sent[k].guid = sent[j].guid

ClientOrder == ClientTyped /\ Numbered /\ Identified

\* The client's ports are the numbers of its list, and the cursor stays among them
\* (clientsession.cc:71-126).
LEMMA PortList ==
  /\ C!Sessions = Port
  /\ NumPorts \in Nat /\ NumPorts > 0 /\ Port = 1 .. NumPorts
  /\ Len([i \in Port |-> i]) = NumPorts
  /\ \A i \in Port : C!NextSession(i) \in Port
<1>1. NumPorts \in Nat /\ NumPorts > 0 /\ Port = 1 .. NumPorts
  BY ClientAssumption
<1>2. Len([i \in Port |-> i]) = NumPorts
  <2>1. [i \in 1 .. NumPorts |-> i] \in Seq(Nat)
    BY <1>1
  <2>2. QED
    BY <1>1, <2>1
<1>3. \A i \in Port : C!NextSession(i) \in Port
  BY <1>1, <1>2 DEF C!NextSession
<1>4. C!Sessions = Port
  BY DEF C!Sessions
<1>5. QED
  BY <1>1, <1>2, <1>3, <1>4

\* A turn chosen, field by field: the session keeps its number, and its id or a new
\* one (clientsession.cc:114-182).
LEMMA ChooseFacts ==
  ASSUME ClientTyped, C!ChooseSession
  PROVE  /\ UNCHANGED <<now, sent>> /\ phase = "choose" /\ phase' = "send"
         /\ Len(sent) < MaxSends
         /\ curSession' \in Port /\ chosen' \in Port
         /\ sessions' \in [Port -> Turns]
         /\ used \subseteq used' /\ used' \subseteq Guid
         /\ \A i \in Port :
              /\ sessions'[i].seqNum = sessions[i].seqNum
              /\ \/ sessions'[i].guid = sessions[i].guid
                 \/ /\ i = curSession
                    /\ sessions'[i].guid \notin used /\ sessions'[i].guid \in used'
<1>1. /\ UNCHANGED <<now, sent>> /\ phase = "choose" /\ phase' = "send"
      /\ Len(sent) < MaxSends
      /\ chosen' = curSession /\ curSession' = C!NextSession(curSession)
  BY DEF C!ChooseSession
<1>2. curSession' \in Port /\ chosen' \in Port
  BY <1>1, PortList DEF ClientTyped
<1>3. PICK t \in Int : t = C!Period(now)
  <2>1. now \in Int /\ Interval \in Nat /\ Interval > 0
    BY ClientAssumption DEF ClientTyped
  <2>2. now - (now % Interval) \in Int
    BY <2>1
  <2>3. QED
    BY <2>2 DEF C!Period
<1>4. /\ curSession \in Port /\ sessions \in [Port -> Turns]
       /\ used \subseteq Guid
  BY DEF ClientTyped
<1>5. PICK s \in Turns : s = sessions[curSession]
  BY <1>4
<1>6. CASE /\ sessions' = [sessions EXCEPT ![curSession].lastRollover = C!Period(now)]
           /\ used' = used
  <2>1. sessions' = [sessions EXCEPT ![curSession] = [s EXCEPT !.lastRollover = t]]
    BY <1>3, <1>5, <1>6
  <2>2. [s EXCEPT !.lastRollover = t] \in Turns
    BY <1>5 DEF Turns
  <2>3. /\ [s EXCEPT !.lastRollover = t].guid = s.guid
        /\ [s EXCEPT !.lastRollover = t].seqNum = s.seqNum
    BY <1>5 DEF Turns
  <2>4. QED
    BY <1>1, <1>2, <1>4, <1>5, <1>6, <2>1, <2>2, <2>3
<1>7. ASSUME NEW g \in Guid \ used,
             sessions' = [sessions EXCEPT ![curSession] = C!Reset(curSession, g)],
             used' = used \cup {g}
      PROVE  /\ sessions' \in [Port -> Turns]
             /\ used \subseteq used' /\ used' \subseteq Guid
             /\ \A i \in Port :
                  /\ sessions'[i].seqNum = sessions[i].seqNum
                  /\ \/ sessions'[i].guid = sessions[i].guid
                     \/ /\ i = curSession
                        /\ sessions'[i].guid \notin used /\ sessions'[i].guid \in used'
  <2>1. C!Reset(curSession, g) = [s EXCEPT !.guid = g, !.lastRollover = t]
    BY <1>3, <1>5 DEF C!Reset
  <2> DEFINE r == [s EXCEPT !.guid = g, !.lastRollover = t]
  <2>2. r \in Turns /\ r.guid = g /\ r.seqNum = s.seqNum
    <3>1. r \in Turns
      BY DEF Turns
    <3>2. r.guid = g
      BY DEF Turns
    <3>3. r.seqNum = s.seqNum
      BY DEF Turns
    <3>4. QED
      BY <3>1, <3>2, <3>3
  <2> HIDE DEF r
  <2>3. sessions' = [sessions EXCEPT ![curSession] = r]
    BY <1>7, <2>1 DEF r
  <2>4. QED
    BY <1>4, <1>5, <1>7, <2>2, <2>3
<1>8. \/ /\ sessions' = [sessions EXCEPT ![curSession].lastRollover = C!Period(now)]
         /\ used' = used
      \/ \E g \in Guid \ used :
           /\ sessions' = [sessions EXCEPT ![curSession] = C!Reset(curSession, g)]
           /\ used' = used \cup {g}
  BY DEF C!ChooseSession
<1>9. CASE \E g \in Guid \ used :
             /\ sessions' = [sessions EXCEPT ![curSession] = C!Reset(curSession, g)]
             /\ used' = used \cup {g}
  BY <1>1, <1>2, <1>7, <1>9
<1>10. QED
  BY <1>6, <1>8, <1>9

\* A ping sent, field by field (clientsession.cc:163-214).
LEMMA SendFacts ==
  ASSUME ClientTyped, C!SendPingPacket
  PROVE  /\ UNCHANGED <<now, used, curSession, chosen>>
         /\ phase = "send" /\ phase' = "choose"
         /\ Len(sent) \in Nat /\ Len(sent') = Len(sent) + 1
         /\ sent' \in Seq(Pings)
         /\ \A k \in 1 .. Len(sent) : sent'[k] = sent[k]
         /\ sent'[Len(sent) + 1].session = chosen
         /\ sent'[Len(sent) + 1].guid = sessions[chosen].guid
         /\ sent'[Len(sent) + 1].seqNum = sessions[chosen].seqNum
         /\ sent'[Len(sent) + 1].stamp = now
         /\ sessions' \in [Port -> Turns]
         /\ \A i \in Port : sessions'[i].guid = sessions[i].guid
         /\ \A i \in Port \ {chosen} : sessions'[i].seqNum = sessions[i].seqNum
         /\ sessions'[chosen].seqNum = (sessions[chosen].seqNum + 1) % SeqMod
<1>1. /\ chosen \in Port /\ sessions \in [Port -> Turns]
      /\ sent \in Seq(Pings) /\ now \in Int
  BY DEF ClientTyped
<1>2. PICK s \in Turns : s = sessions[chosen]
  BY <1>1
<1>3. PICK mac \in Int : mac = C!NextMac(chosen)
  <2>1. s.curMac \in Int /\ s.curMac + 1 \in Int
    BY DEF Turns
  <2>2. QED
    BY <1>2, <2>1 DEF C!NextMac
<1>4. PICK q \in Pings :
        /\ q = [session |-> chosen, guid |-> s.guid, seqNum |-> s.seqNum, stamp |-> now,
                mac |-> mac]
        /\ q.session = chosen /\ q.guid = s.guid /\ q.seqNum = s.seqNum /\ q.stamp = now
  <2>1. [session |-> chosen, guid |-> s.guid, seqNum |-> s.seqNum, stamp |-> now,
         mac |-> mac] \in Pings
    BY <1>1 DEF Pings, Turns
  <2>2. QED
    BY <2>1
<1>5. sent' = Append(sent, q)
  BY <1>2, <1>3, <1>4 DEF C!SendPingPacket
<1>6. PICK x \in Seqnum : x = (s.seqNum + 1) % SeqMod
  <2>1. PICK d \in Nat, y \in Nat : d = SeqMod /\ d > 0 /\ y = s.seqNum + 1
    <3>1. s.seqNum + 1 \in Nat /\ SeqMod \in Nat /\ SeqMod > 0
      BY WindowAssumption DEF Turns, Seqnum
    <3>2. QED
      BY <3>1
  <2>2. y % d \in 0 .. (d - 1)
    BY <2>1
  <2>3. QED
    BY <2>1, <2>2 DEF Seqnum
<1>7. sessions' = [sessions EXCEPT ![chosen] = [s EXCEPT !.curMac = mac, !.seqNum = x]]
  BY <1>1, <1>2, <1>3, <1>6 DEF C!SendPingPacket
<1> DEFINE r == [s EXCEPT !.curMac = mac, !.seqNum = x]
<1>8. r \in Turns /\ r.guid = s.guid /\ r.seqNum = x
  <2>1. r \in Turns
    BY DEF Turns
  <2>2. r.guid = s.guid
    BY DEF Turns
  <2>3. r.seqNum = x
    BY DEF Turns
  <2>4. QED
    BY <2>1, <2>2, <2>3
<1> HIDE DEF r
<1>9. sessions' = [sessions EXCEPT ![chosen] = r]
  BY <1>7 DEF r
<1>10. /\ sessions' \in [Port -> Turns]
       /\ \A i \in Port : sessions'[i].guid = sessions[i].guid
       /\ \A i \in Port \ {chosen} : sessions'[i].seqNum = sessions[i].seqNum
       /\ sessions'[chosen].seqNum = x
  BY <1>1, <1>2, <1>8, <1>9
<1>11. /\ Len(sent) \in Nat /\ Len(sent') = Len(sent) + 1 /\ sent' \in Seq(Pings)
       /\ \A k \in 1 .. Len(sent) : sent'[k] = sent[k]
       /\ sent'[Len(sent) + 1] = q
  BY <1>1, <1>5
<1>12. /\ UNCHANGED <<now, used, curSession, chosen>>
       /\ phase = "send" /\ phase' = "choose"
  BY DEF C!SendPingPacket
<1>13. /\ sent'[Len(sent) + 1].session = chosen
       /\ sent'[Len(sent) + 1].guid = sessions[chosen].guid
       /\ sent'[Len(sent) + 1].seqNum = sessions[chosen].seqNum
       /\ sent'[Len(sent) + 1].stamp = now
  BY ONLY <1>2, <1>4, <1>11
<1>14. sessions'[chosen].seqNum = (sessions[chosen].seqNum + 1) % SeqMod
  BY ONLY <1>2, <1>6, <1>10
<1>15. QED
  BY ONLY <1>10, <1>11, <1>12, <1>13, <1>14

\* A ping sent is a ping (protocol.h:58-64).
LEMMA SentTyped ==
  ASSUME ClientTyped
  PROVE  /\ Len(sent) \in Nat /\ Len(sent) <= MaxSends /\ MaxSends \in Nat
         /\ \A k \in 1 .. Len(sent) :
              /\ sent[k].session \in Port /\ sent[k].guid \in Guid
              /\ sent[k].seqNum \in Seqnum /\ sent[k].stamp \in Int
<1>1. sent \in Seq(Pings) /\ Len(sent) <= MaxSends
  BY DEF ClientTyped
<1>2. Len(sent) \in Nat /\ \A k \in 1 .. Len(sent) : sent[k] \in Pings
  BY <1>1
<1>3. QED
  BY <1>1, <1>2, ClientAssumption DEF Pings

\* The client begins in order (clientsession.cc:71-112, 128-133).
LEMMA ClientStarts ==
  ASSUME C!Init
  PROVE  ClientOrder
<1>1. /\ now = FirstSecond /\ phase = "choose" /\ curSession = 1 /\ chosen = 1
      /\ sent = <<>>
  BY DEF C!Init
<1>2. PICK id \in C!FirstIds(NumPorts) :
        /\ sessions = C!NewSessions(id, NumMacs)
        /\ used = {id[i] : i \in Port}
  BY PortList DEF C!Init
<1>3. /\ id \in [Port -> Guid]
      /\ \A i, j \in Port : id[i] = id[j] => i = j
  BY <1>2, PortList DEF C!FirstIds
<1>4. sessions = [i \in Port |-> [guid |-> id[i], seqNum |-> 0, lastRollover |-> 0,
                                  curMac |-> NumMacs]]
  BY <1>2, <1>3 DEF C!NewSessions
<1>5. 0 \in Seqnum /\ 0 % SeqMod = 0
  <2>1. SeqMod \in Nat /\ SeqMod > 0
    BY WindowAssumption
  <2>2. 0 % SeqMod = 0
    BY <2>1
  <2>3. QED
    BY <2>1, <2>2 DEF Seqnum
<1>6. sessions \in [Port -> Turns]
  BY <1>3, <1>4, <1>5, ClientAssumption DEF Turns
<1>7. \A i \in Port : sessions[i].guid = id[i] /\ sessions[i].seqNum = 0
  BY <1>4
<1>8. ClientTyped
  <2>1. 1 \in Port
    BY PortList
  <2>2. sent \in Seq(Pings) /\ Len(sent) = 0
    BY <1>1
  <2>3. QED
    BY <1>1, <1>2, <1>3, <1>6, <2>1, <2>2, ClientAssumption DEF ClientTyped
<1>9. Len(sent) = 0
  BY <1>1
<1>10. Numbered
  BY <1>5, <1>7, <1>9, CountNone DEF Numbered
<1>11. Identified
  BY <1>2, <1>3, <1>7, <1>9 DEF Identified
<1>12. QED
  BY <1>8, <1>10, <1>11 DEF ClientOrder

\* A turn chosen keeps the order: the new id is nobody's (clientsession.cc:114-182).
LEMMA ChooseKeepsOrder ==
  ASSUME ClientOrder, C!ChooseSession
  PROVE  ClientOrder'
<1>1. ClientTyped /\ Numbered /\ Identified
  BY DEF ClientOrder
<1>2. /\ now' = now /\ sent' = sent /\ phase = "choose" /\ phase' = "send"
      /\ Len(sent) < MaxSends
      /\ curSession' \in Port /\ chosen' \in Port
      /\ sessions' \in [Port -> Turns]
      /\ used \subseteq used' /\ used' \subseteq Guid
      /\ \A i \in Port :
           /\ sessions'[i].seqNum = sessions[i].seqNum
           /\ \/ sessions'[i].guid = sessions[i].guid
              \/ /\ i = curSession
                 /\ sessions'[i].guid \notin used /\ sessions'[i].guid \in used'
  BY <1>1, ChooseFacts
<1>3. ClientTyped'
  BY <1>1, <1>2 DEF ClientTyped
<1>4. Numbered'
  <2>1. \A i, k : Count(sent', i, k) = Count(sent, i, k)
    BY <1>2
  <2>2. QED
    BY <1>1, <1>2, <2>1 DEF Numbered
<1>5. Identified'
  <2>1. /\ \A i, j \in Port : sessions[i].guid = sessions[j].guid => i = j
        /\ \A i \in Port : sessions[i].guid \in used
        /\ \A k \in 1 .. Len(sent) : sent[k].guid \in used
        /\ \A k \in 1 .. Len(sent) : \A i \in Port :
             sent[k].guid = sessions[i].guid => sent[k].session = i
        /\ \A j, k \in 1 .. Len(sent) :
             sent[j].guid = sent[k].guid => sent[j].session = sent[k].session
        /\ \A j, k \in 1 .. Len(sent) :
             j < k /\ sent[j].session = sent[k].session
             /\ sent[j].guid = sessions[sent[j].session].guid
               => sent[k].guid = sent[j].guid
    BY <1>1 DEF Identified
  <2>2. \A i, j \in Port : sessions'[i].guid = sessions'[j].guid => i = j
    BY <1>2, <2>1
  <2>3. \A i \in Port : sessions'[i].guid \in used'
    BY <1>2, <2>1
  <2>4. \A k \in 1 .. Len(sent) : \A i \in Port :
          sent[k].guid = sessions'[i].guid => sessions'[i].guid = sessions[i].guid
    BY <1>2, <2>1
  <2>5. \A k \in 1 .. Len(sent) : sent[k].session \in Port
    BY <1>1, SentTyped
  <2>6. QED
    BY <1>1, <1>2, <2>1, <2>2, <2>3, <2>4, <2>5 DEF Identified
<1>6. QED
  BY <1>3, <1>4, <1>5 DEF ClientOrder

\* A ping sent keeps the order: it is the next of its port, and of the id of its
\* session (clientsession.cc:163-214).
LEMMA SendKeepsOrder ==
  ASSUME ClientOrder, C!SendPingPacket
  PROVE  ClientOrder'
<1>1. ClientTyped /\ Numbered /\ Identified
  BY DEF ClientOrder
<1> DEFINE n == Len(sent)
<1>2. /\ now' = now /\ used' = used /\ curSession' = curSession /\ chosen' = chosen
      /\ phase = "send" /\ phase' = "choose"
      /\ n \in Nat /\ Len(sent') = n + 1
      /\ sent' \in Seq(Pings)
      /\ \A k \in 1 .. n : sent'[k] = sent[k]
      /\ sent'[n + 1].session = chosen
      /\ sent'[n + 1].guid = sessions[chosen].guid
      /\ sent'[n + 1].seqNum = sessions[chosen].seqNum
      /\ sent'[n + 1].stamp = now
      /\ sessions' \in [Port -> Turns]
      /\ \A i \in Port : sessions'[i].guid = sessions[i].guid
      /\ \A i \in Port \ {chosen} : sessions'[i].seqNum = sessions[i].seqNum
      /\ sessions'[chosen].seqNum = (sessions[chosen].seqNum + 1) % SeqMod
  BY <1>1, SendFacts
<1>3. chosen \in Port /\ n < MaxSends /\ MaxSends \in Nat
  BY <1>1, <1>2, ClientAssumption DEF ClientTyped
<1>4. \A k \in 1 .. n : sent[k].session \in Port
  BY <1>1, SentTyped
<1> HIDE DEF n
<1>5. ClientTyped'
  BY <1>1, <1>2, <1>3 DEF ClientTyped
<1>6. \A k \in 0 .. n : \A i : Count(sent', i, k) = Count(sent, i, k)
  BY <1>2, CountSame
<1>7. Count(sent, chosen, n) \in Nat /\ Count(sent', chosen, n + 1) = Count(sent, chosen, n) + 1
      /\ \A i : i # chosen => Count(sent', i, n + 1) = Count(sent, i, n)
  <2>1. n \in 0 .. n
    BY <1>2
  <2>2. \A i : Count(sent', i, n) = Count(sent, i, n)
    BY <1>6, <2>1
  <2>3. \A i : /\ Count(sent', i, n) \in Nat
               /\ sent'[n + 1].session = i => Count(sent', i, n + 1) = Count(sent', i, n) + 1
               /\ sent'[n + 1].session # i => Count(sent', i, n + 1) = Count(sent', i, n)
    BY <1>2, CountStep
  <2>4. QED
    BY <1>2, <2>2, <2>3
<1>8. /\ \A k \in 1 .. n :
           /\ sent[k].seqNum = (Count(sent, sent[k].session, k) - 1) % SeqMod
           /\ sent[k].stamp <= now
      /\ \A i \in Port : sessions[i].seqNum = Count(sent, i, n) % SeqMod
  BY <1>1 DEF Numbered, n
<1>9. Numbered'
  <2>1. ASSUME NEW k \in 1 .. (n + 1)
        PROVE  /\ sent'[k].seqNum = (Count(sent', sent'[k].session, k) - 1) % SeqMod
               /\ sent'[k].stamp <= now'
    <3>1. CASE k \in 1 .. n
      BY <1>2, <1>6, <1>8, <3>1
    <3>2. CASE k = n + 1
      <4>1. Count(sent', chosen, k) - 1 = Count(sent, chosen, n)
        BY <1>7, <3>2
      <4>2. now \in Int
        BY <1>1 DEF ClientTyped
      <4>3. QED
        BY <1>2, <1>3, <1>8, <3>2, <4>1, <4>2
    <3>3. QED
      BY <1>2, <3>1, <3>2
  <2>2. ASSUME NEW i \in Port
        PROVE  sessions'[i].seqNum = Count(sent', i, n + 1) % SeqMod
    <3>1. CASE i = chosen
      <4>1. PICK c \in Nat : c = Count(sent, chosen, n)
        BY <1>7
      <4>2. sessions'[chosen].seqNum = ((c % SeqMod) + 1) % SeqMod
        BY <1>2, <1>3, <1>8, <4>1
      <4>3. QED
        BY <1>7, <3>1, <4>1, <4>2, WrappedNext
    <3>2. CASE i # chosen
      BY <1>2, <1>7, <1>8, <3>2
    <3>3. QED
      BY <3>1, <3>2
  <2>3. QED
    BY <1>2, <2>1, <2>2 DEF Numbered
<1>10. /\ \A i, j \in Port : sessions[i].guid = sessions[j].guid => i = j
       /\ \A i \in Port : sessions[i].guid \in used
       /\ \A k \in 1 .. n : sent[k].guid \in used
       /\ \A k \in 1 .. n : \A i \in Port :
            sent[k].guid = sessions[i].guid => sent[k].session = i
       /\ \A j, k \in 1 .. n :
            sent[j].guid = sent[k].guid => sent[j].session = sent[k].session
       /\ \A j, k \in 1 .. n :
            j < k /\ sent[j].session = sent[k].session
            /\ sent[j].guid = sessions[sent[j].session].guid
              => sent[k].guid = sent[j].guid
       /\ \A j, k, l \in 1 .. n :
            j < k /\ k < l /\ sent[j].session = sent[k].session /\ sent[j].guid = sent[l].guid
              => sent[k].guid = sent[j].guid
  BY <1>1 DEF Identified, n
<1>11. \A k \in 1 .. (n + 1) : k \in 1 .. n \/ k = n + 1
  BY <1>2
<1>12. \A k \in 1 .. (n + 1) : sent'[k].guid \in used
  BY <1>2, <1>3, <1>10, <1>11
<1>13. \A k \in 1 .. (n + 1) : \A i \in Port :
         sent'[k].guid = sessions[i].guid => sent'[k].session = i
  BY <1>2, <1>3, <1>10, <1>11
<1>14. \A j, k \in 1 .. (n + 1) :
         sent'[j].guid = sent'[k].guid => sent'[j].session = sent'[k].session
  BY <1>2, <1>3, <1>10, <1>11
<1>15. \A j, k \in 1 .. (n + 1) :
         j < k /\ sent'[j].session = sent'[k].session
         /\ sent'[j].guid = sessions[sent'[j].session].guid
           => sent'[k].guid = sent'[j].guid
  <2> SUFFICES ASSUME NEW j \in 1 .. (n + 1), NEW k \in 1 .. (n + 1),
                      j < k, sent'[j].session = sent'[k].session,
                      sent'[j].guid = sessions[sent'[j].session].guid
               PROVE  sent'[k].guid = sent'[j].guid
    OBVIOUS
  <2>1. j \in 1 .. n
    BY <1>2
  <2>2. CASE k \in 1 .. n
    BY <1>2, <1>10, <2>1, <2>2
  <2>3. CASE k = n + 1
    BY <1>2, <1>10, <2>1, <2>3
  <2>4. QED
    BY <1>11, <2>2, <2>3
<1>16. \A j, k, l \in 1 .. (n + 1) :
         j < k /\ k < l /\ sent'[j].session = sent'[k].session /\ sent'[j].guid = sent'[l].guid
           => sent'[k].guid = sent'[j].guid
  <2> SUFFICES ASSUME NEW j \in 1 .. (n + 1), NEW k \in 1 .. (n + 1), NEW l \in 1 .. (n + 1),
                      j < k, k < l, sent'[j].session = sent'[k].session,
                      sent'[j].guid = sent'[l].guid
               PROVE  sent'[k].guid = sent'[j].guid
    OBVIOUS
  <2>1. j \in 1 .. n /\ k \in 1 .. n
    BY <1>2
  <2>2. CASE l \in 1 .. n
    BY <1>2, <1>10, <2>1, <2>2
  <2>3. CASE l = n + 1
    <3>1. sent[j].guid = sessions[chosen].guid /\ sent[j].session = chosen
      BY <1>2, <1>3, <1>10, <2>1, <2>3
    <3>2. QED
      BY <1>2, <1>10, <2>1, <3>1
  <2>4. QED
    BY <1>11, <2>2, <2>3
<1>17. \A k \in 1 .. (n + 1) : sent'[k].session \in Port
  BY <1>2, <1>3, <1>4, <1>11
<1>18. Identified'
  BY <1>2, <1>10, <1>12, <1>13, <1>14, <1>15, <1>16, <1>17 DEF Identified
<1>19. QED
  BY <1>5, <1>9, <1>18 DEF ClientOrder

\* A second of the client's clock keeps the order, and so does all that leaves the
\* client alone (clientsession.cc:146-152).
LEMMA SecondKeepsOrder ==
  ASSUME ClientOrder, C!Tick \/ UNCHANGED client
  PROVE  ClientOrder'
<1>1. ClientTyped /\ Numbered /\ Identified
  BY DEF ClientOrder
<1>2. /\ now' = now \/ now' = now + 1
      /\ UNCHANGED <<phase, curSession, chosen, sessions, used, sent>>
  BY DEF C!Tick, client
<1>3. now \in Int /\ now' \in Int /\ now <= now'
  BY <1>1, <1>2 DEF ClientTyped
<1>4. ClientTyped'
  BY <1>1, <1>2, <1>3 DEF ClientTyped
<1>5. Numbered'
  <2>1. \A k \in 1 .. Len(sent) : sent[k].stamp <= now'
    <3>1. \A k \in 1 .. Len(sent) : sent[k].stamp \in Int /\ sent[k].stamp <= now
      BY <1>1, SentTyped DEF Numbered
    <3>2. QED
      BY <1>3, <3>1
  <2>2. QED
    BY <1>1, <1>2, <2>1 DEF Numbered, Count
<1>6. Identified'
  BY <1>1, <1>2 DEF Identified
<1>7. QED
  BY <1>4, <1>5, <1>6 DEF ClientOrder

----------------------------------------------------------------------------
(* The network: what has arrived of what was sent.                         *)

NetworkTyped ==
  /\ arrived \in 0 .. Len(sent)
  /\ burst \in [Port -> 0 .. MaxBurst]
  /\ firstHeard \in Firsts
  /\ lastHeard \in Lasts
  /\ copies \in Copies

\* The ghosts are what they say they are: up to the last ping of a port that arrived
\* and the losses after it all are accounted for, that ping was of the latest id, and
\* an id's first ping is one of its own.
LastKnown(lh, b, n) == \A i \in Port : lh[i] + b[i] = Count(sent, i, n)

LatestKnown(fh, lh, n) ==
  \A i \in Port : lh[i] # 0 =>
    \E k \in 1 .. n : /\ sent[k].session = i
                      /\ Count(sent, i, k) = lh[i]
                      /\ Latest(fh, i, sent[k].guid)

FirstsKnown(fh, lh, n) ==
  \A i \in Port : \A g \in Guid : fh[i][g] # 0 =>
    /\ fh[i][g] <= lh[i]
    /\ \E k \in 1 .. n : /\ sent[k].session = i
                         /\ sent[k].guid = g
                         /\ Count(sent, i, k) = fh[i][g]

Heard ==
  /\ LastKnown(lastHeard, burst, arrived)
  /\ LatestKnown(firstHeard, lastHeard, arrived)
  /\ FirstsKnown(firstHeard, lastHeard, arrived)

\* First pings that are pings of their ids are of one port each, and all different
\* (clientsession.cc:146-173).
LEMMA HeardSeparate ==
  ASSUME ClientOrder, NEW fh \in Firsts, NEW lh \in Lasts, NEW n \in 0 .. Len(sent),
         FirstsKnown(fh, lh, n)
  PROVE  /\ Separate(fh)
         /\ Ascending => \A i \in Port : \A g, e \in Guid : Follows(fh, i, g, e) => g < e
<1>1. ClientTyped /\ Identified
  BY DEF ClientOrder
<1>2. Len(sent) \in Nat /\ 1 .. n \subseteq 1 .. Len(sent) /\ 1 .. n \subseteq Nat
  BY <1>1, SentTyped
<1>3. \A i \in Port : \A g \in Guid : fh[i][g] # 0 =>
        \E k \in 1 .. n :
          sent[k].session = i /\ sent[k].guid = g /\ Count(sent, i, k) = fh[i][g]
  BY DEF FirstsKnown
<1>4. \A j, k \in 1 .. Len(sent) : sent[j].guid = sent[k].guid => sent[j].session = sent[k].session
  BY <1>1 DEF Identified
<1>5. \A i, j \in Port : \A g \in Guid : fh[i][g] # 0 /\ fh[j][g] # 0 => i = j
  <2> SUFFICES ASSUME NEW i \in Port, NEW j \in Port, NEW g \in Guid,
                      fh[i][g] # 0, fh[j][g] # 0
               PROVE  i = j
    OBVIOUS
  <2>1. PICK k \in 1 .. n : sent[k].session = i /\ sent[k].guid = g
    BY <1>3
  <2>2. PICK l \in 1 .. n : sent[l].session = j /\ sent[l].guid = g
    BY <1>3
  <2>3. QED
    BY <1>2, <1>4, <2>1, <2>2
<1>6. \A i \in Port : \A g, h \in Guid : fh[i][g] # 0 /\ fh[i][g] = fh[i][h] => g = h
  <2> SUFFICES ASSUME NEW i \in Port, NEW g \in Guid, NEW h \in Guid,
                      fh[i][g] # 0, fh[i][g] = fh[i][h]
               PROVE  g = h
    OBVIOUS
  <2>1. PICK k \in 1 .. n :
          sent[k].session = i /\ sent[k].guid = g /\ Count(sent, i, k) = fh[i][g]
    BY <1>3
  <2>2. PICK l \in 1 .. n :
          sent[l].session = i /\ sent[l].guid = h /\ Count(sent, i, l) = fh[i][h]
    BY <1>3
  <2>3. k = l
    BY <1>2, <2>1, <2>2, CountOrder
  <2>4. QED
    BY <2>1, <2>2, <2>3
<1>7. ASSUME Ascending, NEW i \in Port, NEW g \in Guid, NEW e \in Guid, Follows(fh, i, g, e)
      PROVE  g < e
  <2>1. fh[i][g] # 0 /\ fh[i][g] < fh[i][e] /\ fh[i][g] \in Nat /\ fh[i][e] \in Nat
    BY <1>7 DEF Follows, Firsts
  <2>2. PICK k \in 1 .. n :
          sent[k].session = i /\ sent[k].guid = g /\ Count(sent, i, k) = fh[i][g]
    BY <1>3, <2>1
  <2>3. PICK l \in 1 .. n :
          sent[l].session = i /\ sent[l].guid = e /\ Count(sent, i, l) = fh[i][e]
    BY <1>3, <2>1
  <2>4. k < l
    BY <1>2, <2>1, <2>2, <2>3, CountOrder
  <2>5. DOMAIN sent = 1 .. Len(sent)
    BY <1>1 DEF ClientTyped
  <2>6. sent[k].guid <= sent[l].guid
    BY <1>2, <1>7, <2>2, <2>3, <2>4, <2>5 DEF Ascending
  <2>7. g # e /\ g \in Nat /\ e \in Nat
    BY <2>1, NamesAssumption
  <2>8. QED
    BY <2>2, <2>3, <2>6, <2>7
<1>8. QED
  BY <1>5, <1>6, <1>7 DEF Separate

\* The next ping to leave the network: its number is the one after the last that
\* arrived and the losses since; its id is new, or the latest of its port
\* (clientsession.cc:146-173).
LEMMA NextPing ==
  ASSUME ClientOrder, NetworkTyped, Heard, InFlight
  PROVE  LET q == sent[arrived + 1]
             n == Count(sent, q.session, arrived + 1)
         IN  /\ arrived + 1 \in 1 .. Len(sent) /\ arrived \in Nat
             /\ q.session \in Port /\ q.guid \in Guid
             /\ Header(q) \in Ping
             /\ q.seqNum = (n - 1) % SeqMod
             /\ n \in Nat /\ n = lastHeard[q.session] + burst[q.session] + 1
             /\ \A i \in Port \ {q.session} :
                  Count(sent, i, arrived + 1) = Count(sent, i, arrived)
             /\ \A j \in Port : firstHeard[j][q.guid] # 0 =>
                  j = q.session /\ Latest(firstHeard, j, q.guid)
<1> DEFINE q == sent[arrived + 1]
           i == q.session
           n == Count(sent, i, arrived + 1)
<1>1. ClientTyped /\ Numbered /\ Identified
  BY DEF ClientOrder
<1>2. Len(sent) \in Nat /\ arrived \in Nat /\ arrived + 1 \in 1 .. Len(sent)
  BY <1>1, SentTyped DEF NetworkTyped, InFlight
<1>3. i \in Port /\ q.guid \in Guid /\ q.seqNum \in Seqnum
  BY <1>1, <1>2, SentTyped
<1>4. Header(q) \in Ping
  BY <1>3, ClientAssumption DEF Header
<1>5. q.seqNum = (n - 1) % SeqMod
  BY <1>1, <1>2 DEF Numbered
<1>6. \A j : /\ Count(sent, j, arrived) \in Nat
             /\ q.session = j => Count(sent, j, arrived + 1) = Count(sent, j, arrived) + 1
             /\ q.session # j => Count(sent, j, arrived + 1) = Count(sent, j, arrived)
  BY <1>2, CountStep
<1>7. n \in Nat /\ n = lastHeard[i] + burst[i] + 1
  BY <1>3, <1>6 DEF Heard, LastKnown
<1>8. ASSUME NEW j \in Port, firstHeard[j][q.guid] # 0
      PROVE  j = i /\ Latest(firstHeard, j, q.guid)
  <2>1. firstHeard[j][q.guid] <= lastHeard[j]
        /\ firstHeard[j][q.guid] \in Nat /\ lastHeard[j] \in Nat
    BY <1>3, <1>8 DEF Heard, FirstsKnown, NetworkTyped, Firsts, Lasts
  <2>2. PICK k \in 1 .. arrived :
          /\ sent[k].session = j /\ sent[k].guid = q.guid
          /\ Count(sent, j, k) = firstHeard[j][q.guid]
    BY <1>3, <1>8 DEF Heard, FirstsKnown
  <2>3. PICK l \in 1 .. arrived :
          /\ sent[l].session = j /\ Count(sent, j, l) = lastHeard[j]
          /\ Latest(firstHeard, j, sent[l].guid)
    BY <1>8, <2>1 DEF Heard, LatestKnown
  <2>4. k \in 1 .. Len(sent) /\ l \in 1 .. Len(sent) /\ k \in Nat /\ l \in Nat
    BY <1>2
  <2>5. j = i
    BY <1>1, <1>2, <2>2, <2>4 DEF Identified
  <2>6. k <= l
    BY <2>1, <2>2, <2>3, <2>4, CountOrder
  <2>7. CASE k = l
    BY <2>2, <2>3, <2>5, <2>7
  <2>8. CASE k < l
    <3>1. l < arrived + 1
      BY <1>2
    <3>2. sent[l].guid = sent[k].guid
      BY <1>1, <1>2, <2>2, <2>3, <2>4, <2>8, <3>1 DEF Identified
    <3>3. QED
      BY <2>2, <2>3, <2>5, <3>2
  <2>9. QED
    BY <2>4, <2>6, <2>7, <2>8
<1>9. QED
  BY <1>2, <1>3, <1>4, <1>5, <1>6, <1>7, <1>8

\* A ping delivered is heard (serversession.cc:103-117).
LEMMA DeliverHeard ==
  ASSUME ClientOrder, NetworkTyped, Heard, Deliver
  PROVE  NetworkTyped' /\ Heard'
<1> DEFINE q == sent[arrived + 1]
           i == q.session
           g == q.guid
           n == Count(sent, i, arrived + 1)
<1>1. /\ InFlight /\ arrived' = arrived + 1 /\ sent' = sent /\ copies' = copies
      /\ burst' = [burst EXCEPT ![i] = 0]
      /\ firstHeard' = [firstHeard EXCEPT ![i][g] = IF @ = 0 THEN n ELSE @]
      /\ lastHeard' = [lastHeard EXCEPT ![i] = n]
  BY DEF Deliver, client, Nth, Count
<1>2. /\ arrived + 1 \in 1 .. Len(sent) /\ arrived \in Nat
      /\ i \in Port /\ g \in Guid
      /\ n \in Nat /\ n = lastHeard[i] + burst[i] + 1
      /\ \A j \in Port \ {i} : Count(sent, j, arrived + 1) = Count(sent, j, arrived)
      /\ \A j \in Port : firstHeard[j][g] # 0 => j = i /\ Latest(firstHeard, j, g)
  BY <1>1, NextPing
<1>3. /\ firstHeard \in Firsts /\ lastHeard \in Lasts /\ copies \in Copies
      /\ burst \in [Port -> 0 .. MaxBurst]
      /\ \A j \in Port : lastHeard[j] \in Nat /\ burst[j] \in Nat
      /\ \A j \in Port : \A h \in Guid : firstHeard[j][h] \in Nat
  BY ClientAssumption DEF NetworkTyped, Firsts, Lasts
<1>4. /\ sent[arrived + 1].session = i /\ sent[arrived + 1].guid = g
      /\ Count(sent, i, arrived + 1) = n
  OBVIOUS
<1> HIDE DEF q, i, g, n
<1>5. PICK m \in Nat : m = IF firstHeard[i][g] = 0 THEN n ELSE firstHeard[i][g]
  BY <1>2, <1>3
<1>6. firstHeard' = [firstHeard EXCEPT ![i] = [firstHeard[i] EXCEPT ![g] = m]]
  BY <1>1, <1>2, <1>3, <1>5 DEF Firsts
<1>7. /\ firstHeard' \in Firsts /\ firstHeard'[i][g] = m
      /\ \A h \in Guid \ {g} : firstHeard'[i][h] = firstHeard[i][h]
      /\ \A j \in Port \ {i} : firstHeard'[j] = firstHeard[j]
  BY <1>2, <1>3, <1>6 DEF Firsts
<1>8. /\ lastHeard' \in Lasts /\ lastHeard'[i] = n
      /\ \A j \in Port \ {i} : lastHeard'[j] = lastHeard[j]
  BY <1>1, <1>2, <1>3 DEF Lasts
<1>9. /\ burst' \in [Port -> 0 .. MaxBurst] /\ burst'[i] = 0
      /\ \A j \in Port \ {i} : burst'[j] = burst[j]
  <2>1. 0 \in 0 .. MaxBurst
    BY ClientAssumption
  <2>2. QED
    BY <1>1, <1>2, <1>3, <2>1
<1>10. NetworkTyped'
  BY <1>1, <1>2, <1>3, <1>7, <1>8, <1>9 DEF NetworkTyped
<1>11. \A j \in Port : lastHeard'[j] + burst'[j] = Count(sent, j, arrived + 1)
  <2> SUFFICES ASSUME NEW j \in Port
               PROVE  lastHeard'[j] + burst'[j] = Count(sent, j, arrived + 1)
    OBVIOUS
  <2>1. CASE j = i
    BY <1>2, <1>4, <1>8, <1>9, <2>1
  <2>2. CASE j # i
    BY <1>2, <1>8, <1>9, <2>2 DEF Heard, LastKnown
  <2>3. QED
    BY <2>1, <2>2
<1>12. \A h \in Guid : firstHeard[i][h] <= lastHeard[i]
  BY <1>2, <1>3 DEF Heard, FirstsKnown
<1>13. Latest(firstHeard', i, g) /\ m <= n /\ m # 0
  <2>1. CASE firstHeard[i][g] # 0
    <3>1. Latest(firstHeard, i, g) /\ m = firstHeard[i][g]
      BY <1>2, <1>5, <2>1
    <3>2. firstHeard[i][g] <= lastHeard[i]
      BY <1>2, <1>12
    <3>3. \A h \in Guid : firstHeard[i][h] <= m
      BY ONLY <3>1 DEF Latest
    <3>4. \A h \in Guid : firstHeard'[i][h] <= m
      BY ONLY <1>3, <1>2, <1>7, <3>3
    <3>5. m <= n
      BY ONLY <1>2, <1>3, <3>1, <3>2, m \in Nat
    <3>6. QED
      BY <1>7, <2>1, <3>1, <3>4, <3>5 DEF Latest
  <2>2. CASE firstHeard[i][g] = 0
    <3>1. m = n /\ m # 0 /\ lastHeard[i] < n
      BY <1>2, <1>3, <1>5, <2>2
    <3>2. ASSUME NEW h \in Guid PROVE firstHeard'[i][h] <= m
      <4>1. CASE h = g
        BY <1>7, <4>1
      <4>2. CASE h # g
        <5>1. firstHeard'[i][h] = firstHeard[i][h] /\ firstHeard[i][h] <= lastHeard[i]
          BY <1>7, <1>12, <4>2
        <5>2. firstHeard[i][h] \in Nat /\ lastHeard[i] \in Nat /\ n \in Nat
          BY <1>2, <1>3
        <5>3. QED
          BY ONLY <3>1, <5>1, <5>2
      <4>3. QED
        BY <4>1, <4>2
    <3>3. QED
      BY <1>2, <1>7, <3>1, <3>2 DEF Latest
  <2>3. QED
    BY <2>1, <2>2
<1>14. \A j \in Port : lastHeard'[j] # 0 =>
         \E k \in 1 .. (arrived + 1) : /\ sent[k].session = j
                                       /\ Count(sent, j, k) = lastHeard'[j]
                                       /\ Latest(firstHeard', j, sent[k].guid)
  <2> SUFFICES ASSUME NEW j \in Port, lastHeard'[j] # 0
               PROVE  \E k \in 1 .. (arrived + 1) :
                        /\ sent[k].session = j
                        /\ Count(sent, j, k) = lastHeard'[j]
                        /\ Latest(firstHeard', j, sent[k].guid)
    OBVIOUS
  <2>1. CASE j = i
    <3>1. arrived + 1 \in 1 .. (arrived + 1)
      BY <1>2
    <3>2. QED
      BY <1>4, <1>8, <1>13, <2>1, <3>1
  <2>2. CASE j # i
    <3>1. PICK k \in 1 .. arrived : /\ sent[k].session = j
                                    /\ Count(sent, j, k) = lastHeard[j]
                                    /\ Latest(firstHeard, j, sent[k].guid)
      BY <1>8, <2>2 DEF Heard, LatestKnown
    <3>2. k \in 1 .. (arrived + 1)
      BY <1>2
    <3>3. QED
      BY <1>7, <1>8, <2>2, <3>1, <3>2 DEF Latest
  <2>3. QED
    BY <2>1, <2>2
<1>15. \A j \in Port : \A h \in Guid : firstHeard'[j][h] # 0 =>
         /\ firstHeard'[j][h] <= lastHeard'[j]
         /\ \E k \in 1 .. (arrived + 1) : /\ sent[k].session = j
                                          /\ sent[k].guid = h
                                          /\ Count(sent, j, k) = firstHeard'[j][h]
  <2> SUFFICES ASSUME NEW j \in Port, NEW h \in Guid, firstHeard'[j][h] # 0
               PROVE  /\ firstHeard'[j][h] <= lastHeard'[j]
                      /\ \E k \in 1 .. (arrived + 1) :
                           /\ sent[k].session = j
                           /\ sent[k].guid = h
                           /\ Count(sent, j, k) = firstHeard'[j][h]
    OBVIOUS
  <2>1. CASE firstHeard[j][h] # 0
    <3>1. PICK k \in 1 .. arrived : /\ sent[k].session = j
                                    /\ sent[k].guid = h
                                    /\ Count(sent, j, k) = firstHeard[j][h]
      BY <2>1 DEF Heard, FirstsKnown
    <3>2. k \in 1 .. (arrived + 1)
      BY <1>2
    <3>3. firstHeard'[j][h] = firstHeard[j][h]
      BY <1>5, <1>7, <2>1
    <3>4. firstHeard[j][h] <= lastHeard[j]
      BY <2>1 DEF Heard, FirstsKnown
    <3>5. lastHeard[j] <= lastHeard'[j]
      <4>1. CASE j = i
        BY <1>2, <1>3, <1>8, <4>1
      <4>2. CASE j # i
        BY <1>3, <1>8, <4>2
      <4>3. QED
        BY <4>1, <4>2
    <3>6. firstHeard'[j][h] <= lastHeard'[j]
      <4>1. lastHeard[j] \in Nat /\ firstHeard[j][h] \in Nat /\ lastHeard'[j] \in Nat
        BY <1>3, <1>8 DEF Lasts
      <4>2. QED
        BY ONLY <3>3, <3>4, <3>5, <4>1
    <3>7. QED
      BY ONLY <3>1, <3>2, <3>3, <3>6
  <2>2. CASE firstHeard[j][h] = 0
    <3>1. j = i /\ h = g /\ firstHeard'[j][h] = n
      BY <1>5, <1>7, <2>2
    <3>2. arrived + 1 \in 1 .. (arrived + 1)
      BY <1>2
    <3>3. QED
      BY <1>2, <1>4, <1>8, <3>1, <3>2
  <2>3. QED
    BY <2>1, <2>2
<1>16. Heard'
  <2>1. LastKnown(lastHeard, burst, arrived)'
    BY <1>1, <1>11 DEF LastKnown
  <2>2. LatestKnown(firstHeard, lastHeard, arrived)'
    BY <1>1, <1>14 DEF LatestKnown
  <2>3. FirstsKnown(firstHeard, lastHeard, arrived)'
    BY <1>1, <1>15 DEF FirstsKnown
  <2>4. QED
    BY <2>1, <2>2, <2>3 DEF Heard
<1>17. QED
  BY <1>10, <1>16

\* A ping lost is one loss more (README.md:3).
LEMMA LoseHeard ==
  ASSUME ClientOrder, NetworkTyped, Heard, Lose
  PROVE  NetworkTyped' /\ Heard'
<1> DEFINE i == sent[arrived + 1].session
<1>1. /\ InFlight /\ arrived' = arrived + 1 /\ sent' = sent
      /\ UNCHANGED <<firstHeard, lastHeard, copies>>
      /\ burst[i] < MaxBurst
      /\ burst' = [burst EXCEPT ![i] = burst[i] + 1]
  BY DEF Lose, client
<1>2. /\ arrived + 1 \in 1 .. Len(sent) /\ arrived \in Nat
      /\ i \in Port
      /\ Count(sent, i, arrived + 1) = lastHeard[i] + burst[i] + 1
      /\ \A j \in Port \ {i} : Count(sent, j, arrived + 1) = Count(sent, j, arrived)
  BY <1>1, NextPing
<1> HIDE DEF i
<1>3. /\ burst \in [Port -> 0 .. MaxBurst] /\ burst[i] + 1 \in 0 .. MaxBurst
      /\ lastHeard[i] \in Nat /\ burst[i] \in Nat
  <2>1. burst \in [Port -> 0 .. MaxBurst] /\ lastHeard \in [Port -> Nat]
    BY DEF NetworkTyped, Lasts
  <2>2. burst[i] \in 0 .. MaxBurst /\ lastHeard[i] \in Nat /\ MaxBurst \in Nat
    BY <1>2, <2>1, ClientAssumption
  <2>3. QED
    BY <1>1, <2>1, <2>2
<1>4. /\ burst' \in [Port -> 0 .. MaxBurst] /\ burst'[i] = burst[i] + 1
      /\ \A j \in Port \ {i} : burst'[j] = burst[j]
  BY <1>1, <1>2, <1>3
<1>5. NetworkTyped'
  BY <1>1, <1>2, <1>4 DEF NetworkTyped
<1>6. \A j \in Port : lastHeard[j] + burst'[j] = Count(sent, j, arrived + 1)
  <2>1. lastHeard[i] + burst'[i] = Count(sent, i, arrived + 1)
    BY <1>2, <1>3, <1>4
  <2>2. QED
    BY <1>2, <1>4, <2>1 DEF Heard, LastKnown
<1>7. 1 .. arrived \subseteq 1 .. (arrived + 1)
  BY <1>2
<1>8. LatestKnown(firstHeard, lastHeard, arrived + 1)
  BY <1>7 DEF Heard, LatestKnown
<1>9. FirstsKnown(firstHeard, lastHeard, arrived + 1)
  BY <1>7 DEF Heard, FirstsKnown
<1>10. Heard'
  <2>1. LastKnown(lastHeard, burst, arrived)'
    BY <1>1, <1>6 DEF LastKnown
  <2>2. LatestKnown(firstHeard, lastHeard, arrived)'
    BY <1>1, <1>8 DEF LatestKnown
  <2>3. FirstsKnown(firstHeard, lastHeard, arrived)'
    BY <1>1, <1>9 DEF FirstsKnown
  <2>4. QED
    BY <2>1, <2>2, <2>3 DEF Heard
<1>11. QED
  BY <1>5, <1>10

\* A ping sent is not heard before it arrives (clientsession.cc:163-214).
LEMMA SendHeard ==
  ASSUME ClientOrder, NetworkTyped, Heard, C!SendPingPacket, UNCHANGED network
  PROVE  NetworkTyped' /\ Heard'
<1>1. ClientTyped
  BY DEF ClientOrder
<1>2. /\ Len(sent) \in Nat /\ Len(sent') = Len(sent) + 1
      /\ \A k \in 1 .. Len(sent) : sent'[k] = sent[k]
  BY <1>1, SendFacts
<1>3. UNCHANGED <<arrived, burst, firstHeard, lastHeard, copies>>
  BY DEF network
<1>4. arrived \in 0 .. Len(sent)
  BY DEF NetworkTyped
<1>5. NetworkTyped'
  BY <1>2, <1>3 DEF NetworkTyped
<1>6. \A k \in 0 .. arrived : \A i : Count(sent', i, k) = Count(sent, i, k)
  <2>1. ASSUME NEW k \in 0 .. arrived, NEW i
        PROVE  Count(sent', i, k) = Count(sent, i, k)
    <3>1. k \in Nat /\ \A j \in 1 .. k : sent'[j] = sent[j]
      BY <1>2, <1>4
    <3>2. QED
      BY <3>1, CountSame
  <2>2. QED
    BY <2>1
<1>7. arrived \in 0 .. arrived /\ \A k \in 1 .. arrived : k \in 0 .. arrived /\ sent'[k] = sent[k]
  BY <1>2, <1>4
<1>8. LastKnown(lastHeard, burst, arrived)'
  BY <1>3, <1>6, <1>7 DEF Heard, LastKnown
<1>9. LatestKnown(firstHeard, lastHeard, arrived)'
  BY <1>3, <1>6, <1>7 DEF Heard, LatestKnown, Latest
<1>10. FirstsKnown(firstHeard, lastHeard, arrived)'
  BY <1>3, <1>6, <1>7 DEF Heard, FirstsKnown
<1>11. QED
  BY <1>5, <1>8, <1>9, <1>10 DEF Heard

----------------------------------------------------------------------------
(* The inductive invariant.                                                *)

\* The client has sent its last ping, and none is in flight.
Over == ClientDone /\ ~ InFlight

\* The last ping of port i in this second has left the network.
Fresh(i) ==
  /\ \E k \in 1 .. arrived : sent[k].session = i /\ sent[k].stamp = now
  /\ \A k \in (arrived + 1) .. Len(sent) : sent[k].session # i

\* The seconds the latest id of port i may have been silent.
Allowed(i) == burst[i] + IF Fresh(i) THEN 0 ELSE 1

\* The latest id of each port has a session, silent no longer than its losses last.
Heeds(v, fh) ==
  \A i \in Port : \A g \in Guid : Latest(fh, i, g) =>
    v[g] # Nil /\ v[g].idle <= Allowed(i)

Awake == ~ Over => Heeds(live, firstHeard)

\* A source that was never heard has no session; of the others sourceMap holds the
\* session of the latest id, as long as there is something to hear.
Sources ==
  \A i \in Port :
    /\ lastHeard[i] = 0 => \A h \in Host : sourceMap[<<h, i>>] = Nil
    /\ lastHeard[i] # 0 => hostMap[ClientIp] # Nil
    /\ \A g \in Guid : ~ Over /\ Latest(firstHeard, i, g) =>
         /\ sessionMap[g] # Nil
         /\ sourceMap[<<hostMap[ClientIp], i>>] = sessionMap[g]

Accounts ==
  /\ Spans(live, firstHeard, lastHeard, copies)
  /\ Settled(live, published, firstHeard, lastHeard, copies, Ascending)

Ordered == IInv /\ ClientOrder /\ NetworkTyped /\ Heard

UDPingInv == Ordered /\ Sources /\ Awake /\ Accounts

\* The pings of an id, and the losses around them, are fewer than the counter's values
\* less the window: seqnum_t does not come round within a period.
ShortPeriods ==
  \A j, k \in 1 .. Len(sent) : j <= k /\ sent[j].guid = sent[k].guid =>
    Nth(k) - Nth(j) + MaxBurst + Window <= SeqMod

\* A run of losses and the second of the next ping are within the keepalive
\* (serversession.cc:82).
LEMMA AllowedTyped ==
  ASSUME ShortBursts, NetworkTyped, NEW i \in Port
  PROVE  Allowed(i) \in Nat /\ Allowed(i) <= Keepalive
<1>1. /\ MaxBurst \in Nat /\ Keepalive \in Nat /\ MaxBurst + 1 <= Keepalive
  BY BurstsFit
<1>2. burst[i] \in 0 .. MaxBurst
  BY DEF NetworkTyped
<1>3. QED
  BY <1>1, <1>2 DEF Allowed

\* The same after a step (serversession.cc:82).
LEMMA AllowedNext ==
  ASSUME ShortBursts, NetworkTyped', NEW i \in Port
  PROVE  Allowed(i)' \in Nat /\ Allowed(i)' <= Keepalive
<1>1. /\ MaxBurst \in Nat /\ Keepalive \in Nat /\ MaxBurst + 1 <= Keepalive
  BY BurstsFit
<1>2. burst'[i] \in 0 .. MaxBurst
  BY DEF NetworkTyped
<1>3. QED
  BY <1>1, <1>2 DEF Allowed

\* A ping that leaves the network does not shorten what another port may be silent
\* (serversession.cc:82).
LEMMA OthersAllowed ==
  ASSUME NetworkTyped, arrived' = arrived + 1, sent' = sent, now' = now,
         arrived + 1 \in 1 .. Len(sent), arrived \in Nat, Len(sent) \in Nat,
         NEW i \in Port, i # sent[arrived + 1].session, burst'[i] = burst[i]
  PROVE  Allowed(i) <= Allowed(i)'
<1>1. burst[i] \in Int
  BY ClientAssumption DEF NetworkTyped
<1>2. ASSUME Fresh(i)' PROVE Fresh(i)
  <2>1. PICK k \in 1 .. (arrived + 1) : sent[k].session = i /\ sent[k].stamp = now
    BY <1>2 DEF Fresh
  <2>2. k \in 1 .. arrived
    <3>1. k # arrived + 1
      BY <2>1
    <3>2. QED
      BY <3>1
  <2>3. ASSUME NEW l \in (arrived + 1) .. Len(sent) PROVE sent[l].session # i
    <3>1. CASE l = arrived + 1
      BY <3>1
    <3>2. CASE l # arrived + 1
      <4>1. l \in ((arrived + 1) + 1) .. Len(sent)
        BY <3>2
      <4>2. \A m \in ((arrived + 1) + 1) .. Len(sent) : sent[m].session # i
        BY <1>2 DEF Fresh
      <4>3. QED
        BY <4>1, <4>2
    <3>3. QED
      BY <3>1, <3>2
  <2>4. QED
    BY <2>1, <2>2, <2>3 DEF Fresh
<1>3. CASE Fresh(i)'
  BY <1>1, <1>2, <1>3 DEF Allowed
<1>4. CASE ~ Fresh(i)'
  BY <1>1, <1>4 DEF Allowed
<1>5. QED
  BY <1>3, <1>4

\* A sweep leaves the latest ids alone (serversession.cc:76-101).
LEMMA SweepSpares ==
  ASSUME ShortBursts, NetworkTyped', NEW v \in Lives, NEW sm, EndsInSweep(v, sm),
         NEW i \in Port, NEW g \in Guid, v[g] # Nil, v[g].idle <= Allowed(i)'
  PROVE  live'[g] = v[g] /\ sessionMap'[g] = sm[g]
<1>1. Allowed(i)' \in Nat /\ Allowed(i)' <= Keepalive
  BY AllowedNext
<1>2. v[g].idle \in Nat /\ Keepalive \in Nat
  BY KeepaliveAssumption DEF Lives, Session
<1>3. g \notin Silent(v)
  BY <1>1, <1>2 DEF Silent
<1>4. QED
  BY <1>3 DEF EndsInSweep

\* What the session manager's own invariant says of the sessions by id
\* (serversession.cc:58-101).
LEMMA Served ==
  ASSUME IInv
  PROVE  /\ TypeOK /\ SessionsOwned
         /\ live \in Lives /\ published \in Reports
         /\ \A g \in Guid : live[g] = Nil <=> sessionMap[g] = Nil
         /\ \A g \in Guid : live[g] # Nil =>
              /\ sessionMap[g] \in Addr /\ heap[sessionMap[g]] # Nil
              /\ live[g].startTime = FirstSecond
         /\ \A g, e \in Guid : sessionMap[g] # Nil /\ sessionMap[g] = sessionMap[e] => g = e
<1>1. TypeOK /\ SessionsOwned
  BY DEF IInv
<1>2. /\ sessionMap \in Maps /\ heap \in Heaps /\ published \in Reports
      /\ Owns(sessionMap, heap)
  BY <1>1, Typed DEF SessionsOwned
<1>3. /\ live \in Lives
      /\ \A g \in Guid : live[g] = Nil <=> sessionMap[g] = Nil
      /\ \A g \in Guid : live[g] # Nil =>
           sessionMap[g] \in Addr /\ heap[sessionMap[g]] # Nil /\ live[g] \in Session
      /\ \A g, e \in Guid : sessionMap[g] # Nil /\ sessionMap[g] = sessionMap[e] => g = e
  BY <1>2, LiveSessions DEF live
<1>4. \A s \in Session : s.startTime = FirstSecond
  BY ClientAssumption DEF Session
<1>5. QED
  BY <1>1, <1>2, <1>3, <1>4

\* A sweep over sessions that know what they have seen reports it, and spares the
\* latest ids (serversession.cc:76-101).
LEMMA SweepKeeps ==
  ASSUME ShortBursts, ClientOrder, published \in Reports, sent' = sent,
         NetworkTyped', Heard',
         NEW w \in Lives, NEW sm, EndsInSweep(w, sm),
         ~ Over' => \A i \in Port : \A g \in Guid : Latest(firstHeard', i, g) =>
                      w[g] # Nil /\ w[g].idle <= Allowed(i)',
         Spans(w, firstHeard', lastHeard', copies'),
         Settled(w, published, firstHeard', lastHeard', copies', Ascending)
  PROVE  /\ Awake' /\ Accounts'
         /\ ~ Over' => \A i \in Port : \A g \in Guid : Latest(firstHeard', i, g) =>
              live'[g] = w[g] /\ sessionMap'[g] = sm[g]
<1>1. /\ firstHeard' \in Firsts /\ lastHeard' \in Lasts /\ copies' \in Copies
      /\ arrived' \in 0 .. Len(sent)
  BY DEF NetworkTyped
<1>2. FirstsKnown(firstHeard', lastHeard', arrived')
  <2>1. FirstsKnown(firstHeard, lastHeard, arrived)'
    BY DEF Heard
  <2>2. QED
    BY <2>1 DEF FirstsKnown
<1>3. Ascending =>
        \A i \in Port : \A g, e \in Guid : Follows(firstHeard', i, g, e) => g < e
  BY <1>1, <1>2, HeardSeparate
<1>4. Ascending \in BOOLEAN /\ (Ascending' <=> Ascending)
  BY DEF Ascending
<1>5. PICK asc \in BOOLEAN : asc <=> Ascending
  BY <1>4
<1>6. Settled(w, published, firstHeard', lastHeard', copies', asc)
  BY <1>5 DEF Settled
<1>7. asc => \A i \in Port : \A g, e \in Guid : Follows(firstHeard', i, g, e) => g < e
  BY <1>3, <1>5
<1>8. /\ Spans(live', firstHeard', lastHeard', copies')
      /\ Settled(live', published', firstHeard', lastHeard', copies', asc)
  BY <1>1, <1>6, <1>7, SweepSpans
<1>9. Accounts'
  <2>1. Spans(live, firstHeard, lastHeard, copies)'
    BY <1>8 DEF Spans, Latest, Follows, Tracks
  <2>2. Settled(live, published, firstHeard, lastHeard, copies, Ascending)'
    BY <1>4, <1>5, <1>8 DEF Settled, Latest, Follows
  <2>3. QED
    BY <2>1, <2>2 DEF Accounts
<1>10. ~ Over' => \A i \in Port : \A g \in Guid : Latest(firstHeard', i, g) =>
         live'[g] = w[g] /\ sessionMap'[g] = sm[g]
  BY SweepSpares
<1>11. Awake'
  <2>1. ASSUME ~ Over', NEW i \in Port, NEW g \in Guid, Latest(firstHeard', i, g)
        PROVE  live'[g] # Nil /\ live'[g].idle <= Allowed(i)'
    BY <1>10, <2>1
  <2>2. QED
    BY <2>1 DEF Awake, Heeds, Latest
<1>12. QED
  BY <1>9, <1>10, <1>11

\* What the network knows of a ping it delivers (serversession.cc:103-117).
LEMMA Delivered ==
  ASSUME UDPingInv, Deliver
  PROVE  \E p \in Ping, i \in Port, g \in Guid, n \in Nat, host \in Host :
           /\ p.guid = g /\ p.startTime = FirstSecond
           /\ p.seqNum = (n - 1) % SeqMod
           /\ i = sent[arrived + 1].session /\ g = sent[arrived + 1].guid
           /\ n = Count(sent, i, arrived + 1)
           /\ lastHeard[i] \in Nat /\ lastHeard[i] < n /\ n <= lastHeard[i] + MaxBurst + 1
           /\ \A j \in Port : firstHeard[j][g] # 0 => j = i /\ Latest(firstHeard, j, g)
           /\ hostMap[ClientIp] # Nil => hostMap' = hostMap /\ host = hostMap[ClientIp]
           /\ hostMap'[ClientIp] = host
           /\ ReceivePing(p, <<host, i>>)
           /\ firstHeard' = [firstHeard EXCEPT ![i] =
                [firstHeard[i] EXCEPT ![g] = IF firstHeard[i][g] = 0 THEN n ELSE @]]
           /\ lastHeard' = [lastHeard EXCEPT ![i] = n]
           /\ burst' = [burst EXCEPT ![i] = 0]
<1>1. ClientOrder /\ NetworkTyped /\ Heard /\ TypeOK
  BY DEF UDPingInv, Ordered, IInv
<1> DEFINE q == sent[arrived + 1]
           i == q.session
           g == q.guid
           n == Count(sent, i, arrived + 1)
           p == Header(q)
<1>2. /\ InFlight /\ arrived' = arrived + 1 /\ sent' = sent
      /\ ReadNextPacket(p)
      /\ burst' = [burst EXCEPT ![i] = 0]
      /\ firstHeard' = [firstHeard EXCEPT ![i][g] = IF @ = 0 THEN n ELSE @]
      /\ lastHeard' = [lastHeard EXCEPT ![i] = n]
  BY DEF Deliver, client, Nth, Count
<1>3. /\ i \in Port /\ g \in Guid /\ p \in Ping
      /\ q.seqNum = (n - 1) % SeqMod
      /\ n \in Nat /\ n = lastHeard[i] + burst[i] + 1
      /\ \A j \in Port : firstHeard[j][g] # 0 => j = i /\ Latest(firstHeard, j, g)
  BY <1>1, <1>2, NextPing
<1>4. /\ p.guid = g /\ p.startTime = FirstSecond /\ p.seqNum = q.seqNum
      /\ p.ip = ClientIp /\ p.port = i
  BY DEF Header
<1> HIDE DEF p
<1>5. PICK host \in (IF hostMap[ClientIp] = Nil THEN Names[ClientIp] ELSE {hostMap[ClientIp]}) :
        /\ hostMap' = [hostMap EXCEPT ![ClientIp] = host]
        /\ ReceivePing(p, <<host, i>>)
  BY <1>2, <1>4 DEF ReadNextPacket
<1>6. /\ ClientIp \in Ip /\ hostMap \in [Ip -> Host \cup {Nil}]
      /\ Names[ClientIp] \subseteq Host
  BY <1>1, ClientAssumption, NamesAssumption DEF TypeOK
<1>7. /\ host \in Host /\ hostMap'[ClientIp] = host
      /\ hostMap[ClientIp] # Nil => hostMap' = hostMap /\ host = hostMap[ClientIp]
  BY <1>5, <1>6
<1> HIDE DEF q, i, g, n
<1>8. /\ lastHeard[i] \in Nat /\ burst[i] \in 0 .. MaxBurst /\ MaxBurst \in Nat
  BY <1>1, <1>3, ClientAssumption DEF NetworkTyped, Lasts
<1>9. lastHeard[i] < n /\ n <= lastHeard[i] + MaxBurst + 1
  BY <1>3, <1>8
<1>10. firstHeard' = [firstHeard EXCEPT ![i] =
         [firstHeard[i] EXCEPT ![g] = IF firstHeard[i][g] = 0 THEN n ELSE @]]
  <2>1. firstHeard \in [Port -> [Guid -> Nat]]
    BY <1>1 DEF NetworkTyped, Firsts
  <2>2. QED
    BY <1>2, <1>3, <2>1
<1>11. i = sent[arrived + 1].session /\ g = sent[arrived + 1].guid
       /\ n = Count(sent, i, arrived + 1)
  BY DEF q, i, g, n
<1>12. p.guid = g /\ p.startTime = FirstSecond /\ p.seqNum = (n - 1) % SeqMod
  BY <1>3, <1>4
<1>13. QED
  BY ONLY <1>2, <1>3, <1>5, <1>7, <1>8, <1>9, <1>10, <1>11, <1>12

\* A ping of the latest id of its port is recorded there (serversession.cc:103-117).
LEMMA DeliverKnown ==
  ASSUME ShortBursts, ShortPeriods, UDPingInv, Deliver, NetworkTyped', Heard',
         live[sent[arrived + 1].guid] # Nil
  PROVE  Sources' /\ Awake' /\ Accounts'
<1>1. /\ IInv /\ ClientOrder /\ NetworkTyped /\ Heard /\ Sources /\ Awake /\ Accounts
  BY DEF UDPingInv, Ordered
<1>2. PICK p \in Ping, i \in Port, g \in Guid, n \in Nat, host \in Host :
        /\ p.guid = g /\ p.startTime = FirstSecond
        /\ p.seqNum = (n - 1) % SeqMod
        /\ i = sent[arrived + 1].session /\ g = sent[arrived + 1].guid
        /\ n = Count(sent, i, arrived + 1)
        /\ lastHeard[i] \in Nat /\ lastHeard[i] < n /\ n <= lastHeard[i] + MaxBurst + 1
        /\ \A j \in Port : firstHeard[j][g] # 0 => j = i /\ Latest(firstHeard, j, g)
        /\ hostMap[ClientIp] # Nil => hostMap' = hostMap /\ host = hostMap[ClientIp]
        /\ hostMap'[ClientIp] = host
        /\ ReceivePing(p, <<host, i>>)
        /\ firstHeard' = [firstHeard EXCEPT ![i] =
             [firstHeard[i] EXCEPT ![g] = IF firstHeard[i][g] = 0 THEN n ELSE @]]
        /\ lastHeard' = [lastHeard EXCEPT ![i] = n]
        /\ burst' = [burst EXCEPT ![i] = 0]
  BY Delivered
<1>3. /\ TypeOK /\ SessionsOwned /\ live \in Lives /\ published \in Reports
      /\ \A h \in Guid : live[h] = Nil <=> sessionMap[h] = Nil
  BY <1>1, Served
<1>4. live[g] # Nil
  BY <1>2
<1>5. /\ firstHeard \in Firsts /\ lastHeard \in Lasts /\ copies \in Copies
      /\ burst \in [Port -> 0 .. MaxBurst]
  BY <1>1 DEF NetworkTyped
<1>6. /\ InFlight /\ arrived' = arrived + 1 /\ sent' = sent /\ now' = now /\ phase' = phase
      /\ copies' = copies
  BY DEF Deliver, client
<1>7. ~ Over
  BY <1>6 DEF Over
<1>8. Latest(firstHeard, i, g)
  BY <1>1, <1>2, <1>4 DEF Accounts, Spans
<1>9. firstHeard[i][g] # 0 /\ lastHeard[i] # 0
  <2>1. firstHeard[i][g] # 0 /\ firstHeard[i][g] <= lastHeard[i]
        /\ firstHeard[i][g] \in Nat
    BY <1>1, <1>5, <1>8 DEF Latest, Heard, FirstsKnown, Firsts
  <2>2. QED
    BY <1>2, <2>1
<1>10. hostMap' = hostMap /\ host = hostMap[ClientIp]
  BY <1>1, <1>2, <1>9 DEF Sources
<1>11. firstHeard' = firstHeard
  BY <1>2, <1>5, <1>9 DEF Firsts
<1>12. <<host, i>> \in Source
  BY DEF Source
<1>13. /\ sourceMap' = sourceMap
       /\ \E v \in Lives :
            /\ v = [live EXCEPT ![p.guid] = Recorded(live[p.guid], p)]
            /\ EndsInSweep(v, sessionMap)
  BY <1>2, <1>3, <1>4, <1>12, RecordLive
<1>14. PICK w \in Lives :
         /\ w = [live EXCEPT ![g] = Recorded(live[g], p)]
         /\ EndsInSweep(w, sessionMap)
  BY <1>2, <1>13
<1>15. PICK v \in Lives : v = live
  BY <1>3
<1>16. n - firstHeard[i][g] <= SeqMod - Window - MaxBurst
  <2>1. PICK k \in 1 .. arrived : /\ sent[k].session = i
                                  /\ sent[k].guid = g
                                  /\ Count(sent, i, k) = firstHeard[i][g]
    BY <1>1, <1>9 DEF Heard, FirstsKnown
  <2>2. arrived + 1 \in 1 .. Len(sent) /\ arrived \in Nat /\ Len(sent) \in Nat
    BY <1>1, <1>6, SentTyped DEF ClientOrder, NetworkTyped, InFlight
  <2>3. k \in 1 .. Len(sent) /\ k <= arrived + 1
    BY <2>2
  <2>4. Nth(arrived + 1) - Nth(k) + MaxBurst + Window <= SeqMod
    BY <1>2, <2>1, <2>2, <2>3 DEF ShortPeriods
  <2>5. Nth(arrived + 1) = n /\ Nth(k) = firstHeard[i][g]
    BY <1>2, <2>1 DEF Nth, Count
  <2>6. firstHeard[i][g] \in Nat /\ MaxBurst \in Nat /\ Window \in Nat /\ SeqMod \in Nat
    BY <1>5, BurstsFit DEF Firsts
  <2>7. QED
    BY <2>4, <2>5, <2>6
<1>17. Separate(firstHeard)
  BY <1>1, <1>5, HeardSeparate DEF NetworkTyped, Heard
<1>18. PICK asc \in BOOLEAN : asc <=> Ascending
  BY DEF Ascending
<1>19. /\ Spans(v, firstHeard, lastHeard, copies)
       /\ Settled(v, published, firstHeard, lastHeard, copies, asc)
  BY <1>1, <1>15, <1>18 DEF Accounts, Settled
<1>20. /\ lastHeard' \in Lasts /\ lastHeard'[i] = n
       /\ \A j \in Port \ {i} : lastHeard'[j] = lastHeard[j]
  BY <1>2, <1>5 DEF Lasts
<1>21. /\ w[g] = Recorded(live[g], p)
       /\ \A h \in Guid \ {g} : w[h] = live[h]
  BY <1>3, <1>14 DEF Lives
<1>22. /\ Spans(w, firstHeard, lastHeard', copies)
       /\ Settled(w, published, firstHeard, lastHeard', copies, asc)
  <2>1. lastHeard[i] <= n /\ n + copies[p.guid] >= lastHeard[i] + copies[p.guid] + 1
    BY <1>2, <1>5 DEF Copies
  <2>2. /\ w[p.guid] = Recorded(v[p.guid], p) /\ v[p.guid] # Nil
        /\ \A h \in Guid \ {p.guid} : w[h] = v[h]
        /\ Latest(firstHeard, i, p.guid)
        /\ n - firstHeard[i][p.guid] <= SeqMod - Window - MaxBurst
    BY <1>2, <1>4, <1>8, <1>15, <1>16, <1>21
  <2>3. /\ p.seqNum = (n - 1) % SeqMod
        /\ n <= lastHeard[i] + MaxBurst + 1
        /\ \A h \in Guid \ {p.guid} : copies[h] = copies[h]
    BY <1>2
  <2>4. QED
    BY ONLY ShortBursts, <1>5, <1>17, <1>19, <1>20, <2>1, <2>2, <2>3, RecordSpans,
            p \in Ping, i \in Port, n \in Nat, v \in Lives, asc \in BOOLEAN
<1>23. \A j \in Port : \A h \in Guid : Latest(firstHeard', j, h) =>
         w[h] # Nil /\ w[h].idle <= Allowed(j)'
  <2> SUFFICES ASSUME NEW j \in Port, NEW h \in Guid, Latest(firstHeard, j, h)
               PROVE  w[h] # Nil /\ w[h].idle <= Allowed(j)'
    BY <1>11
  <2>1. Allowed(j)' \in Nat
    BY AllowedNext
  <2>2. CASE h = g
    <3>1. live[g] \in Session
      BY <1>3, <1>4 DEF Lives
    <3>2. Recorded(live[g], p) \in Session /\ Recorded(live[g], p).idle = 0
      BY <3>1, RecordedSession
    <3>3. QED
      BY <1>3, <1>14, <2>1, <2>2, <3>2, NilAssumption DEF Lives
  <2>3. CASE h # g
    <3>1. j # i
      <4>1. firstHeard[i][g] \in Nat /\ firstHeard[i][h] \in Nat
        BY <1>5 DEF Firsts
      <4>2. j = i => firstHeard[i][h] = firstHeard[i][g] /\ firstHeard[i][g] # 0
        BY <1>8, <4>1 DEF Latest
      <4>3. QED
        BY <1>17, <2>3, <4>2 DEF Separate
    <3>2. live[h] # Nil /\ live[h].idle <= Allowed(j) /\ live[h].idle \in Nat
      BY <1>1, <1>3, <1>7 DEF Awake, Heeds, Lives, Session
    <3>3. w[h] = live[h]
      BY <1>3, <1>14, <2>3 DEF Lives
    <3>4. burst'[j] = burst[j]
      BY <1>2, <1>5, <3>1
    <3>5. arrived + 1 \in 1 .. Len(sent) /\ arrived \in Nat /\ Len(sent) \in Nat
      BY <1>1, <1>6, SentTyped DEF ClientOrder, NetworkTyped, InFlight
    <3>6. Allowed(j) <= Allowed(j)'
      BY <1>1, <1>2, <1>6, <3>1, <3>4, <3>5, OthersAllowed
    <3>7. Allowed(j) \in Nat
      BY <1>1, AllowedTyped
    <3>8. QED
      BY <2>1, <3>2, <3>3, <3>6, <3>7
  <2>4. QED
    BY <2>2, <2>3
<1>24. /\ Awake' /\ Accounts'
       /\ ~ Over' => \A j \in Port : \A h \in Guid : Latest(firstHeard', j, h) =>
            live'[h] = w[h] /\ sessionMap'[h] = sessionMap[h]
  <2>1. /\ Spans(w, firstHeard', lastHeard', copies')
        /\ Settled(w, published, firstHeard', lastHeard', copies', Ascending)
    <3>1. /\ Spans(w, firstHeard', lastHeard', copies')
          /\ Settled(w, published, firstHeard', lastHeard', copies', asc)
      BY ONLY <1>6, <1>11, <1>22
    <3>2. QED
      BY ONLY <1>18, <3>1 DEF Settled
  <2>2. ~ Over' => \A j \in Port : \A h \in Guid : Latest(firstHeard', j, h) =>
           w[h] # Nil /\ w[h].idle <= Allowed(j)'
    BY <1>23
  <2>3. QED
    <3>1. ClientOrder /\ published \in Reports /\ sent' = sent /\ EndsInSweep(w, sessionMap)
      BY <1>1, <1>3, <1>6, <1>14
    <3>2. QED
      BY ONLY ShortBursts, NetworkTyped', Heard', <2>1, <2>2, <3>1, SweepKeeps, w \in Lives
<1>25. Sources'
  <2>1. lastHeard'[i] = n /\ \A j \in Port \ {i} : lastHeard'[j] = lastHeard[j]
    BY <1>2, <1>5 DEF Lasts
  <2>2. n # 0 /\ hostMap[ClientIp] # Nil
    <3>1. n # 0
      BY <1>2
    <3>2. hostMap[ClientIp] # Nil
      BY <1>1, <1>9 DEF Sources
    <3>3. QED
      BY <3>1, <3>2
  <2>3. ASSUME NEW j \in Port
        PROVE  /\ lastHeard'[j] = 0 => \A h \in Host : sourceMap'[<<h, j>>] = Nil
               /\ lastHeard'[j] # 0 => hostMap'[ClientIp] # Nil
               /\ \A h \in Guid : ~ Over' /\ Latest(firstHeard', j, h) =>
                    /\ sessionMap'[h] # Nil
                    /\ sourceMap'[<<hostMap'[ClientIp], j>>] = sessionMap'[h]
    BY <1>1, <1>7, <1>10, <1>11, <1>13, <1>24, <2>1, <2>2 DEF Sources
  <2>4. QED
    BY <2>3 DEF Sources, Latest
<1>26. QED
  BY <1>24, <1>25

\* The first ping of an id makes a session that follows the latest of its port
\* (serversession.cc:58-74).
LEMMA DeliverNew ==
  ASSUME ShortBursts, UDPingInv, Deliver, NetworkTyped', Heard',
         live[sent[arrived + 1].guid] = Nil
  PROVE  Sources' /\ Awake' /\ Accounts'
<1>1. /\ IInv /\ ClientOrder /\ NetworkTyped /\ Heard /\ Sources /\ Awake /\ Accounts
  BY DEF UDPingInv, Ordered
<1>2. PICK p \in Ping, i \in Port, g \in Guid, n \in Nat, host \in Host :
        /\ p.guid = g /\ p.startTime = FirstSecond
        /\ p.seqNum = (n - 1) % SeqMod
        /\ i = sent[arrived + 1].session /\ g = sent[arrived + 1].guid
        /\ n = Count(sent, i, arrived + 1)
        /\ lastHeard[i] \in Nat /\ lastHeard[i] < n /\ n <= lastHeard[i] + MaxBurst + 1
        /\ \A j \in Port : firstHeard[j][g] # 0 => j = i /\ Latest(firstHeard, j, g)
        /\ hostMap[ClientIp] # Nil => hostMap' = hostMap /\ host = hostMap[ClientIp]
        /\ hostMap'[ClientIp] = host
        /\ ReceivePing(p, <<host, i>>)
        /\ firstHeard' = [firstHeard EXCEPT ![i] =
             [firstHeard[i] EXCEPT ![g] = IF firstHeard[i][g] = 0 THEN n ELSE @]]
        /\ lastHeard' = [lastHeard EXCEPT ![i] = n]
        /\ burst' = [burst EXCEPT ![i] = 0]
  BY Delivered
<1>3. /\ TypeOK /\ SessionsOwned /\ live \in Lives /\ published \in Reports
      /\ \A h \in Guid : live[h] = Nil <=> sessionMap[h] = Nil
      /\ \A h \in Guid : live[h] # Nil =>
           /\ sessionMap[h] \in Addr /\ heap[sessionMap[h]] # Nil
           /\ live[h].startTime = FirstSecond
      /\ \A h, e \in Guid : sessionMap[h] # Nil /\ sessionMap[h] = sessionMap[e] => h = e
  BY <1>1, Served
<1>4. live[g] = Nil
  BY <1>2
<1>5. /\ firstHeard \in Firsts /\ lastHeard \in Lasts /\ copies \in Copies
      /\ burst \in [Port -> 0 .. MaxBurst]
      /\ sessionMap \in [Guid -> Addr \cup {Nil}] /\ sourceMap \in [Source -> Addr \cup {Nil}]
  BY <1>1, <1>3 DEF NetworkTyped, TypeOK
<1>6. /\ InFlight /\ arrived' = arrived + 1 /\ sent' = sent /\ now' = now /\ phase' = phase
      /\ copies' = copies
  BY DEF Deliver, client
<1>7. ~ Over
  BY <1>6 DEF Over
<1>8. \A j \in Port : \A h \in Guid : Latest(firstHeard, j, h) => live[h] # Nil
  BY <1>1, <1>7 DEF Awake, Heeds
<1>9. \A j \in Port : firstHeard[j][g] = 0
  BY <1>2, <1>4, <1>8
<1>10. Separate(firstHeard)
  BY <1>1, <1>5, HeardSeparate DEF NetworkTyped, Heard
<1>11. \A h \in Guid : firstHeard[i][h] \in Nat /\ firstHeard[i][h] <= lastHeard[i]
  <2>1. \A h \in Guid : firstHeard[i][h] # 0 => firstHeard[i][h] <= lastHeard[i]
    BY <1>1 DEF Heard, FirstsKnown
  <2>2. lastHeard[i] \in Nat /\ \A h \in Guid : firstHeard[i][h] \in Nat
    BY <1>5 DEF Firsts, Lasts
  <2>3. QED
    BY <2>1, <2>2
<1> DEFINE src == <<host, i>>
<1>12. src \in Source
  BY DEF Source
\* The source's last session is the latest id's, if the port was heard at all.
<1>13. ASSUME lastHeard[i] # 0
       PROVE  \E l \in Guid : /\ Latest(firstHeard, i, l) /\ live[l] # Nil
                              /\ sourceMap[src] = sessionMap[l]
  <2>1. PICK k \in 1 .. arrived : Latest(firstHeard, i, sent[k].guid)
    BY <1>1, <1>13 DEF Heard, LatestKnown
  <2>2. sent[k].guid \in Guid
    <3>1. ClientTyped /\ k \in 1 .. Len(sent)
      BY <1>1, <1>6, SentTyped DEF ClientOrder, NetworkTyped
    <3>2. QED
      BY <3>1, SentTyped
  <2>3. host = hostMap[ClientIp]
    BY <1>1, <1>2, <1>13 DEF Sources
  <2>4. sourceMap[src] = sessionMap[sent[k].guid]
    BY <1>1, <1>7, <2>1, <2>2, <2>3 DEF Sources
  <2>5. QED
    BY <1>8, <2>1, <2>2, <2>4
<1>14. lastHeard[i] = 0 => sourceMap[src] = Nil
  BY <1>1 DEF Sources
<1>15. sourceMap[src] # Nil => heap[sourceMap[src]] # Nil
  BY <1>3, <1>13, <1>14
<1>16. \A h \in Guid : Latest(firstHeard, i, h) <=>
         /\ live[h] # Nil
         /\ sessionMap[h] = sourceMap[src]
         /\ live[h].startTime = p.startTime
  <2> SUFFICES ASSUME NEW h \in Guid
               PROVE  Latest(firstHeard, i, h) <=>
                        /\ live[h] # Nil
                        /\ sessionMap[h] = sourceMap[src]
                        /\ live[h].startTime = p.startTime
    OBVIOUS
  <2>1. ASSUME Latest(firstHeard, i, h)
        PROVE  /\ live[h] # Nil /\ sessionMap[h] = sourceMap[src]
               /\ live[h].startTime = p.startTime
    <3>1. live[h] # Nil
      BY <1>8, <2>1
    <3>2. lastHeard[i] # 0
      BY <1>11, <2>1 DEF Latest
    <3>3. PICK l \in Guid : Latest(firstHeard, i, l) /\ sourceMap[src] = sessionMap[l]
      BY <1>13, <3>2
    <3>4. firstHeard[i][l] = firstHeard[i][h] /\ firstHeard[i][h] # 0
      BY <1>11, <2>1, <3>3 DEF Latest
    <3>5. l = h
      BY <1>10, <3>4 DEF Separate
    <3>6. QED
      BY <1>2, <1>3, <3>1, <3>3, <3>5
  <2>2. ASSUME live[h] # Nil, sessionMap[h] = sourceMap[src]
        PROVE  Latest(firstHeard, i, h)
    <3>1. sessionMap[h] # Nil
      BY <1>3, <2>2
    <3>2. PICK l \in Guid : Latest(firstHeard, i, l) /\ sourceMap[src] = sessionMap[l]
      BY <1>13, <1>14, <2>2, <3>1
    <3>3. l = h
      BY <1>3, <2>2, <3>1, <3>2
    <3>4. QED
      BY <3>2, <3>3
  <2>3. QED
    BY <2>1, <2>2
<1>17. PICK a \in Addr, w \in Lives :
         /\ sourceMap' = [sourceMap EXCEPT ![src] = a]
         /\ w[g] = Recorded(NewSession(p, src), p)
         /\ \A h \in Guid \ {g} :
              w[h] = IF /\ live[h] # Nil
                        /\ sessionMap[h] = sourceMap[src]
                        /\ live[h].startTime = p.startTime
                     THEN [live[h] EXCEPT !.successor = g]
                     ELSE live[h]
         /\ EndsInSweep(w, [sessionMap EXCEPT ![g] = a])
  <2>1. ReceivePing(p, src) /\ live[p.guid] = Nil
    BY <1>2, <1>4
  <2>2. \E a \in Addr : \E v \in Lives :
           /\ sourceMap' = [sourceMap EXCEPT ![src] = a]
           /\ v[p.guid] = Recorded(NewSession(p, src), p)
           /\ \A h \in Guid \ {p.guid} :
                v[h] = IF /\ live[h] # Nil
                          /\ sessionMap[h] = sourceMap[src]
                          /\ live[h].startTime = p.startTime
                       THEN [live[h] EXCEPT !.successor = p.guid]
                       ELSE live[h]
           /\ EndsInSweep(v, [sessionMap EXCEPT ![p.guid] = a])
    BY <1>3, <1>12, <1>15, <2>1, CreateLive
  <2>3. p.guid = g
    BY <1>2
  <2>4. QED
    BY ONLY <2>2, <2>3
<1> HIDE DEF src
<1>18. \A h \in Guid \ {g} :
         w[h] = IF Latest(firstHeard, i, h) THEN [live[h] EXCEPT !.successor = g] ELSE live[h]
  BY <1>16, <1>17
<1>19. ASSUME NEW h \in Guid \ {g}
       PROVE  /\ w[h] = Nil <=> live[h] = Nil
              /\ live[h] # Nil =>
                   /\ Alike(w[h], live[h])
                   /\ w[h].successor = IF Latest(firstHeard, i, h) THEN g
                                       ELSE live[h].successor
  <2>1. CASE Latest(firstHeard, i, h)
    <3>1. live[h] # Nil /\ live[h] \in Session /\ w[h] = [live[h] EXCEPT !.successor = g]
      BY <1>3, <1>8, <1>18, <2>1 DEF Lives
    <3>2. w[h] \in Session
      BY <3>1 DEF Session
    <3>3. QED
      BY <2>1, <3>1, <3>2, NilAssumption DEF Session, Alike
  <2>2. CASE ~ Latest(firstHeard, i, h)
    BY <1>18, <2>2 DEF Alike
  <2>3. QED
    BY <2>1, <2>2
<1>20. PICK sm : sm = [sessionMap EXCEPT ![g] = a]
  OBVIOUS
<1>21. /\ EndsInSweep(w, sm)
       /\ sm[g] = a /\ a # Nil
       /\ \A h \in Guid \ {g} : sm[h] = sessionMap[h]
  BY <1>5, <1>17, <1>20, NilAssumption
<1>22. /\ lastHeard' \in Lasts /\ lastHeard'[i] = n
       /\ \A j \in Port \ {i} : lastHeard'[j] = lastHeard[j]
  BY <1>2, <1>5 DEF Lasts
<1>23. /\ firstHeard' \in Firsts /\ firstHeard'[i][g] = n
       /\ \A h \in Guid \ {g} : firstHeard'[i][h] = firstHeard[i][h]
       /\ \A j \in Port \ {i} : firstHeard'[j] = firstHeard[j]
  <2>1. firstHeard' = [firstHeard EXCEPT ![i] = [firstHeard[i] EXCEPT ![g] = n]]
    BY <1>2, <1>9
  <2>2. QED
    BY <1>5, <2>1 DEF Firsts
<1>24. PICK v \in Lives : v = live
  BY <1>3
<1>25. PICK asc \in BOOLEAN : asc <=> Ascending
  BY DEF Ascending
<1>26. /\ Spans(v, firstHeard, lastHeard, copies)
       /\ Settled(v, published, firstHeard, lastHeard, copies, asc)
  BY <1>1, <1>24, <1>25 DEF Accounts, Settled
<1>27. /\ Spans(w, firstHeard', lastHeard', copies)
       /\ Settled(w, published, firstHeard', lastHeard', copies, asc)
  <2>1. Succeeds(v, w, firstHeard, i, g)
    BY <1>4, <1>8, <1>19, <1>24 DEF Succeeds
  <2>2. Begins(firstHeard, firstHeard', lastHeard, lastHeard', i, g, n)
    BY <1>9, <1>11, <1>22, <1>23 DEF Begins
  <2>3. lastHeard[i] < n /\ n <= lastHeard[i] + MaxBurst + 1
    BY <1>2
  <2>4. /\ w[g] # Nil /\ w[g].idle = 0 /\ w[g].successor = Nil
        /\ Tracks(w[g], n, n, copies[g])
    <3>1. copies[g] \in Nat /\ p.seqNum = (n - 1) % SeqMod
      BY <1>2, <1>5 DEF Copies
    <3>2. QED
      BY <1>12, <1>17, <3>1, CreatedTracks
  <2>5. lastHeard' \in Lasts /\ firstHeard' \in Firsts
    BY <1>22, <1>23
  <2>6. QED
    BY ONLY ShortBursts, <1>5, <1>10, <1>26, <2>1, <2>2, <2>3, <2>4, <2>5, CreateSpans,
            i \in Port, n \in Nat, g \in Guid, v \in Lives, w \in Lives, asc \in BOOLEAN
<1>28. ASSUME NEW j \in Port, NEW h \in Guid, h # g, Latest(firstHeard', j, h)
       PROVE  /\ j # i /\ Latest(firstHeard, j, h)
              /\ w[h] = live[h]
  <2>1. j # i
    <3>1. j = i => firstHeard'[i][g] <= firstHeard'[i][h]
      BY <1>28 DEF Latest
    <3>2. firstHeard'[i][g] = n /\ firstHeard'[i][h] = firstHeard[i][h]
      BY <1>23, <1>28
    <3>3. firstHeard[i][h] \in Nat /\ firstHeard[i][h] <= lastHeard[i]
      BY <1>11
    <3>4. lastHeard[i] \in Nat /\ lastHeard[i] < n
      BY <1>2
    <3>5. QED
      BY ONLY <3>1, <3>2, <3>3, <3>4, n \in Nat
  <2>2. Latest(firstHeard, j, h)
    BY <1>23, <1>28, <2>1 DEF Latest
  <2>3. ~ Latest(firstHeard, i, h)
    BY <1>10, <2>1, <2>2 DEF Separate, Latest
  <2>4. QED
    BY <1>18, <1>28, <2>1, <2>2, <2>3
<1>29. \A j \in Port : \A h \in Guid : Latest(firstHeard', j, h) =>
         w[h] # Nil /\ w[h].idle <= Allowed(j)'
  <2> SUFFICES ASSUME NEW j \in Port, NEW h \in Guid, Latest(firstHeard', j, h)
               PROVE  w[h] # Nil /\ w[h].idle <= Allowed(j)'
    OBVIOUS
  <2>1. Allowed(j)' \in Nat
    BY AllowedNext
  <2>2. CASE h = g
    <3>1. NewSession(p, src) \in Session
      BY <1>12, NewSessionTyped
    <3>2. Recorded(NewSession(p, src), p) \in Session
          /\ Recorded(NewSession(p, src), p).idle = 0
      BY <3>1, RecordedSession
    <3>3. QED
      BY <1>17, <2>1, <2>2, <3>2, NilAssumption
  <2>3. CASE h # g
    <3>1. j # i /\ Latest(firstHeard, j, h) /\ w[h] = live[h]
      BY <1>28, <2>3
    <3>2. live[h] # Nil /\ live[h].idle <= Allowed(j) /\ live[h].idle \in Nat
      BY <1>1, <1>3, <1>7, <3>1 DEF Awake, Heeds, Lives, Session
    <3>3. burst'[j] = burst[j]
      BY <1>2, <1>5, <3>1
    <3>4. arrived + 1 \in 1 .. Len(sent) /\ arrived \in Nat /\ Len(sent) \in Nat
      BY <1>1, <1>6, SentTyped DEF ClientOrder, NetworkTyped, InFlight
    <3>5. Allowed(j) <= Allowed(j)'
      BY <1>1, <1>2, <1>6, <3>1, <3>3, <3>4, OthersAllowed
    <3>6. Allowed(j) \in Nat
      BY <1>1, AllowedTyped
    <3>7. QED
      BY <2>1, <3>1, <3>2, <3>5, <3>6
  <2>4. QED
    BY <2>2, <2>3
<1>30. /\ Awake' /\ Accounts'
       /\ ~ Over' => \A j \in Port : \A h \in Guid : Latest(firstHeard', j, h) =>
            live'[h] = w[h] /\ sessionMap'[h] = sm[h]
  <2>1. /\ Spans(w, firstHeard', lastHeard', copies')
        /\ Settled(w, published, firstHeard', lastHeard', copies', Ascending)
    <3>1. /\ Spans(w, firstHeard', lastHeard', copies')
          /\ Settled(w, published, firstHeard', lastHeard', copies', asc)
      BY ONLY <1>6, <1>27
    <3>2. QED
      BY ONLY <1>25, <3>1 DEF Settled
  <2>2. ~ Over' => \A j \in Port : \A h \in Guid : Latest(firstHeard', j, h) =>
           w[h] # Nil /\ w[h].idle <= Allowed(j)'
    BY <1>29
  <2>3. ClientOrder /\ published \in Reports /\ sent' = sent /\ EndsInSweep(w, sm)
    BY <1>1, <1>3, <1>6, <1>21
  <2>4. QED
    BY ONLY ShortBursts, NetworkTyped', Heard', <2>1, <2>2, <2>3, SweepKeeps, w \in Lives
<1>31. Sources'
  <2>1. n # 0 /\ host # Nil /\ hostMap'[ClientIp] = host
    <3>1. n # 0
      BY <1>2
    <3>2. QED
      BY <1>2, <3>1, NilAssumption
  <2>2. sourceMap'[<<host, i>>] = a
        /\ \A j \in Port \ {i} : \A h \in Host : sourceMap'[<<h, j>>] = sourceMap[<<h, j>>]
    BY <1>5, <1>12, <1>17 DEF src, Source
  <2>3. ASSUME NEW j \in Port, NEW h \in Guid, ~ Over', Latest(firstHeard', j, h)
        PROVE  /\ sessionMap'[h] # Nil
               /\ sourceMap'[<<host, j>>] = sessionMap'[h]
    <3>1. sessionMap'[h] = sm[h]
      BY <1>30, <2>3
    <3>2. CASE h = g
      <4>1. j = i
        BY <1>9, <1>23, <2>3, <3>2 DEF Latest
      <4>2. QED
        BY <1>21, <2>2, <3>1, <3>2, <4>1
    <3>3. CASE h # g
      <4>1. j # i /\ Latest(firstHeard, j, h) /\ live[h] # Nil
        BY <1>8, <1>28, <2>3, <3>3
      <4>2. lastHeard[j] # 0
        <5>1. firstHeard[j][h] # 0 /\ firstHeard[j][h] <= lastHeard[j]
              /\ firstHeard[j][h] \in Nat
          BY <1>1, <1>5, <4>1 DEF Latest, Heard, FirstsKnown, Firsts
        <5>2. QED
          BY <5>1
      <4>3. host = hostMap[ClientIp]
        BY <1>1, <1>2, <4>2 DEF Sources
      <4>4. sourceMap[<<host, j>>] = sessionMap[h] /\ sessionMap[h] # Nil
        BY <1>1, <1>7, <4>1, <4>3 DEF Sources
      <4>5. QED
        BY <1>21, <2>2, <3>1, <3>3, <4>1, <4>4
    <3>4. QED
      BY <3>2, <3>3
  <2>4. ASSUME NEW j \in Port, lastHeard'[j] = 0, NEW h \in Host
        PROVE  sourceMap'[<<h, j>>] = Nil
    <3>1. j # i
      BY <1>22, <2>1, <2>4
    <3>2. lastHeard[j] = 0
      BY <1>22, <2>4, <3>1
    <3>3. sourceMap[<<h, j>>] = Nil
      BY <1>1, <2>4, <3>2 DEF Sources
    <3>4. QED
      BY <2>2, <2>4, <3>1, <3>3
  <2>5. QED
    BY <2>1, <2>3, <2>4 DEF Sources, Latest
<1>32. QED
  BY <1>30, <1>31

\* Sources that hear nothing new keep their sessions, if the latest ids keep theirs
\* (serversession.cc:58-74).
LEMMA SourcesStay ==
  ASSUME Sources, hostMap' = hostMap, sourceMap' = sourceMap,
         firstHeard' = firstHeard, lastHeard' = lastHeard, Over => Over',
         ~ Over' => \A i \in Port : \A g \in Guid : Latest(firstHeard, i, g) =>
                      sessionMap'[g] = sessionMap[g]
  PROVE  Sources'
<1>1. ASSUME NEW i \in Port, NEW g \in Guid, ~ Over', Latest(firstHeard, i, g)
      PROVE  /\ sessionMap'[g] # Nil
             /\ sourceMap'[<<hostMap'[ClientIp], i>>] = sessionMap'[g]
  BY <1>1 DEF Sources
<1>2. QED
  BY <1>1 DEF Sources, Latest

\* What has been heard stays heard while nothing moves (serversession.cc:103-117).
LEMMA HeardStays ==
  ASSUME NetworkTyped, Heard, UNCHANGED <<sent, arrived, burst, firstHeard, lastHeard>>,
         copies' \in Copies
  PROVE  /\ NetworkTyped' /\ Heard'
         /\ now' = now => \A i \in Port : Allowed(i)' = Allowed(i)
<1>1. NetworkTyped'
  BY DEF NetworkTyped
<1>2. LastKnown(lastHeard, burst, arrived)'
  BY DEF Heard, LastKnown
<1>3. LatestKnown(firstHeard, lastHeard, arrived)'
  BY DEF Heard, LatestKnown, Latest
<1>4. FirstsKnown(firstHeard, lastHeard, arrived)'
  BY DEF Heard, FirstsKnown
<1>5. ASSUME now' = now, NEW i \in Port PROVE Allowed(i)' = Allowed(i)
  BY <1>5 DEF Allowed, Fresh
<1>6. QED
  BY <1>1, <1>2, <1>3, <1>4, <1>5 DEF Heard

\* An alarm reports what is silent, and spares the latest ids (serversession.cc:163-168).
LEMMA AlarmKeeps ==
  ASSUME ShortBursts, UDPingInv, Alarm
  PROVE  NetworkTyped' /\ Heard' /\ Sources' /\ Awake' /\ Accounts'
<1>1. /\ IInv /\ ClientOrder /\ NetworkTyped /\ Heard /\ Sources /\ Awake /\ Accounts
  BY DEF UDPingInv, Ordered
<1>2. /\ UNCHANGED <<now, phase, sent, arrived, burst, firstHeard, lastHeard, copies>>
      /\ UNCHANGED <<hostMap, sourceMap>>
      /\ \/ SweepServerSessions(sessionMap, heap)
         \/ UNCHANGED <<sessionMap, heap, published>>
  BY DEF Alarm, HandleAlarm, client, network
<1>3. /\ TypeOK /\ SessionsOwned /\ live \in Lives /\ published \in Reports
  BY <1>1, Served
<1>4. copies' \in Copies
  BY <1>1, <1>2 DEF NetworkTyped
<1>5. /\ NetworkTyped' /\ Heard'
      /\ \A i \in Port : Allowed(i)' = Allowed(i)
  BY <1>1, <1>2, <1>4, HeardStays
<1>6. Over' <=> Over
  BY <1>2 DEF Over, ClientDone, InFlight
<1>7. CASE SweepServerSessions(sessionMap, heap)
  <2>1. PICK w \in Lives : w = live
    BY <1>3
  <2>2. EndsInSweep(live, sessionMap)
    BY <1>3, <1>7, SweepLive, Typed DEF live, SessionsOwned
  <2>3. PICK sm : sm = sessionMap
    OBVIOUS
  <2>4. EndsInSweep(w, sm)
    BY <2>1, <2>2, <2>3 DEF EndsInSweep
  <2>5. ~ Over' => \A i \in Port : \A g \in Guid : Latest(firstHeard', i, g) =>
           w[g] # Nil /\ w[g].idle <= Allowed(i)'
    BY <1>1, <1>2, <1>5, <1>6, <2>1 DEF Awake, Heeds
  <2>6. /\ Spans(w, firstHeard', lastHeard', copies')
        /\ Settled(w, published, firstHeard', lastHeard', copies', Ascending)
    BY <1>1, <1>2, <2>1 DEF Accounts
  <2>7. /\ Awake' /\ Accounts'
        /\ ~ Over' => \A i \in Port : \A g \in Guid : Latest(firstHeard', i, g) =>
             live'[g] = w[g] /\ sessionMap'[g] = sm[g]
    BY ONLY ShortBursts, <1>1, <1>2, <1>3, <1>5, <2>4, <2>5, <2>6, SweepKeeps, w \in Lives
  <2>8. Sources'
    BY <1>1, <1>2, <1>6, <2>3, <2>7, SourcesStay
  <2>9. QED
    BY <1>5, <2>7, <2>8
<1>8. CASE UNCHANGED <<sessionMap, heap, published>>
  <2>1. live' = live
    BY <1>8 DEF live, Live
  <2>2. Awake'
    BY <1>1, <1>2, <1>5, <1>6, <2>1 DEF Awake, Heeds, Latest
  <2>3. Accounts'
    <3>1. Ascending' <=> Ascending
      BY <1>2 DEF Ascending
    <3>2. QED
      BY <1>1, <1>2, <1>8, <2>1, <3>1 DEF Accounts, Spans, Settled, Latest, Follows, Tracks
  <2>4. Sources'
    BY <1>1, <1>2, <1>6, <1>8, SourcesStay
  <2>5. QED
    BY <1>5, <2>2, <2>3, <2>4
<1>9. QED
  BY <1>2, <1>7, <1>8

\* The ping that has just arrived is the last of its port, and of the latest id there
\* (serversession.cc:103-117).
LEMMA LastPing ==
  ASSUME ClientOrder, NetworkTyped, Heard, arrived > 0, burst[sent[arrived].session] = 0
  PROVE  LET q == sent[arrived]
         IN  /\ q.session \in Port /\ q.guid \in Guid
             /\ Header(q) \in Ping
             /\ lastHeard[q.session] \in Nat /\ lastHeard[q.session] # 0
             /\ q.seqNum = (lastHeard[q.session] - 1) % SeqMod
             /\ Latest(firstHeard, q.session, q.guid)
<1> DEFINE q == sent[arrived]
           i == q.session
<1>1. ClientTyped /\ Numbered
  BY DEF ClientOrder
<1>2. Len(sent) \in Nat /\ arrived \in Nat /\ arrived \in 1 .. Len(sent) /\ 0 < arrived
  BY <1>1, SentTyped DEF NetworkTyped
<1>3. i \in Port /\ q.guid \in Guid /\ q.seqNum \in Seqnum
  BY <1>1, <1>2, SentTyped
<1>4. Header(q) \in Ping
  BY <1>3, ClientAssumption DEF Header
<1>5. lastHeard[i] \in Nat
  BY <1>3 DEF NetworkTyped, Lasts
<1>6. lastHeard[i] = Count(sent, i, arrived)
  BY <1>3, <1>5 DEF Heard, LastKnown
<1>7. q.seqNum = (lastHeard[i] - 1) % SeqMod
  BY <1>1, <1>2, <1>6 DEF Numbered
<1>8. lastHeard[i] # 0
  <2>1. Count(sent, i, 0) < Count(sent, i, arrived)
    BY <1>2, CountOrders
  <2>2. QED
    BY <1>5, <1>6, <2>1, CountNone
<1>9. PICK k \in 1 .. arrived : /\ sent[k].session = i
                                /\ Count(sent, i, k) = lastHeard[i]
                                /\ Latest(firstHeard, i, sent[k].guid)
  BY <1>3, <1>8 DEF Heard, LatestKnown
<1>10. k = arrived
  <2>1. k \in Nat
    BY <1>2
  <2>2. QED
    BY <1>2, <1>6, <1>9, <2>1, CountOrder
<1>11. QED
  BY <1>3, <1>4, <1>5, <1>7, <1>8, <1>9, <1>10

\* A ping that comes twice is counted twice, and nothing else changes
\* (serversession.cc:103-117).
LEMMA DuplicateKeeps ==
  ASSUME ShortBursts, UDPingInv, Duplicate
  PROVE  NetworkTyped' /\ Heard' /\ Sources' /\ Awake' /\ Accounts'
<1>1. /\ IInv /\ ClientOrder /\ NetworkTyped /\ Heard /\ Sources /\ Awake /\ Accounts
  BY DEF UDPingInv, Ordered
<1> DEFINE q == sent[arrived]
<1>2. /\ UNCHANGED <<now, phase, sent, arrived, burst, firstHeard, lastHeard>>
      /\ arrived > 0 /\ burst[q.session] = 0
      /\ q.guid \in Resident
      /\ ReadNextPacket(Header(q))
      /\ copies' = [copies EXCEPT ![q.guid] = @ + 1]
  BY DEF Duplicate, client
<1>3. /\ q.session \in Port /\ q.guid \in Guid
      /\ Header(q) \in Ping
      /\ lastHeard[q.session] \in Nat /\ lastHeard[q.session] # 0
      /\ q.seqNum = (lastHeard[q.session] - 1) % SeqMod
      /\ Latest(firstHeard, q.session, q.guid)
  BY <1>1, <1>2, LastPing
<1>4. PICK i \in Port, g \in Guid, n \in Nat, p \in Ping :
        /\ i = q.session /\ g = q.guid /\ n = lastHeard[i] /\ n # 0 /\ p = Header(q)
        /\ p.guid = g /\ p.ip = ClientIp /\ p.port = i /\ p.seqNum = (n - 1) % SeqMod
        /\ Latest(firstHeard, i, g)
  BY <1>3 DEF Header
<1>5. /\ TypeOK /\ SessionsOwned /\ live \in Lives /\ published \in Reports
      /\ \A h \in Guid : live[h] = Nil <=> sessionMap[h] = Nil
  BY <1>1, Served
<1>6. live[g] # Nil
  BY <1>2, <1>4, <1>5 DEF Resident
<1>7. /\ firstHeard \in Firsts /\ lastHeard \in Lasts /\ copies \in Copies
  BY <1>1 DEF NetworkTyped
<1>8. hostMap[ClientIp] # Nil
  BY <1>1, <1>4 DEF Sources
<1>9. PICK host : /\ host = hostMap[ClientIp]
                  /\ hostMap' = [hostMap EXCEPT ![ClientIp] = host]
                  /\ ReceivePing(p, <<host, i>>)
  BY <1>2, <1>4, <1>8 DEF ReadNextPacket
<1>10. hostMap' = hostMap /\ <<host, i>> \in Source
  <2>1. ClientIp \in Ip /\ hostMap \in [Ip -> Host \cup {Nil}]
    BY <1>5, ClientAssumption DEF TypeOK
  <2>2. QED
    BY <1>8, <1>9, <2>1 DEF Source
<1>11. /\ sourceMap' = sourceMap
       /\ \E v \in Lives :
            /\ v = [live EXCEPT ![p.guid] = Recorded(live[p.guid], p)]
            /\ EndsInSweep(v, sessionMap)
  BY <1>4, <1>5, <1>6, <1>9, <1>10, RecordLive
<1>12. PICK w \in Lives :
         /\ w = [live EXCEPT ![g] = Recorded(live[g], p)]
         /\ EndsInSweep(w, sessionMap)
  BY <1>4, <1>11
<1>13. /\ w[g] = Recorded(live[g], p)
       /\ \A h \in Guid \ {g} : w[h] = live[h]
  BY <1>5, <1>12 DEF Lives
<1>14. PICK v \in Lives : v = live
  BY <1>5
<1>15. /\ copies' \in Copies /\ copies'[g] = copies[g] + 1 /\ copies[g] \in Nat
       /\ \A h \in Guid \ {g} : copies'[h] = copies[h]
  <2>1. copies[g] \in Nat
    BY <1>7 DEF Copies
  <2>2. copies' = [copies EXCEPT ![g] = copies[g] + 1]
    BY <1>2, <1>4
  <2>3. QED
    BY <1>7, <2>1, <2>2 DEF Copies
<1> HIDE DEF q
<1>16. /\ NetworkTyped' /\ Heard'
       /\ \A j \in Port : Allowed(j)' = Allowed(j)
  BY <1>1, <1>2, <1>15, HeardStays
<1>17. Over' <=> Over
  BY <1>2 DEF Over, ClientDone, InFlight
<1>18. Separate(firstHeard)
  BY <1>1, <1>7, HeardSeparate DEF NetworkTyped, Heard
<1>19. PICK asc \in BOOLEAN : asc <=> Ascending
  BY DEF Ascending
<1>20. /\ Spans(v, firstHeard, lastHeard, copies)
       /\ Settled(v, published, firstHeard, lastHeard, copies, asc)
  BY <1>1, <1>14, <1>19 DEF Accounts, Settled
<1>21. /\ Spans(w, firstHeard, lastHeard, copies')
       /\ Settled(w, published, firstHeard, lastHeard, copies', asc)
  <2>1. /\ lastHeard[i] <= n /\ n <= lastHeard[i] + MaxBurst + 1
        /\ n + copies'[g] >= lastHeard[i] + copies[g] + 1
    <3>1. MaxBurst \in Nat
      BY BurstsFit
    <3>2. QED
      BY <1>4, <1>15, <3>1
  <2>2. n - firstHeard[i][g] <= SeqMod - Window - MaxBurst
    <3>1. Tracks(live[g], firstHeard[i][g], lastHeard[i], copies[g])
      BY <1>1, <1>4, <1>6 DEF Accounts, Spans
    <3>2. QED
      BY <1>4, <3>1 DEF Tracks
  <2>3. /\ v[p.guid] # Nil /\ w[p.guid] = Recorded(v[p.guid], p)
        /\ \A h \in Guid \ {p.guid} : w[h] = v[h]
        /\ Latest(firstHeard, i, p.guid)
        /\ n - firstHeard[i][p.guid] <= SeqMod - Window - MaxBurst
        /\ n + copies'[p.guid] >= lastHeard[i] + copies[p.guid] + 1
        /\ \A h \in Guid \ {p.guid} : copies'[h] = copies[h]
    BY <1>4, <1>6, <1>13, <1>14, <1>15, <2>1, <2>2
  <2>4. /\ p.seqNum = (n - 1) % SeqMod
        /\ lastHeard[i] = n /\ \A j \in Port \ {i} : lastHeard[j] = lastHeard[j]
    BY <1>4
  <2>5. copies' \in Copies
    BY <1>15
  <2>6. QED
    BY ONLY ShortBursts, <1>7, <1>18, <1>20, <2>1, <2>3, <2>4, <2>5, RecordSpans,
            p \in Ping, i \in Port, n \in Nat, v \in Lives, asc \in BOOLEAN
<1>22. ~ Over' => \A j \in Port : \A h \in Guid : Latest(firstHeard', j, h) =>
         w[h] # Nil /\ w[h].idle <= Allowed(j)'
  <2> SUFFICES ASSUME ~ Over', NEW j \in Port, NEW h \in Guid, Latest(firstHeard, j, h)
               PROVE  w[h] # Nil /\ w[h].idle <= Allowed(j)'
    BY <1>2
  <2>1. Allowed(j) \in Nat
    BY <1>1, AllowedTyped
  <2>2. CASE h = g
    <3>1. live[g] \in Session
      BY <1>5, <1>6 DEF Lives
    <3>2. Recorded(live[g], p) \in Session /\ Recorded(live[g], p).idle = 0
      BY <3>1, RecordedSession
    <3>3. QED
      BY <1>13, <1>16, <2>1, <2>2, <3>2, NilAssumption
  <2>3. CASE h # g
    BY <1>1, <1>13, <1>16, <1>17, <2>3 DEF Awake, Heeds
  <2>4. QED
    BY <2>2, <2>3
<1>23. /\ Awake' /\ Accounts'
       /\ ~ Over' => \A j \in Port : \A h \in Guid : Latest(firstHeard', j, h) =>
            live'[h] = w[h] /\ sessionMap'[h] = sessionMap[h]
  <2>1. /\ Spans(w, firstHeard', lastHeard', copies')
        /\ Settled(w, published, firstHeard', lastHeard', copies', Ascending)
    <3>1. /\ Spans(w, firstHeard', lastHeard', copies')
          /\ Settled(w, published, firstHeard', lastHeard', copies', asc)
      BY ONLY <1>2, <1>21
    <3>2. QED
      BY ONLY <1>19, <3>1 DEF Settled
  <2>2. ClientOrder /\ published \in Reports /\ sent' = sent /\ EndsInSweep(w, sessionMap)
    BY <1>1, <1>2, <1>5, <1>12
  <2>3. QED
    BY ONLY ShortBursts, <1>16, <1>22, <2>1, <2>2, SweepKeeps, w \in Lives
<1>24. Sources'
  BY <1>1, <1>2, <1>10, <1>11, <1>17, <1>23, SourcesStay
<1>25. QED
  BY <1>16, <1>23, <1>24

\* What leaves the sessions and the ghosts alone leaves the accounts alone
\* (serversession.cc:58-101).
LEMMA AccountsStay ==
  ASSUME Accounts, UNCHANGED <<sessionMap, heap, published, firstHeard, lastHeard, copies>>,
         Ascending' => Ascending
  PROVE  Accounts' /\ live' = live
<1>1. live' = live
  BY DEF live, Live
<1>2. Spans(live, firstHeard, lastHeard, copies)'
  BY <1>1 DEF Accounts, Spans, Latest, Follows, Tracks
<1>3. Settled(live, published, firstHeard, lastHeard, copies, Ascending)'
  BY <1>1 DEF Accounts, Settled, Latest, Follows
<1>4. QED
  BY <1>1, <1>2, <1>3 DEF Accounts

\* The latest ids may be silent as long as before or longer, and are not
\* (serversession.cc:82).
LEMMA AwakeStays ==
  ASSUME ShortBursts, IInv, NetworkTyped, NetworkTyped', Awake, ~ Over,
         live' = live, firstHeard' = firstHeard,
         \A i \in Port : Allowed(i) <= Allowed(i)'
  PROVE  Awake'
<1>1. live \in Lives
  BY Served
<1>2. ASSUME NEW i \in Port, NEW g \in Guid, Latest(firstHeard, i, g)
      PROVE  live[g] # Nil /\ live[g].idle <= Allowed(i)'
  <2>1. live[g] # Nil /\ live[g].idle <= Allowed(i)
    BY <1>2 DEF Awake, Heeds
  <2>2. live[g].idle \in Nat
    BY <1>1, <2>1 DEF Lives, Session
  <2>3. Allowed(i) \in Nat
    BY AllowedTyped
  <2>4. Allowed(i)' \in Nat
    BY AllowedNext
  <2>5. QED
    BY <2>1, <2>2, <2>3, <2>4
<1>3. QED
  BY <1>2 DEF Awake, Heeds, Latest

\* A ping lost costs the latest id of its port a second of silence it is allowed
\* (README.md:3, serversession.cc:82).
LEMMA LoseKeeps ==
  ASSUME ShortBursts, UDPingInv, Lose
  PROVE  NetworkTyped' /\ Heard' /\ Sources' /\ Awake' /\ Accounts'
<1>1. /\ IInv /\ ClientOrder /\ NetworkTyped /\ Heard /\ Sources /\ Awake /\ Accounts
  BY DEF UDPingInv, Ordered
<1>2. NetworkTyped' /\ Heard'
  BY <1>1, LoseHeard
<1>3. /\ InFlight /\ arrived' = arrived + 1
      /\ UNCHANGED <<now, phase, sent, firstHeard, lastHeard, copies>>
      /\ UNCHANGED <<hostMap, sourceMap, sessionMap, heap, published>>
      /\ burst' = [burst EXCEPT ![sent[arrived + 1].session] = @ + 1]
  BY DEF Lose, client, vars
<1>4. Accounts' /\ live' = live
  <2>1. Ascending' <=> Ascending
    BY <1>3 DEF Ascending
  <2>2. QED
    BY <1>1, <1>3, <2>1, AccountsStay
<1>5. ~ Over
  BY <1>3 DEF Over
<1>6. Sources'
  BY <1>1, <1>3, <1>5, SourcesStay
<1>7. /\ arrived + 1 \in 1 .. Len(sent) /\ arrived \in Nat /\ Len(sent) \in Nat
      /\ sent[arrived + 1].session \in Port
  <2>1. ClientTyped
    BY <1>1 DEF ClientOrder
  <2>2. Len(sent) \in Nat /\ arrived \in Nat
    BY <1>1, <2>1, SentTyped DEF NetworkTyped
  <2>3. arrived + 1 \in 1 .. Len(sent)
    BY <1>3, <2>2 DEF InFlight
  <2>4. QED
    BY <2>1, <2>2, <2>3, SentTyped
<1>8. ASSUME NEW i \in Port PROVE Allowed(i) <= Allowed(i)'
  <2>1. burst \in [Port -> 0 .. MaxBurst] /\ MaxBurst \in Nat /\ burst[i] \in Nat
    BY <1>1, BurstsFit DEF NetworkTyped
  <2>2. CASE i = sent[arrived + 1].session
    <3>1. burst'[i] = burst[i] + 1
      BY <1>3, <2>1, <2>2
    <3>2. QED
      BY <2>1, <3>1 DEF Allowed
  <2>3. CASE i # sent[arrived + 1].session
    <3>1. burst'[i] = burst[i]
      BY <1>3, <2>1, <2>3
    <3>2. QED
      BY <1>1, <1>3, <1>7, <2>3, <3>1, OthersAllowed
  <2>4. QED
    BY <2>2, <2>3
<1>9. Awake'
  BY <1>1, <1>2, <1>3, <1>4, <1>5, <1>8, AwakeStays
<1>10. QED
  BY <1>2, <1>4, <1>6, <1>9

\* A turn chosen is nothing the server sees (clientsession.cc:114-182).
LEMMA ChooseKeeps ==
  ASSUME ShortBursts, UDPingInv, C!ChooseSession, UNCHANGED <<vars, network>>
  PROVE  NetworkTyped' /\ Heard' /\ Sources' /\ Awake' /\ Accounts'
<1>1. /\ IInv /\ ClientOrder /\ NetworkTyped /\ Heard /\ Sources /\ Awake /\ Accounts
  BY DEF UDPingInv, Ordered
<1>2. /\ UNCHANGED <<now, sent, arrived, burst, firstHeard, lastHeard, copies>>
      /\ UNCHANGED <<hostMap, sourceMap, sessionMap, heap, published>>
      /\ Len(sent) < MaxSends
  BY DEF C!ChooseSession, network, vars
<1>3. copies' \in Copies
  BY <1>1, <1>2 DEF NetworkTyped
<1>4. NetworkTyped' /\ Heard' /\ \A i \in Port : Allowed(i)' = Allowed(i)
  BY <1>1, <1>2, <1>3, HeardStays
<1>5. Accounts' /\ live' = live
  <2>1. Ascending' <=> Ascending
    BY <1>2 DEF Ascending
  <2>2. QED
    BY <1>1, <1>2, <2>1, AccountsStay
<1>6. ~ Over
  <2>1. Len(sent) \in Nat /\ MaxSends \in Nat
    BY <1>1, SentTyped DEF ClientOrder
  <2>2. QED
    BY <1>2, <2>1 DEF Over, ClientDone
<1>7. Sources'
  BY <1>1, <1>2, <1>6, SourcesStay
<1>8. \A i \in Port : Allowed(i) <= Allowed(i)'
  <2>1. ASSUME NEW i \in Port PROVE Allowed(i) <= Allowed(i)'
    <3>1. Allowed(i) \in Nat
      BY <1>1, AllowedTyped
    <3>2. QED
      BY <1>4, <3>1
  <2>2. QED
    BY <2>1
<1>9. QED
  BY <1>1, <1>2, <1>4, <1>5, <1>6, <1>7, <1>8, AwakeStays

\* A ping sent is not the server's yet, and gives its port the second it takes
\* (clientsession.cc:163-214).
LEMMA SendKeeps ==
  ASSUME ShortBursts, UDPingInv, C!SendPingPacket, UNCHANGED <<vars, network>>
  PROVE  NetworkTyped' /\ Heard' /\ Sources' /\ Awake' /\ Accounts'
<1>1. /\ IInv /\ ClientOrder /\ NetworkTyped /\ Heard /\ Sources /\ Awake /\ Accounts
  BY DEF UDPingInv, Ordered
<1>2. /\ UNCHANGED <<now, arrived, burst, firstHeard, lastHeard, copies>>
      /\ UNCHANGED <<hostMap, sourceMap, sessionMap, heap, published>>
      /\ UNCHANGED network
      /\ phase = "send"
  BY DEF C!SendPingPacket, network, vars
<1>3. NetworkTyped' /\ Heard'
  BY <1>1, <1>2, SendHeard
<1>4. ClientTyped
  BY <1>1 DEF ClientOrder
<1>5. /\ Len(sent) \in Nat /\ Len(sent') = Len(sent) + 1
      /\ \A k \in 1 .. Len(sent) : sent'[k] = sent[k]
  BY <1>4, SendFacts
<1>6. arrived \in 0 .. Len(sent)
  BY <1>1 DEF NetworkTyped
<1>7. ~ Over
  BY <1>2 DEF Over, ClientDone
<1>8. Accounts' /\ live' = live
  <2>1. ASSUME Ascending' PROVE Ascending
    <3>1. DOMAIN sent = 1 .. Len(sent) /\ 1 .. Len(sent) \subseteq DOMAIN sent'
      <4>1. sent \in Seq(Pings) /\ sent' \in Seq(Pings)
        <5>1. ClientOrder'
          BY <1>1, SendKeepsOrder
        <5>2. QED
          BY <1>4, <5>1 DEF ClientOrder, ClientTyped
      <4>2. DOMAIN sent = 1 .. Len(sent) /\ DOMAIN sent' = 1 .. Len(sent')
        BY <4>1
      <4>3. QED
        BY <1>5, <4>2
    <3>2. QED
      BY <1>5, <2>1, <3>1 DEF Ascending
  <2>2. QED
    BY <1>1, <1>2, <2>1, AccountsStay
<1>9. Sources'
  BY <1>1, <1>2, <1>7, SourcesStay
<1>10. ASSUME NEW i \in Port PROVE Allowed(i) <= Allowed(i)'
  <2>1. burst[i] \in Int
    BY <1>1, ClientAssumption DEF NetworkTyped
  <2>2. ASSUME Fresh(i)' PROVE Fresh(i)
    <3>1. PICK k \in 1 .. arrived : sent'[k].session = i /\ sent'[k].stamp = now
      BY <1>2, <2>2 DEF Fresh
    <3>2. k \in 1 .. Len(sent)
      BY <1>5, <1>6
    <3>3. sent[k].session = i /\ sent[k].stamp = now
      BY <1>5, <3>1, <3>2
    <3>4. ASSUME NEW l \in (arrived + 1) .. Len(sent) PROVE sent[l].session # i
      <4>1. l \in 1 .. Len(sent) /\ l \in (arrived + 1) .. Len(sent')
        BY <1>5, <1>6
      <4>2. sent'[l].session # i
        BY <1>2, <2>2, <4>1 DEF Fresh
      <4>3. QED
        BY <1>5, <4>1, <4>2
    <3>5. QED
      BY <3>1, <3>3, <3>4 DEF Fresh
  <2>3. CASE Fresh(i)'
    BY <1>2, <2>1, <2>2, <2>3 DEF Allowed
  <2>4. CASE ~ Fresh(i)'
    BY <1>2, <2>1, <2>4 DEF Allowed
  <2>5. QED
    BY <2>3, <2>4
<1>11. Awake'
  BY <1>1, <1>2, <1>3, <1>7, <1>8, <1>10, AwakeStays
<1>12. QED
  BY <1>3, <1>8, <1>9, <1>11

\* When a second passes every port has had a ping in it that left the network: the
\* silence grows by one, and so does what is allowed (serversession.cc:82, client.cc:94).
LEMMA SecondAllows ==
  ASSUME ClientOrder, NetworkTyped, ~ InFlight, RoundSent, C!Tick, UNCHANGED network,
         NEW i \in Port
  PROVE  Allowed(i)' = Allowed(i) + 1 /\ burst[i] \in Nat /\ Allowed(i) = burst[i]
<1>1. ClientTyped /\ Numbered
  BY DEF ClientOrder
<1>2. /\ now \in Int /\ now' = now + 1 /\ sent' = sent
      /\ UNCHANGED <<arrived, burst>>
  BY <1>1 DEF C!Tick, network, ClientTyped
<1>3. Len(sent) \in Nat /\ arrived \in 0 .. Len(sent) /\ DOMAIN sent = 1 .. Len(sent)
  BY <1>1 DEF NetworkTyped, ClientTyped
<1>4. arrived = Len(sent)
  <2>1. ~ (arrived < Len(sent))
    BY DEF InFlight
  <2>2. arrived \in 0 .. Len(sent) /\ Len(sent) \in Nat
    BY <1>3
  <2>3. QED
    BY ONLY <2>1, <2>2
<1>5. burst[i] \in Nat
  BY ClientAssumption DEF NetworkTyped
<1>6. Fresh(i)
  <2>1. \E k \in 1 .. arrived : sent[k].session = i /\ sent[k].stamp = now
    BY <1>3, <1>4 DEF RoundSent
  <2>2. (arrived + 1) .. Len(sent) = {}
    BY <1>3, <1>4
  <2>3. QED
    BY <2>1, <2>2 DEF Fresh
<1>7. ~ Fresh(i)'
  <2>1. ASSUME NEW k \in 1 .. arrived, sent[k].stamp = now + 1 PROVE FALSE
    <3>1. sent[k].stamp <= now
      BY <1>1, <1>4 DEF Numbered
    <3>2. QED
      BY <1>2, <2>1, <3>1
  <2>2. QED
    BY <1>2, <2>1 DEF Fresh
<1>8. QED
  BY <1>2, <1>5, <1>6, <1>7 DEF Allowed

\* A second passes (serversession.cc:82, client.cc:94).
LEMMA SecondKeeps ==
  ASSUME ShortBursts, UDPingInv, Second
  PROVE  NetworkTyped' /\ Heard' /\ Sources' /\ Awake' /\ Accounts'
<1>1. /\ IInv /\ ClientOrder /\ NetworkTyped /\ Heard /\ Sources /\ Awake /\ Accounts
  BY DEF UDPingInv, Ordered
<1>2. /\ ~ InFlight /\ Tick
      /\ UNCHANGED network
      /\ UNCHANGED <<arrived, burst, firstHeard, lastHeard, copies>>
      /\ UNCHANGED <<hostMap, sourceMap, sessionMap, published>>
  BY DEF Second, network, Tick
<1>3. UNCHANGED <<phase, sent>>
  BY DEF Second, C!Tick, client
<1>4. copies' \in Copies
  BY <1>1, <1>2 DEF NetworkTyped
<1>5. NetworkTyped' /\ Heard'
  BY <1>1, <1>2, <1>3, <1>4, HeardStays
<1>6. TypeOK /\ SessionsOwned /\ live \in Lives
  BY <1>1, Served
<1>7. live' = [g \in Guid |-> IF live[g] = Nil THEN Nil
                              ELSE [live[g] EXCEPT !.idle = @ + 1]]
  BY <1>2, <1>6, TickLive
<1>8. Accounts'
  <2>1. PICK v \in Lives : v = live
    BY <1>6
  <2>2. PICK asc \in BOOLEAN : asc <=> Ascending
    BY DEF Ascending
  <2>3. PICK w : w = live'
    OBVIOUS
  <2>4. w = [g \in Guid |-> IF v[g] = Nil THEN Nil ELSE [v[g] EXCEPT !.idle = @ + 1]]
    BY <1>7, <2>1, <2>3
  <2>5. /\ Spans(v, firstHeard, lastHeard, copies)
        /\ Settled(v, published, firstHeard, lastHeard, copies, asc)
    BY <1>1, <2>1, <2>2 DEF Accounts, Settled
  <2>6. firstHeard \in Firsts /\ lastHeard \in Lasts /\ copies \in Copies
    BY <1>1 DEF NetworkTyped
  <2>7. /\ Spans(w, firstHeard, lastHeard, copies)
        /\ Settled(w, published, firstHeard, lastHeard, copies, asc)
    BY ONLY <2>4, <2>5, <2>6, AgedSpans, v \in Lives, asc \in BOOLEAN
  <2>8. Ascending' <=> Ascending
    BY <1>3 DEF Ascending
  <2>9. Spans(live, firstHeard, lastHeard, copies)'
    BY <1>2, <2>3, <2>7 DEF Spans, Latest, Follows, Tracks
  <2>10. Settled(live, published, firstHeard, lastHeard, copies, Ascending)'
    BY <1>2, <2>2, <2>3, <2>7, <2>8 DEF Settled, Latest, Follows
  <2>11. QED
    BY <2>9, <2>10 DEF Accounts
<1>9. Over => Over'
  BY <1>2, <1>3 DEF Over, ClientDone, InFlight
<1>10. Sources'
  BY <1>1, <1>2, <1>9, SourcesStay
<1>11. Awake'
  <2>1. CASE ClientDone
    BY <1>2, <1>9, <2>1 DEF Awake, Over
  <2>2. CASE ~ ClientDone
    <3>1. RoundSent /\ C!Tick
      BY <2>2 DEF Second
    <3>2. ASSUME NEW i \in Port, NEW g \in Guid, Latest(firstHeard, i, g)
          PROVE  live'[g] # Nil /\ live'[g].idle <= Allowed(i)'
      <4>1. live[g] # Nil /\ live[g].idle <= Allowed(i)
        BY <1>1, <2>2, <3>2 DEF Awake, Heeds, Over
      <4>2. live[g] \in Session /\ live[g].idle \in Nat
        BY <1>6, <4>1 DEF Lives, Session
      <4>3. live'[g] = [live[g] EXCEPT !.idle = @ + 1]
        BY <1>7, <4>1
      <4>4. live'[g].idle = live[g].idle + 1 /\ live'[g] \in Session
        BY <4>2, <4>3 DEF Session
      <4>5. Allowed(i)' = Allowed(i) + 1 /\ Allowed(i) \in Nat
        BY <1>1, <1>2, <3>1, SecondAllows
      <4>6. QED
        BY <4>1, <4>2, <4>4, <4>5, NilAssumption
    <3>3. QED
      BY <1>2, <3>2 DEF Awake, Heeds, Latest
  <2>3. QED
    BY <2>1, <2>2
<1>12. QED
  BY <1>5, <1>8, <1>10, <1>11

\* The session manager's invariant is kept by what leaves it alone
\* (serversession.cc:58-117).
LEMMA ServedStays == IInv /\ UNCHANGED vars => IInv'
  BY DEF IInv, TypeOK, SessionsOwned, Owns, PingsConserved, LiveCount, NoEmptySession,
         SilenceBound, vars

\* Every step of the client and of time keeps the client's order
\* (clientsession.cc:114-214).
LEMMA ClientOrderKept ==
  ASSUME ClientOrder, [UDPingNext]_udpingVars
  PROVE  ClientOrder'
<1>1. \/ C!ChooseSession
      \/ C!SendPingPacket
      \/ C!Tick
      \/ UNCHANGED client
  BY DEF UDPingNext, ClientStep, Alarm, Deliver, Duplicate, Lose, Second, udpingVars, client
<1>2. QED
  BY <1>1, ChooseKeepsOrder, SendKeepsOrder, SecondKeepsOrder

\* Every step of the composition is one of the session manager's or leaves it alone
\* (serversession.cc:103-168).
LEMMA ManagerStep ==
  ASSUME Ordered, [UDPingNext]_udpingVars
  PROVE  [Next]_vars
<1>1. ClientOrder /\ NetworkTyped /\ Heard
  BY DEF Ordered
<1>2. ASSUME Deliver PROVE \E p \in Ping : ReadNextPacket(p)
  <2>1. Header(sent[arrived + 1]) \in Ping
    BY <1>1, <1>2, NextPing DEF Deliver
  <2>2. ReadNextPacket(Header(sent[arrived + 1]))
    BY <1>2 DEF Deliver, client
  <2>3. QED
    BY <2>1, <2>2
<1>3. ASSUME Duplicate PROVE \E p \in Ping : ReadNextPacket(p)
  <2>1. Header(sent[arrived]) \in Ping
    BY <1>1, <1>3, LastPing DEF Duplicate
  <2>2. ReadNextPacket(Header(sent[arrived]))
    BY <1>3 DEF Duplicate
  <2>3. QED
    BY <2>1, <2>2
<1>4. QED
  BY <1>2, <1>3 DEF UDPingNext, ClientStep, Alarm, Lose, Second, udpingVars, Next

\* What a duplicate adds to the copies is a copy more (serversession.cc:115).
LEMMA CopiesTyped ==
  ASSUME NetworkTyped, Duplicate
  PROVE  copies' \in Copies
<1>1. copies \in [Guid -> Nat]
  BY DEF NetworkTyped, Copies
<1>2. copies' = [copies EXCEPT ![sent[arrived].guid] = @ + 1]
  BY DEF Duplicate
<1>3. \A g \in Guid : copies[g] \in Nat /\ copies[g] + 1 \in Nat
  BY <1>1
<1>4. QED
  BY <1>1, <1>2, <1>3 DEF Copies

\* The order is kept by every step, whatever the run of losses and the keepalive
\* (clientsession.cc:114-214, serversession.cc:103-168).
LEMMA OrderedStep ==
  ASSUME Ordered, [UDPingNext]_udpingVars
  PROVE  Ordered'
<1>1. IInv /\ ClientOrder /\ NetworkTyped /\ Heard
  BY DEF Ordered
<1>2. ClientOrder'
  BY <1>1, ClientOrderKept
<1>3. IInv'
  <2>1. \/ \E p \in Ping : ReadNextPacket(p)
        \/ HandleAlarm
        \/ Tick
        \/ UNCHANGED vars
    BY ManagerStep DEF Next
  <2>2. QED
    BY <1>1, <2>1, PacketIInv, AlarmIInv, TickIInv, ServedStays
<1>4. NetworkTyped' /\ Heard'
  <2>1. ASSUME UNCHANGED <<sent, arrived, burst, firstHeard, lastHeard>>, copies' \in Copies
        PROVE  NetworkTyped' /\ Heard'
    BY <1>1, <2>1, HeardStays
  <2>2. ASSUME UNCHANGED copies PROVE copies' \in Copies
    BY <1>1, <2>2 DEF NetworkTyped
  <2>3. CASE ClientStep
    <3>1. CASE C!ChooseSession
      BY <2>1, <2>2, <2>3, <3>1 DEF ClientStep, C!ChooseSession, network
    <3>2. CASE C!SendPingPacket
      BY <1>1, <2>3, <3>2, SendHeard DEF ClientStep
    <3>3. QED
      BY <2>3, <3>1, <3>2 DEF ClientStep
  <2>4. CASE Alarm
    BY <2>1, <2>2, <2>4 DEF Alarm, client, network
  <2>5. CASE Deliver
    BY <1>1, <2>5, DeliverHeard
  <2>6. CASE Duplicate
    BY <1>1, <2>1, <2>6, CopiesTyped DEF Duplicate, client
  <2>7. CASE Lose
    BY <1>1, <2>7, LoseHeard
  <2>8. CASE Second
    BY <2>1, <2>2, <2>8 DEF Second, C!Tick, client, network
  <2>9. CASE UNCHANGED udpingVars
    BY <2>1, <2>2, <2>9 DEF udpingVars, client, network
  <2>10. QED
    BY <2>3, <2>4, <2>5, <2>6, <2>7, <2>8, <2>9 DEF UDPingNext
<1>5. QED
  BY <1>2, <1>3, <1>4 DEF Ordered

\* The composition begins in order: nothing sent, no session (clientsession.cc:71-112,
\* serversession.cc:153-165).
LEMMA UDPingStarts == UDPingInit => UDPingInv
<1> SUFFICES ASSUME UDPingInit PROVE UDPingInv
  OBVIOUS
<1>1. ClientOrder
  BY ClientStarts DEF UDPingInit
<1>2. IInv
  BY InitIInv DEF UDPingInit
<1>3. /\ arrived = 0
      /\ \A i \in Port : burst[i] = 0 /\ lastHeard[i] = 0
      /\ \A i \in Port : \A g \in Guid : firstHeard[i][g] = 0
      /\ \A g \in Guid : published[g].count = 0 /\ published[g].target = 0
  BY DEF UDPingInit, Init
<1>4. NetworkTyped
  <2>1. Len(sent) \in Nat
    BY <1>1, SentTyped DEF ClientOrder
  <2>2. 0 \in 0 .. MaxBurst /\ 0 \in 0 .. Len(sent) /\ 0 \in Nat
    BY <2>1, ClientAssumption
  <2>3. QED
    BY <2>2 DEF UDPingInit, NetworkTyped, Firsts, Lasts, Copies
<1>5. Heard
  <2>1. LastKnown(lastHeard, burst, arrived)
    BY <1>3, CountNone DEF LastKnown
  <2>2. LatestKnown(firstHeard, lastHeard, arrived) /\ FirstsKnown(firstHeard, lastHeard, arrived)
    BY <1>3 DEF LatestKnown, FirstsKnown
  <2>3. QED
    BY <2>1, <2>2 DEF Heard
<1>6. \A g \in Guid : live[g] = Nil
  BY DEF UDPingInit, Init, live, Live
<1>7. Sources
  <2>1. \A i \in Port : \A h \in Host : sourceMap[<<h, i>>] = Nil
    BY DEF UDPingInit, Init, Source
  <2>2. QED
    BY <1>3, <2>1 DEF Sources, Latest
<1>8. Awake
  BY <1>3 DEF Awake, Heeds, Latest
<1>9. Accounts
  BY <1>3, <1>6 DEF Accounts, Spans, Settled
<1>10. QED
  BY <1>1, <1>2, <1>4, <1>5, <1>7, <1>8, <1>9 DEF UDPingInv, Ordered

\* A step that changes nothing keeps what is known (serversession.cc:58-117).
LEMMA StutterKeeps ==
  ASSUME ShortBursts, UDPingInv, UNCHANGED udpingVars
  PROVE  NetworkTyped' /\ Heard' /\ Sources' /\ Awake' /\ Accounts'
<1>1. /\ IInv /\ ClientOrder /\ NetworkTyped /\ Heard /\ Sources /\ Awake /\ Accounts
  BY DEF UDPingInv, Ordered
<1>2. /\ UNCHANGED <<now, phase, sent, arrived, burst, firstHeard, lastHeard, copies>>
      /\ UNCHANGED <<hostMap, sourceMap, sessionMap, heap, published>>
  BY DEF udpingVars, client, vars, network
<1>3. copies' \in Copies
  BY <1>1, <1>2 DEF NetworkTyped
<1>4. NetworkTyped' /\ Heard' /\ \A i \in Port : Allowed(i)' = Allowed(i)
  BY <1>1, <1>2, <1>3, HeardStays
<1>5. Over' <=> Over
  BY <1>2 DEF Over, ClientDone, InFlight
<1>6. Accounts' /\ live' = live
  <2>1. Ascending' <=> Ascending
    BY <1>2 DEF Ascending
  <2>2. QED
    BY <1>1, <1>2, <2>1, AccountsStay
<1>7. Sources'
  BY <1>1, <1>2, <1>5, SourcesStay
<1>8. Awake'
  BY <1>1, <1>2, <1>4, <1>5, <1>6 DEF Awake, Heeds, Latest
<1>9. QED
  BY <1>4, <1>6, <1>7, <1>8

\* The invariant of the composition is inductive, as long as seqnum_t does not come
\* round within a period (serversession.cc:35-101).
LEMMA UDPingStep ==
  ASSUME ShortBursts, ShortPeriods, UDPingInv, [UDPingNext]_udpingVars
  PROVE  UDPingInv'
<1>1. /\ ClientOrder /\ NetworkTyped /\ Heard
  BY DEF UDPingInv, Ordered
<1>2. Ordered'
  BY OrderedStep DEF UDPingInv
<1>3. Sources' /\ Awake' /\ Accounts'
  <2>1. CASE ClientStep
    <3>1. CASE C!ChooseSession
      BY <2>1, <3>1, ChooseKeeps DEF ClientStep
    <3>2. CASE C!SendPingPacket
      BY <2>1, <3>2, SendKeeps DEF ClientStep
    <3>3. QED
      BY <2>1, <3>1, <3>2 DEF ClientStep
  <2>2. CASE Alarm
    BY <2>2, AlarmKeeps
  <2>3. CASE Deliver
    <3>1. NetworkTyped' /\ Heard'
      BY <1>1, <2>3, DeliverHeard
    <3>2. CASE live[sent[arrived + 1].guid] # Nil
      BY <2>3, <3>1, <3>2, DeliverKnown
    <3>3. CASE live[sent[arrived + 1].guid] = Nil
      BY <2>3, <3>1, <3>3, DeliverNew
    <3>4. QED
      BY <3>1, <3>2, <3>3
  <2>4. CASE Duplicate
    BY <2>4, DuplicateKeeps
  <2>5. CASE Lose
    BY <2>5, LoseKeeps
  <2>6. CASE Second
    BY <2>6, SecondKeeps
  <2>7. CASE UNCHANGED udpingVars
    BY <2>7, StutterKeeps
  <2>8. QED
    BY <2>1, <2>2, <2>3, <2>4, <2>5, <2>6, <2>7 DEF UDPingNext
<1>4. QED
  BY <1>2, <1>3 DEF UDPingInv

----------------------------------------------------------------------------
(* What the invariant means.                                               *)

\* A counter with more values than the client sends pings does not come round within a
\* period (protocol.h:60).
AmpleNumbers == MaxSends - 1 + MaxBurst + Window <= SeqMod

\* With that many values ShortPeriods holds of all that is sent (protocol.h:60).
LEMMA AmpleIsShort ==
  ASSUME AmpleNumbers, Ordered
  PROVE  ShortPeriods
<1>1. /\ Len(sent) \in Nat /\ Len(sent) <= MaxSends /\ MaxSends \in Nat
      /\ \A k \in 1 .. Len(sent) : sent[k].session \in Port
  BY SentTyped DEF Ordered, ClientOrder
<1>2. /\ MaxBurst \in Nat /\ Window \in Nat /\ SeqMod \in Nat
      /\ MaxSends - 1 + MaxBurst + Window <= SeqMod
  BY ClientAssumption, WindowAssumption DEF AmpleNumbers
<1>3. ASSUME NEW k \in 1 .. Len(sent)
      PROVE  Nth(k) \in Nat /\ 1 <= Nth(k) /\ Nth(k) <= MaxSends
  <2>1. Nth(k) = Count(sent, sent[k].session, k)
    BY DEF Nth, Count
  <2>2. k \in Nat /\ 0 < k /\ k <= MaxSends
    BY <1>1
  <2>3. Nth(k) \in Nat /\ Nth(k) <= k
    BY <2>1, <2>2, CountStep, CountBound
  <2>4. Count(sent, sent[k].session, 0) < Count(sent, sent[k].session, k)
    BY <2>2, CountOrders
  <2>5. QED
    BY <1>1, <2>1, <2>2, <2>3, <2>4, CountNone
<1>4. ASSUME NEW j \in 1 .. Len(sent), NEW k \in 1 .. Len(sent)
      PROVE  Nth(k) - Nth(j) + MaxBurst + Window <= SeqMod
  <2>1. /\ Nth(j) \in Nat /\ 1 <= Nth(j)
        /\ Nth(k) \in Nat /\ Nth(k) <= MaxSends
    BY <1>3
  <2>2. QED
    BY <1>1, <1>2, <2>1
<1>5. QED
  BY <1>4 DEF ShortPeriods

\* An id whose session has been reported was charged no less than it received, but for
\* its copies (serversession.cc:35-53, :115).
LEMMA AccountsBound ==
  ASSUME UDPingInv
  PROVE  CountWithinTarget
<1>1. /\ Settled(live, published, firstHeard, lastHeard, copies, Ascending)
      /\ copies \in [Guid -> Nat]
  BY DEF UDPingInv, Ordered, Accounts, NetworkTyped, Copies
<1>2. ASSUME NEW g \in Guid PROVE published[g].count <= published[g].target + copies[g]
  <2>1. CASE live[g] # Nil \/ \A i \in Port : firstHeard[i][g] = 0
    <3>1. published[g].count = 0 /\ published[g].target = 0
      BY <1>1, <2>1 DEF Settled
    <3>2. copies[g] \in Nat
      BY <1>1
    <3>3. QED
      BY <3>1, <3>2
  <2>2. CASE live[g] = Nil /\ \E i \in Port : firstHeard[i][g] # 0
    BY <1>1, <2>2 DEF Settled
  <2>3. QED
    BY <2>1, <2>2
<1>3. QED
  BY <1>2 DEF CountWithinTarget

\* The least of a set of numbers is the one that is in it and below the others: the
\* share of an id ends where the next id begins (serversession.cc:86-89).
LEMMA LeastIsMin ==
  ASSUME NEW S \in SUBSET Nat, NEW m \in S, \A x \in S : m <= x
  PROVE  Min(S) = m
<1>1. ASSUME NEW x \in S, \A y \in S : x <= y PROVE x = m
  BY <1>1
<1>2. QED
  BY <1>1 DEF Min

\* When all is over each id has been charged its share (serversession.cc:58-101).
LEMMA AccountsClose ==
  ASSUME UDPingInv
  PROVE  LossCharged
<1>1. /\ IInv /\ ClientOrder /\ NetworkTyped /\ Heard
      /\ Settled(live, published, firstHeard, lastHeard, copies, Ascending)
  BY DEF UDPingInv, Ordered, Accounts
<1> SUFFICES ASSUME Ascending, Quiescent, NEW i \in Port, NEW g \in Guid,
                    firstHeard[i][g] # 0
             PROVE  published[g].target = Share(i, g)
  BY DEF LossCharged, SharesCharged
<1>2. live[g] = Nil
  BY <1>1, Served DEF Quiescent, Resident
<1>3. firstHeard \in Firsts /\ \A h \in Guid : firstHeard[i][h] \in Nat
  BY <1>1 DEF NetworkTyped, Firsts
<1> DEFINE first == firstHeard[i][g]
           next == {firstHeard[i][h] : h \in Guid} \cap ((first + 1) .. MaxSends)
<1>4. Share(i, g) = (IF next = {} THEN lastHeard[i] + 1 ELSE Min(next)) - first
  BY DEF Share
<1>5. CASE Latest(firstHeard, i, g)
  <2>1. next = {}
    <3>1. ASSUME NEW h \in Guid PROVE firstHeard[i][h] \notin (first + 1) .. MaxSends
      BY <1>3, <1>5 DEF Latest
    <3>2. QED
      BY <3>1
  <2>2. published[g].target = lastHeard[i] - first + 1
    BY <1>1, <1>2, <1>5 DEF Settled
  <2>3. lastHeard[i] \in Nat /\ first \in Nat
    BY <1>1, <1>3 DEF NetworkTyped, Lasts
  <2>4. QED
    BY <1>4, <2>1, <2>2, <2>3
<1>6. ASSUME NEW e \in Guid, Follows(firstHeard, i, g, e)
      PROVE  published[g].target = Share(i, g)
  <2>1. published[g].target = firstHeard[i][e] - first
    BY <1>1, <1>2, <1>6 DEF Settled
  <2>2. firstHeard[i][e] <= MaxSends
    <3>1. firstHeard[i][e] # 0
      BY <1>3, <1>6 DEF Follows
    <3>2. PICK k \in 1 .. arrived : Count(sent, i, k) = firstHeard[i][e]
      BY <1>1, <3>1 DEF Heard, FirstsKnown
    <3>3. k \in Nat /\ k <= MaxSends /\ MaxSends \in Nat
      BY <1>1, SentTyped DEF ClientOrder, NetworkTyped
    <3>4. QED
      BY <1>3, <3>2, <3>3, CountBound
  <2>3. firstHeard[i][e] \in next
    <3>1. first < firstHeard[i][e] /\ MaxSends \in Nat
      BY <1>6, ClientAssumption DEF Follows
    <3>2. QED
      BY <1>3, <2>2, <3>1
  <2>4. ASSUME NEW x \in next PROVE firstHeard[i][e] <= x
    <3>1. PICK h \in Guid : x = firstHeard[i][h]
      BY <2>4
    <3>2. first < x
      BY <1>3, <2>4
    <3>3. firstHeard[i][h] <= first \/ firstHeard[i][e] <= firstHeard[i][h]
      BY <1>6 DEF Follows
    <3>4. QED
      BY <1>3, <3>1, <3>2, <3>3
  <2>5. next \in SUBSET Nat
    BY <1>3
  <2> HIDE DEF next
  <2>6. Min(next) = firstHeard[i][e]
    BY <2>3, <2>4, <2>5, LeastIsMin
  <2>7. QED
    BY <1>4, <2>1, <2>3, <2>6
<1>7. QED
  BY <1>3, <1>5, <1>6, LatestOrFollowed

----------------------------------------------------------------------------
(* The theorems.                                                           *)

\* In the composition the session manager, and all that is proved of it, are what they
\* are alone: whatever the client sends and the network does with it is a run of the
\* session manager's own specification (serversession.cc:58-168).
THEOREM ServerServes == UDPingSpec => Spec
<1>1. UDPingInit => Ordered
  BY UDPingStarts DEF UDPingInv
<1>2. Ordered /\ [UDPingNext]_udpingVars => Ordered'
  BY OrderedStep
<1>3. Ordered /\ [UDPingNext]_udpingVars => [Next]_vars
  BY ManagerStep
<1>4. UDPingInit => Init
  BY DEF UDPingInit
<1>5. QED
  BY <1>1, <1>2, <1>3, <1>4, PTL DEF UDPingSpec, Spec

\* The inductive invariant holds if runs of losses are shorter than the window and the
\* keepalive, and the sequence numbers do not come round within a period
\* (serversession.cc:35-101).
THEOREM Accounted ==
  ASSUME ShortBursts
  PROVE  UDPingSpec /\ []ShortPeriods => []UDPingInv
<1>1. UDPingInit => UDPingInv
  BY UDPingStarts
<1>2. ShortPeriods /\ UDPingInv /\ [UDPingNext]_udpingVars => UDPingInv'
  BY UDPingStep
<1>3. QED
  BY <1>1, <1>2, PTL DEF UDPingSpec

\* No report counts more pings than it expects, but for the copies, however many
\* periods, losses and copies there are (README.md:3, serversession.cc:35-53, :115).
THEOREM CountBounded ==
  ASSUME ShortBursts
  PROVE  UDPingSpec /\ []ShortPeriods => []CountWithinTarget
<1>1. UDPingInv => CountWithinTarget
  BY AccountsBound
<1>2. QED
  BY <1>1, Accounted, PTL

\* Every loss is charged once and to the right period, if the ids are generated in the
\* order in which sessionMap is swept (serversession.cc:58-101).
THEOREM LossesCharged ==
  ASSUME ShortBursts
  PROVE  UDPingSpec /\ []ShortPeriods => []LossCharged
<1>1. UDPingInv => LossCharged
  BY AccountsClose
<1>2. QED
  BY <1>1, Accounted, PTL

\* Both hold of every run in which the counter has values for all the pings sent, as it
\* does in the model checked (protocol.h:60).
THEOREM AmplyAccounted ==
  ASSUME ShortBursts, AmpleNumbers
  PROVE  UDPingSpec => [](CountWithinTarget /\ LossCharged)
<1>1. UDPingInit => Ordered
  BY UDPingStarts DEF UDPingInv
<1>2. Ordered /\ [UDPingNext]_udpingVars => Ordered'
  BY OrderedStep
<1>3. Ordered => ShortPeriods
  BY AmpleIsShort
<1>4. UDPingSpec => []ShortPeriods
  BY <1>1, <1>2, <1>3, PTL DEF UDPingSpec
<1>5. QED
  BY <1>4, CountBounded, LossesCharged, PTL
=============================================================================
