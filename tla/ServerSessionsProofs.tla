------------------------ MODULE ServerSessionsProofs ------------------------
(***************************************************************************)
(* Proofs about the session manager, for every set of hosts, ports, ids,   *)
(* start times and addresses, every keepalive, counter width and window.   *)
(*                                                                         *)
(* The argument: a handler first updates the map and the heap (a ping is   *)
(* recorded, perhaps in a new session linked from its predecessor) and     *)
(* then sweeps.  RecordKeepsOwner and CreateKeepsOwner show that the       *)
(* update keeps the map the owner of the heap and adds one ping to one id; *)
(* SweepKeepsOwner shows that a sweep keeps the owner, moves every count   *)
(* it removes to the published reports, and leaves no session idle for     *)
(* more than the keepalive.                                                *)
(***************************************************************************)
EXTENDS ServerSessions, WellFoundedInduction, TLAPS

Maps == [Guid -> Addr \cup {Nil}]
Heaps == [Addr -> Session \cup {Nil}]
Reports == [Guid -> [count : Nat, target : Nat]]

----------------------------------------------------------------------------
(* The arithmetic of a session stays in its range.                         *)

\* A wrapped difference is a sequence number (serversession.cc:45).
LEMMA WrapSubSeqnum ==
  ASSUME NEW a \in Seqnum, NEW b \in Seqnum
  PROVE  WrapSub(a, b) \in Seqnum
BY WindowAssumption DEF WrapSub, Seqnum

\* The number before a sequence number is one (serversession.cc:88).
LEMMA BoundarySeqnum ==
  ASSUME NEW a \in Seqnum
  PROVE  WrapSub(a, 1) \in Seqnum
BY WindowAssumption DEF WrapSub, Seqnum

\* The target is an unsigned number (serversession.cc:36).
LEMMA TargetNat ==
  ASSUME NEW a \in Seqnum, NEW b \in Seqnum
  PROVE  TargetCount(a, b) \in Nat
<1>1. WrapSub(b, a) \in Seqnum
  BY WrapSubSeqnum
<1>2. QED
  BY <1>1, WindowAssumption DEF TargetCount, Shift, Seqnum

\* recordSeq keeps the ends of a session sequence numbers
\* (serversession.cc:43-53).
LEMMA RecordSeqnum ==
  ASSUME NEW a \in Seqnum, NEW s \in Seqnum
  PROVE  RecordMax(a, s) \in Seqnum /\ RecordMin(a, s) \in Seqnum
BY DEF RecordMax, RecordMin

\* A recorded ping leaves a session a session, of the same id, counted once
\* more and no longer idle (serversession.cc:103-117).
LEMMA RecordedSession ==
  ASSUME NEW s \in Session, NEW p \in Ping
  PROVE  /\ Recorded(s, p) \in Session
         /\ Recorded(s, p).guid = s.guid
         /\ Recorded(s, p).count = s.count + 1
         /\ Recorded(s, p).idle = 0
<1> DEFINE high == RecordMax(s.maxSeq, p.seqNum)
           low == RecordMin(s.minSeq, p.seqNum)
<1>1. p.seqNum \in Seqnum
  BY NamesAssumption
<1>2. s.maxSeq \in Seqnum /\ s.minSeq \in Seqnum /\ s.count \in Nat
  BY DEF Session
<1>3. high \in Seqnum /\ low \in Seqnum
  BY <1>1, <1>2, RecordSeqnum
<1>4. Recorded(s, p) =
        [s EXCEPT !.idle = 0, !.maxSeq = high, !.minSeq = low, !.count = s.count + 1]
  BY DEF Recorded
<1> HIDE DEF high, low
<1>5. s.count + 1 \in Nat
  BY <1>2
<1>6. Recorded(s, p) =
        [guid |-> s.guid, source |-> s.source, startTime |-> s.startTime,
         successor |-> s.successor, idle |-> 0, minSeq |-> low, maxSeq |-> high,
         count |-> s.count + 1]
  BY <1>4 DEF Session
<1>7. QED
  BY <1>3, <1>5, <1>6 DEF Session

\* The constructor makes a session with no ping counted yet
\* (serversession.cc:21-28).
LEMMA NewSessionTyped ==
  ASSUME NEW p \in Ping, NEW src \in Source
  PROVE  /\ NewSession(p, src) \in Session
         /\ NewSession(p, src).guid = p.guid
         /\ NewSession(p, src).count = 0
BY NamesAssumption DEF NewSession, Session

----------------------------------------------------------------------------
(* The update a ping makes before the sweep.                               *)

\* Heaps that differ only in fields other than the id are owned by the same
\* map (the setters of serversession.h:27-31 never touch the id).
LEMMA OwnsSameIds ==
  ASSUME NEW sm \in Maps, NEW h \in Heaps, NEW k \in Heaps,
         Owns(sm, h),
         \A a \in Addr : h[a] = Nil <=> k[a] = Nil,
         \A a \in Addr : h[a] # Nil => k[a].guid = h[a].guid
  PROVE  Owns(sm, k)
BY DEF Owns, Maps, Heaps

\* Recording a ping in the session of its id leaves a heap (serversession.cc:103-117).
LEMMA RecordHeap ==
  ASSUME NEW h \in Heaps, NEW b \in Addr, h[b] # Nil, NEW p \in Ping
  PROVE  [h EXCEPT ![b] = Recorded(h[b], p)] \in Heaps
<1>1. h[b] \in Session
  BY DEF Heaps
<1>2. Recorded(h[b], p) \in Session
  BY <1>1, RecordedSession
<1>3. QED
  BY <1>2 DEF Heaps

\* It keeps the map the owner and adds one ping to that id alone
\* (serversession.cc:105-115).
LEMMA RecordKeepsOwner ==
  ASSUME NEW sm \in Maps, NEW h \in Heaps, NEW p \in Ping, NEW k \in Heaps,
         Owns(sm, h), sm[p.guid] # Nil,
         k[sm[p.guid]] = Recorded(h[sm[p.guid]], p),
         \A a \in Addr : a # sm[p.guid] => k[a] = h[a]
  PROVE  /\ Owns(sm, k)
         /\ k[sm[p.guid]].idle = 0
         /\ LiveCount(sm, k, p.guid) = LiveCount(sm, h, p.guid) + 1
         /\ \A g \in Guid \ {p.guid} : LiveCount(sm, k, g) = LiveCount(sm, h, g)
<1> DEFINE b == sm[p.guid]
<1>1. p.guid \in Guid
  BY NamesAssumption
<1>2. b \in Addr /\ h[b] # Nil /\ h[b] \in Session /\ h[b].guid = p.guid
  BY <1>1 DEF Maps, Heaps, Owns
<1>3. /\ Recorded(h[b], p) \in Session
      /\ Recorded(h[b], p).guid = h[b].guid
      /\ Recorded(h[b], p).count = h[b].count + 1
      /\ Recorded(h[b], p).idle = 0
  BY <1>2, RecordedSession
<1>4. /\ k \in Heaps
      /\ k[b] = Recorded(h[b], p)
      /\ \A a \in Addr : a # b => k[a] = h[a]
  OBVIOUS
<1>5. Owns(sm, k)
  <2>1. \A a \in Addr : h[a] = Nil <=> k[a] = Nil
    BY <1>2, <1>3, <1>4, NilAssumption
  <2>2. \A a \in Addr : h[a] # Nil => k[a].guid = h[a].guid
    BY <1>3, <1>4
  <2>3. QED
    BY <1>4, <2>1, <2>2, OwnsSameIds
<1>6. \A g \in Guid \ {p.guid} : sm[g] # Nil => sm[g] # b
  BY <1>1, <1>2 DEF Owns, Maps
<1>7. \A g \in Guid \ {p.guid} : LiveCount(sm, k, g) = LiveCount(sm, h, g)
  BY <1>4, <1>6 DEF LiveCount, Maps
<1>8. LiveCount(sm, k, p.guid) = LiveCount(sm, h, p.guid) + 1
  BY <1>1, <1>2, <1>3, <1>4 DEF LiveCount
<1>9. QED
  BY <1>3, <1>4, <1>5, <1>7, <1>8

\* Telling the predecessor its successor changes nothing but that field
\* (serversession.cc:66-69).
LEMMA LinkedHeap ==
  ASSUME NEW h \in Heaps, NEW q \in Addr \cup {Nil}, NEW p \in Ping
  PROVE  /\ Linked(h, q, p) \in Heaps
         /\ \A a \in Addr : h[a] = Nil <=> Linked(h, q, p)[a] = Nil
         /\ \A a \in Addr : h[a] # Nil =>
              /\ Linked(h, q, p)[a].guid = h[a].guid
              /\ Linked(h, q, p)[a].count = h[a].count
              /\ Linked(h, q, p)[a].idle = h[a].idle
<1>1. p.guid \in Guid
  BY NamesAssumption
<1>2. CASE q # Nil /\ h[q] # Nil /\ h[q].startTime = p.startTime
  <2> DEFINE s == [h[q] EXCEPT !.successor = p.guid]
  <2>1. q \in Addr /\ h[q] \in Session
    BY <1>2 DEF Heaps
  <2>2. s \in Session /\ s.guid = h[q].guid /\ s.count = h[q].count /\ s.idle = h[q].idle
    BY <1>1, <2>1 DEF Session
  <2>3. s # Nil
    BY <2>2, NilAssumption
  <2>4. Linked(h, q, p) = [h EXCEPT ![q] = s]
    BY <1>2 DEF Linked
  <2>5. QED
    BY <1>2, <2>1, <2>2, <2>3, <2>4 DEF Heaps
<1>3. CASE ~ (q # Nil /\ h[q] # Nil /\ h[q].startTime = p.startTime)
  BY <1>3 DEF Linked
<1>4. QED
  BY <1>2, <1>3

\* Linking keeps the owner and every count and silence (serversession.cc:58-74).
LEMMA LinkKeepsOwner ==
  ASSUME NEW sm \in Maps, NEW h \in Heaps, Owns(sm, h),
         NEW q \in Addr \cup {Nil}, NEW p \in Ping
  PROVE  /\ Linked(h, q, p) \in Heaps
         /\ Owns(sm, Linked(h, q, p))
         /\ \A g \in Guid :
              /\ LiveCount(sm, Linked(h, q, p), g) = LiveCount(sm, h, g)
              /\ Silence(sm, Linked(h, q, p), g) = Silence(sm, h, g)
<1> DEFINE k == Linked(h, q, p)
<1>1. /\ k \in Heaps
      /\ \A a \in Addr : h[a] = Nil <=> k[a] = Nil
      /\ \A a \in Addr : h[a] # Nil =>
           k[a].guid = h[a].guid /\ k[a].count = h[a].count /\ k[a].idle = h[a].idle
  BY LinkedHeap
<1> HIDE DEF k
<1>2. Owns(sm, k)
  BY ONLY <1>1, OwnsSameIds, sm \in Maps, h \in Heaps, Owns(sm, h)
<1>3. \A g \in Guid : sm[g] # Nil => sm[g] \in Addr /\ h[sm[g]] # Nil
  BY DEF Owns, Maps
<1>4. \A g \in Guid : LiveCount(sm, k, g) = LiveCount(sm, h, g)
                     /\ Silence(sm, k, g) = Silence(sm, h, g)
  BY <1>1, <1>3 DEF LiveCount, Silence
<1>5. QED
  BY <1>1, <1>2, <1>4 DEF k

\* Creating the session of a new id at a free address keeps the map the owner;
\* the new session counts nothing yet, and every other id's count and silence
\* are what they were (serversession.cc:62 and 70).
LEMMA CreateKeepsOwner ==
  ASSUME NEW sm \in Maps, NEW h \in Heaps, Owns(sm, h),
         NEW n \in Session, sm[n.guid] = Nil, n.count = 0,
         NEW a \in Addr, h[a] = Nil,
         NEW sm2 \in Maps, sm2[n.guid] = a,
         \A g \in Guid \ {n.guid} : sm2[g] = sm[g],
         NEW c \in Heaps, c[a] = n,
         \A b \in Addr \ {a} : c[b] = h[b]
  PROVE  /\ Owns(sm2, c)
         /\ \A g \in Guid : LiveCount(sm2, c, g) = LiveCount(sm, h, g)
         /\ \A g \in Guid \ {n.guid} : Silence(sm2, c, g) = Silence(sm, h, g)
<1>1. n.guid \in Guid /\ n # Nil /\ a # Nil
  BY NilAssumption DEF Session
<1>2. \A g \in Guid : sm[g] # a
  BY <1>1 DEF Owns
<1>3. Owns(sm2, c)
  <2>1. \A g \in Guid : sm2[g] # Nil => c[sm2[g]] # Nil /\ c[sm2[g]].guid = g
    BY <1>1, <1>2 DEF Owns, Maps
  <2>2. ASSUME NEW b \in Addr, c[b] # Nil PROVE sm2[c[b].guid] = b
    <3>1. CASE b = a
      BY <3>1
    <3>2. CASE b # a
      <4>1. h[b] # Nil /\ c[b] = h[b] /\ h[b] \in Session
        BY <2>2, <3>2 DEF Heaps
      <4>2. sm[h[b].guid] = b /\ h[b].guid \in Guid /\ b # Nil
        BY <4>1, NilAssumption DEF Owns, Session
      <4>3. QED
        BY <4>1, <4>2
    <3>3. QED
      BY <3>1, <3>2
  <2>3. QED
    BY <2>1, <2>2 DEF Owns
<1>4. \A g \in Guid \ {n.guid} :
        sm2[g] = sm[g] /\ (sm[g] # Nil => c[sm[g]] = h[sm[g]])
  BY <1>2 DEF Maps
<1>5. LiveCount(sm2, c, n.guid) = LiveCount(sm, h, n.guid)
  BY <1>1 DEF LiveCount
<1>6. \A g \in Guid \ {n.guid} : LiveCount(sm2, c, g) = LiveCount(sm, h, g)
                               /\ Silence(sm2, c, g) = Silence(sm, h, g)
  BY <1>4 DEF LiveCount, Silence
<1>7. QED
  BY <1>3, <1>5, <1>6

----------------------------------------------------------------------------
(* The sweep.                                                              *)

\* The target a report is written with is an unsigned number
\* (serversession.cc:82-91).
LEMMA FinalTargetNat ==
  ASSUME NEW sm \in Maps, NEW h \in Heaps, Owns(sm, h),
         NEW g \in Guid, sm[g] # Nil
  PROVE  FinalTarget(sm, h, g) \in Nat
<1> DEFINE s == h[sm[g]]
           next == s.successor
           boundary == WrapSub(h[sm[next]].minSeq, 1)
<1>1. s \in Session
  BY DEF Owns, Maps, Heaps
<1>2. s.minSeq \in Seqnum /\ s.maxSeq \in Seqnum /\ next \in Guid \cup {Nil}
  BY <1>1 DEF Session
<1>3. CASE SuccessorFound(sm, h, g)
  <2>1. next \in Guid /\ sm[next] # Nil
    BY <1>2, <1>3 DEF SuccessorFound
  <2>2. h[sm[next]] \in Session
    BY <2>1 DEF Owns, Maps, Heaps
  <2>3. h[sm[next]].minSeq \in Seqnum
    BY <2>2 DEF Session
  <2>4. boundary \in Seqnum
    BY <2>3, BoundarySeqnum
  <2>5. /\ RecordMin(s.minSeq, boundary) \in Seqnum
        /\ RecordMax(s.maxSeq, boundary) \in Seqnum
    BY <1>2, <2>4, RecordSeqnum
  <2>6. TargetCount(RecordMin(s.minSeq, boundary), RecordMax(s.maxSeq, boundary)) \in Nat
    BY <2>5, TargetNat
  <2>7. QED
    BY <1>3, <2>6 DEF FinalTarget
<1>4. CASE ~ SuccessorFound(sm, h, g)
  <2>1. TargetCount(s.minSeq, s.maxSeq) \in Nat
    BY <1>2, TargetNat
  <2>2. QED
    BY <1>4, <2>1 DEF FinalTarget
<1>5. QED
  BY <1>3, <1>4

\* A sweep keeps the map the owner of the heap, moves the count of every
\* session it frees to the published reports, leaves the others as they are
\* and none of them idle for longer than the keepalive
\* (serversession.cc:76-101).
LEMMA SweepKeepsOwner ==
  ASSUME NEW sm \in Maps, NEW h \in Heaps, Owns(sm, h),
         published \in Reports, SweepServerSessions(sm, h)
  PROVE  /\ sessionMap' \in Maps
         /\ heap' \in Heaps
         /\ published' \in Reports
         /\ Owns(sessionMap', heap')
         /\ \A a \in Addr : heap'[a] # Nil =>
              heap'[a] = h[a] /\ ~ (heap'[a].idle > Keepalive)
         /\ \A g \in Guid :
              published'[g].count + LiveCount(sessionMap', heap', g)
                = published[g].count + LiveCount(sm, h, g)
<1> DEFINE X == Expired(sm, h)
<1>1. /\ sessionMap' = [g \in Guid |-> IF g \in X THEN Nil ELSE sm[g]]
      /\ heap' = [a \in Addr |-> IF \E g \in X : sm[g] = a THEN Nil ELSE h[a]]
      /\ published' = [g \in Guid |->
           IF g \in X
           THEN [count |-> published[g].count + h[sm[g]].count,
                 target |-> published[g].target + FinalTarget(sm, h, g)]
           ELSE published[g]]
  BY DEF SweepServerSessions
<1>2. \A g \in Guid : g \in X <=> sm[g] # Nil /\ h[sm[g]].idle > Keepalive
  BY DEF Expired
<1>3. X \subseteq Guid
  BY DEF Expired
<1> HIDE DEF X
<1>4. sessionMap' \in Maps /\ heap' \in Heaps
  BY <1>1 DEF Maps, Heaps
<1>5. published' \in Reports
  <2>1. \A g \in X : h[sm[g]].count \in Nat /\ FinalTarget(sm, h, g) \in Nat
    BY <1>2, <1>3, FinalTargetNat DEF Owns, Maps, Heaps, Session
  <2>2. \A g \in Guid : published[g] \in [count : Nat, target : Nat]
    BY DEF Reports
  <2>3. \A g \in Guid : published'[g] \in [count : Nat, target : Nat]
    BY <1>1, <2>1, <2>2
  <2>4. QED
    BY <1>1, <2>3 DEF Reports
<1>6. ASSUME NEW a \in Addr, heap'[a] # Nil
      PROVE  heap'[a] = h[a] /\ ~ (heap'[a].idle > Keepalive)
  <2>1. heap'[a] = h[a] /\ h[a] # Nil /\ \A g \in X : sm[g] # a
    BY <1>1, <1>6
  <2>2. h[a] \in Session /\ h[a].guid \in Guid /\ sm[h[a].guid] = a /\ a # Nil
    BY <2>1, NilAssumption DEF Owns, Heaps, Session
  <2>3. h[a].guid \notin X
    BY <2>1, <2>2
  <2>4. ~ (h[a].idle > Keepalive)
    BY <1>2, <2>2, <2>3
  <2>5. QED
    BY <2>1, <2>4
<1>7. Owns(sessionMap', heap')
  <2>1. ASSUME NEW g \in Guid, sessionMap'[g] # Nil
        PROVE  heap'[sessionMap'[g]] # Nil /\ heap'[sessionMap'[g]].guid = g
    <3>1. g \notin X /\ sessionMap'[g] = sm[g] /\ sm[g] \in Addr
      BY <1>1, <2>1 DEF Maps
    <3>2. \A i \in X : sm[i] # sm[g]
      BY <1>2, <1>3, <3>1, NilAssumption DEF Owns
    <3>3. heap'[sm[g]] = h[sm[g]]
      BY <1>1, <3>1, <3>2
    <3>4. QED
      BY <3>1, <3>3, NilAssumption DEF Owns
  <2>2. ASSUME NEW a \in Addr, heap'[a] # Nil
        PROVE  sessionMap'[heap'[a].guid] = a
    <3>1. heap'[a] = h[a] /\ h[a] # Nil /\ \A g \in X : sm[g] # a
      BY <1>1, <2>2
    <3>2. h[a].guid \in Guid /\ sm[h[a].guid] = a
      BY <3>1 DEF Owns, Heaps, Session
    <3>3. QED
      BY <1>1, <3>1, <3>2
  <2>3. QED
    BY <2>1, <2>2 DEF Owns
<1>8. ASSUME NEW g \in Guid
      PROVE  published'[g].count + LiveCount(sessionMap', heap', g)
               = published[g].count + LiveCount(sm, h, g)
  <2>0. published[g].count \in Nat
    BY DEF Reports
  <2>1. CASE g \in X
    <3>1. /\ sm[g] # Nil
          /\ sessionMap'[g] = Nil
          /\ published'[g].count = published[g].count + h[sm[g]].count
      BY <1>1, <1>2, <2>1
    <3>2. h[sm[g]].count \in Nat
      BY <3>1 DEF Owns, Maps, Heaps, Session
    <3>3. QED
      BY <2>0, <3>1, <3>2 DEF LiveCount
  <2>2. CASE g \notin X
    <3>1. sessionMap'[g] = sm[g] /\ published'[g] = published[g]
      BY <1>1, <2>2
    <3>2. CASE sm[g] = Nil
      BY <3>1, <3>2 DEF LiveCount
    <3>3. CASE sm[g] # Nil
      <4>1. sm[g] \in Addr /\ heap'[sm[g]] # Nil
        BY <1>7, <3>1, <3>3 DEF Owns, Maps
      <4>2. heap'[sm[g]] = h[sm[g]]
        BY <1>6, <4>1
      <4>3. QED
        BY <3>1, <3>3, <4>2 DEF LiveCount
    <3>4. QED
      BY <3>2, <3>3
  <2>3. QED
    BY <2>1, <2>2
<1>9. QED
  BY <1>4, <1>5, <1>6, <1>7, <1>8

\* What a sweep does to one id: an expired one is reported in full and its
\* session is gone, any other is untouched (serversession.cc:79-96).
LEMMA SweepById ==
  ASSUME NEW sm \in Maps, NEW h \in Heaps, Owns(sm, h),
         published \in Reports, SweepServerSessions(sm, h), NEW g \in Guid
  PROVE  /\ g \in Expired(sm, h) =>
              /\ published'[g].count = published[g].count + LiveCount(sm, h, g)
              /\ LiveCount(sessionMap', heap', g) = 0
              /\ Silence(sessionMap', heap', g) = 0
         /\ g \notin Expired(sm, h) =>
              /\ published'[g] = published[g]
              /\ LiveCount(sessionMap', heap', g) = LiveCount(sm, h, g)
              /\ Silence(sessionMap', heap', g) = Silence(sm, h, g)
<1> DEFINE X == Expired(sm, h)
<1>1. /\ sessionMap' = [i \in Guid |-> IF i \in X THEN Nil ELSE sm[i]]
      /\ published' = [i \in Guid |->
           IF i \in X
           THEN [count |-> published[i].count + h[sm[i]].count,
                 target |-> published[i].target + FinalTarget(sm, h, i)]
           ELSE published[i]]
  BY DEF SweepServerSessions
<1>2. g \in X => sm[g] # Nil
  BY DEF Expired
<1> HIDE DEF X
<1>3. CASE g \in X
  BY <1>1, <1>2, <1>3 DEF LiveCount, Silence, X
<1>4. CASE g \notin X
  <2>1. sessionMap'[g] = sm[g] /\ published'[g] = published[g]
    BY <1>1, <1>4
  <2>2. sm[g] # Nil => sm[g] \in Addr /\ heap'[sm[g]] # Nil
    <3>1. Owns(sessionMap', heap') /\ sessionMap' \in Maps
      BY SweepKeepsOwner
    <3>2. QED
      BY <2>1, <3>1 DEF Owns, Maps
  <2>3. sm[g] # Nil => heap'[sm[g]] = h[sm[g]]
    BY <2>2, SweepKeepsOwner
  <2>4. QED
    BY <1>4, <2>1, <2>3 DEF LiveCount, Silence, X
<1>5. QED
  BY <1>3, <1>4

\* A set of numbers, as the ids of a map (serversession.cc:79), has a first one.
LEMMA LeastNumber ==
  ASSUME NEW S \in SUBSET Nat, S # {}
  PROVE  \E m \in S : \A k \in S : m <= k
<1> DEFINE R == OpToRel(<, Nat)
<1>1. IsWellFoundedOn(R, Nat)
  BY NatLessThanWellFounded
<1>2. \A x, y \in Nat : x < y => <<x, y>> \in R
  BY DEF OpToRel
<1> HIDE DEF R
<1>3. PICK x \in S : \A y \in S : ~ (<<y, x>> \in R)
  BY <1>1, WFMin
<1>4. \A y \in S : ~ (y < x)
  BY <1>2, <1>3
<1>5. \A y \in S : x <= y
  BY <1>4
<1>6. QED
  BY <1>5

----------------------------------------------------------------------------
(* The invariant.                                                          *)

IInv ==
  /\ TypeOK
  /\ SessionsOwned
  /\ PingsConserved
  /\ NoEmptySession
  /\ SilenceBound

\* The parts of the type invariant in the shape the lemmas use (serversession.h:11-34).
LEMMA Typed ==
  ASSUME TypeOK
  PROVE  sessionMap \in Maps /\ heap \in Heaps /\ published \in Reports
BY DEF TypeOK, Maps, Heaps, Reports

\* The map and the heap as receivePing leaves them to the sweep: the ping's id
\* has a session that has just been heard from and counts one ping more, and
\* every other id's count and silence are what they were
\* (serversession.cc:103-116).
LEMMA PingUpdate ==
  ASSUME TypeOK, SessionsOwned,
         NEW p \in Ping, NEW src \in Source, ReceivePing(p, src)
  PROVE  /\ sourceMap' \in [Source -> Addr \cup {Nil}]
         /\ \E sm \in Maps : \E h \in Heaps :
              /\ Owns(sm, h)
              /\ SweepServerSessions(sm, h)
              /\ sm[p.guid] # Nil
              /\ Silence(sm, h, p.guid) = 0
              /\ LiveCount(sm, h, p.guid) = LiveCount(sessionMap, heap, p.guid) + 1
              /\ \A g \in Guid \ {p.guid} :
                   /\ sm[g] = sessionMap[g]
                   /\ Silence(sm, h, g) = Silence(sessionMap, heap, g)
                   /\ LiveCount(sm, h, g) = LiveCount(sessionMap, heap, g)
<1>1. p.guid \in Guid
  BY NamesAssumption
<1>2. /\ sessionMap \in Maps /\ heap \in Heaps
      /\ Owns(sessionMap, heap)
      /\ sourceMap \in [Source -> Addr \cup {Nil}]
  BY Typed DEF TypeOK, SessionsOwned
<1>3. CASE /\ sessionMap[p.guid] # Nil
           /\ sourceMap' = sourceMap
           /\ SweepServerSessions(sessionMap,
                [heap EXCEPT ![sessionMap[p.guid]] =
                   Recorded(heap[sessionMap[p.guid]], p)])
  <2> DEFINE b == sessionMap[p.guid]
             k == [heap EXCEPT ![b] = Recorded(heap[b], p)]
  <2>1. /\ k \in Heaps
        /\ Owns(sessionMap, k)
        /\ k[b].idle = 0
        /\ \A a \in Addr : a # b => k[a] = heap[a]
        /\ LiveCount(sessionMap, k, p.guid) = LiveCount(sessionMap, heap, p.guid) + 1
        /\ \A g \in Guid \ {p.guid} :
             LiveCount(sessionMap, k, g) = LiveCount(sessionMap, heap, g)
    <3>1. sessionMap[p.guid] # Nil
      BY <1>3
    <3>2. b \in Addr /\ heap[b] # Nil
      BY <1>1, <1>2, <3>1 DEF Maps, Owns
    <3>3. k \in Heaps
      BY <1>2, <3>2, RecordHeap
    <3>4. k[b] = Recorded(heap[b], p) /\ \A a \in Addr : a # b => k[a] = heap[a]
      BY <1>2, <3>2 DEF Heaps
    <3> HIDE DEF k
    <3>5. QED
      BY ONLY <1>2, <3>1, <3>3, <3>4, RecordKeepsOwner, p \in Ping
  <2>2. SweepServerSessions(sessionMap, k)
    BY <1>3
  <2> HIDE DEF k
  <2>3. Silence(sessionMap, k, p.guid) = 0
    BY <1>3, <2>1 DEF Silence
  <2>4. ASSUME NEW g \in Guid \ {p.guid}
        PROVE  Silence(sessionMap, k, g) = Silence(sessionMap, heap, g)
    <3>1. sessionMap[g] # Nil => sessionMap[g] \in Addr /\ sessionMap[g] # b
      BY <1>1, <1>2, <1>3 DEF Owns, Maps
    <3>2. QED
      BY <2>1, <3>1 DEF Silence
  <2>5. QED
    BY <1>2, <1>3, <2>1, <2>2, <2>3, <2>4
<1>4. ASSUME sessionMap[p.guid] = Nil,
             NEW a \in FreeAddrs,
             sourceMap' = [sourceMap EXCEPT ![src] = a],
             SweepServerSessions([sessionMap EXCEPT ![p.guid] = a],
               [Linked([heap EXCEPT ![a] = NewSession(p, src)], sourceMap[src], p)
                  EXCEPT ![a] = Recorded(
                    Linked([heap EXCEPT ![a] = NewSession(p, src)], sourceMap[src], p)[a],
                    p)])
      PROVE  /\ sourceMap' \in [Source -> Addr \cup {Nil}]
             /\ \E sm \in Maps : \E h \in Heaps :
                  /\ Owns(sm, h)
                  /\ SweepServerSessions(sm, h)
                  /\ sm[p.guid] # Nil
                  /\ Silence(sm, h, p.guid) = 0
                  /\ LiveCount(sm, h, p.guid) = LiveCount(sessionMap, heap, p.guid) + 1
                  /\ \A g \in Guid \ {p.guid} :
                       /\ sm[g] = sessionMap[g]
                       /\ Silence(sm, h, g) = Silence(sessionMap, heap, g)
                       /\ LiveCount(sm, h, g) = LiveCount(sessionMap, heap, g)
  <2> DEFINE n == NewSession(p, src)
             sm == [sessionMap EXCEPT ![p.guid] = a]
             created == [heap EXCEPT ![a] = n]
             q == sourceMap[src]
             linked == Linked(created, q, p)
             k == [linked EXCEPT ![a] = Recorded(linked[a], p)]
  <2>1. /\ a \in Addr /\ heap[a] = Nil /\ a # Nil /\ q \in Addr \cup {Nil}
        /\ sessionMap[p.guid] = Nil
    BY <1>2, <1>4, NilAssumption DEF FreeAddrs
  <2>2. n \in Session /\ n.guid = p.guid /\ n.count = 0
    BY NewSessionTyped
  <2>3. SweepServerSessions(sm, k)
    BY <1>4
  <2>4. sourceMap' \in [Source -> Addr \cup {Nil}]
    BY <1>2, <1>4, <2>1
  <2> HIDE DEF n, q
  <2>5. /\ sm \in Maps /\ sm[p.guid] = a
        /\ \A g \in Guid \ {p.guid} : sm[g] = sessionMap[g]
        /\ created \in Heaps /\ created[a] = n
        /\ \A b \in Addr \ {a} : created[b] = heap[b]
    BY <1>1, <1>2, <2>1, <2>2 DEF Maps, Heaps
  <2> HIDE DEF sm, created
  <2>6. /\ Owns(sm, created)
        /\ \A g \in Guid : LiveCount(sm, created, g) = LiveCount(sessionMap, heap, g)
        /\ \A g \in Guid \ {p.guid} :
             Silence(sm, created, g) = Silence(sessionMap, heap, g)
    BY ONLY <1>2, <2>1, <2>2, <2>5, CreateKeepsOwner
  <2>7. /\ linked \in Heaps
        /\ Owns(sm, linked)
        /\ \A g \in Guid :
             /\ LiveCount(sm, linked, g) = LiveCount(sm, created, g)
             /\ Silence(sm, linked, g) = Silence(sm, created, g)
    BY ONLY <2>1, <2>5, <2>6, LinkKeepsOwner, p \in Ping
  <2> HIDE DEF linked
  <2>8. k \in Heaps
    <3>1. linked[a] # Nil
      BY <1>1, <2>1, <2>5, <2>7 DEF Owns
    <3>2. QED
      BY ONLY <2>1, <2>7, <3>1, RecordHeap, p \in Ping
  <2>9. k[a] = Recorded(linked[a], p) /\ \A b \in Addr : b # a => k[b] = linked[b]
    BY <2>1, <2>7 DEF Heaps
  <2> HIDE DEF k
  <2>10. /\ Owns(sm, k)
         /\ k[a].idle = 0
         /\ LiveCount(sm, k, p.guid) = LiveCount(sm, linked, p.guid) + 1
         /\ \A g \in Guid \ {p.guid} : LiveCount(sm, k, g) = LiveCount(sm, linked, g)
    BY ONLY <2>1, <2>5, <2>7, <2>8, <2>9, RecordKeepsOwner, p \in Ping
  <2>11. Silence(sm, k, p.guid) = 0
    BY <2>1, <2>5, <2>10 DEF Silence
  <2>12. ASSUME NEW g \in Guid \ {p.guid}
         PROVE  Silence(sm, k, g) = Silence(sm, linked, g)
    <3>1. sm[g] # Nil => sm[g] \in Addr /\ sm[g] # a
      BY <1>2, <2>1, <2>5 DEF Owns, Maps
    <3>2. QED
      BY <2>9, <3>1 DEF Silence
  <2>13. /\ sm[p.guid] # Nil
         /\ LiveCount(sm, k, p.guid) = LiveCount(sessionMap, heap, p.guid) + 1
         /\ \A g \in Guid \ {p.guid} :
              /\ Silence(sm, k, g) = Silence(sessionMap, heap, g)
              /\ LiveCount(sm, k, g) = LiveCount(sessionMap, heap, g)
    BY <1>1, <2>1, <2>5, <2>6, <2>7, <2>10, <2>12
  <2>14. QED
    BY ONLY <2>3, <2>4, <2>5, <2>8, <2>10, <2>11, <2>13
<1>5. QED
  BY <1>3, <1>4 DEF ReceivePing

\* The manager begins with no session and no alarm due (serversession.cc:151-161).
LEMMA InitIInv == Init => IInv
<1> SUFFICES ASSUME Init PROVE IInv
  OBVIOUS
<1>1. TypeOK
  BY KeepaliveAssumption DEF Init, TypeOK
<1>2. SessionsOwned /\ PingsConserved /\ NoEmptySession /\ SilenceBound
  BY DEF Init, SessionsOwned, Owns, PingsConserved, LiveCount, NoEmptySession,
         SilenceBound
<1>3. QED
  BY <1>1, <1>2 DEF IInv

\* A packet: the update, then a sweep (serversession.cc:103-147).
LEMMA PacketIInv ==
  ASSUME IInv, NEW p \in Ping, ReadNextPacket(p)
  PROVE  IInv'
<1>1. p.guid \in Guid /\ p.ip \in Ip /\ p.port \in Port
  BY NamesAssumption
<1>2. PICK host \in (IF hostMap[p.ip] = Nil THEN Names[p.ip] ELSE {hostMap[p.ip]}) :
        /\ hostMap' = [hostMap EXCEPT ![p.ip] = host]
        /\ ReceivePing(p, <<host, p.port>>)
  BY DEF ReadNextPacket
<1> DEFINE src == <<host, p.port>>
<1>3. host \in Host
  BY <1>1, <1>2, NamesAssumption DEF IInv, TypeOK
<1>4. src \in Source
  BY <1>1, <1>3 DEF Source
<1>5. TypeOK /\ SessionsOwned /\ published \in Reports
  BY Typed DEF IInv
<1>6. ReceivePing(p, src)
  BY <1>2
<1> HIDE DEF src
<1>7. /\ sourceMap' \in [Source -> Addr \cup {Nil}]
      /\ \E sm \in Maps : \E h \in Heaps :
           /\ Owns(sm, h)
           /\ SweepServerSessions(sm, h)
           /\ sm[p.guid] # Nil
           /\ Silence(sm, h, p.guid) = 0
           /\ LiveCount(sm, h, p.guid) = LiveCount(sessionMap, heap, p.guid) + 1
           /\ \A g \in Guid \ {p.guid} :
                /\ sm[g] = sessionMap[g]
                /\ Silence(sm, h, g) = Silence(sessionMap, heap, g)
                /\ LiveCount(sm, h, g) = LiveCount(sessionMap, heap, g)
  BY <1>4, <1>5, <1>6, PingUpdate
<1>8. PICK sm \in Maps, h \in Heaps :
           /\ Owns(sm, h)
           /\ SweepServerSessions(sm, h)
           /\ sm[p.guid] # Nil
           /\ LiveCount(sm, h, p.guid) = LiveCount(sessionMap, heap, p.guid) + 1
           /\ \A g \in Guid \ {p.guid} :
                /\ sm[g] = sessionMap[g]
                /\ LiveCount(sm, h, g) = LiveCount(sessionMap, heap, g)
  BY <1>7
<1>9. /\ sessionMap' \in Maps
      /\ heap' \in Heaps
      /\ published' \in Reports
      /\ Owns(sessionMap', heap')
      /\ \A a \in Addr : heap'[a] # Nil =>
           heap'[a] = h[a] /\ ~ (heap'[a].idle > Keepalive)
      /\ \A g \in Guid :
           published'[g].count + LiveCount(sessionMap', heap', g)
             = published[g].count + LiveCount(sm, h, g)
  BY ONLY <1>5, <1>8, SweepKeepsOwner
<1>10. /\ intervalPacketsReceived' = 1
       /\ accepted' = [accepted EXCEPT ![p.guid] = @ + 1]
       /\ timer' = timer
  BY <1>6 DEF ReadNextPacket, ReceivePing
<1>11. TypeOK'
  BY <1>1, <1>2, <1>3, <1>5, <1>7, <1>9, <1>10 DEF TypeOK, Maps, Heaps, Reports
<1>12. SessionsOwned'
  BY <1>9 DEF SessionsOwned
<1>13. PingsConserved'
  <2> SUFFICES ASSUME NEW g \in Guid
               PROVE  accepted'[g] = published'[g].count
                                     + LiveCount(sessionMap', heap', g)
    BY DEF PingsConserved, LiveCount
  <2>1. accepted[g] = published[g].count + LiveCount(sessionMap, heap, g)
    BY DEF IInv, PingsConserved
  <2>2. /\ accepted[g] \in Nat /\ published[g].count \in Nat
        /\ LiveCount(sessionMap, heap, g) \in Nat
    BY <1>5, Typed
    DEF TypeOK, Reports, LiveCount, SessionsOwned, Owns, Maps, Heaps, Session
  <2>0. published'[g].count + LiveCount(sessionMap', heap', g)
          = published[g].count + LiveCount(sm, h, g)
    BY <1>9
  <2>3. CASE g = p.guid
    <3>1. LiveCount(sm, h, g) = LiveCount(sessionMap, heap, g) + 1
      BY <1>8, <2>3
    <3>2. accepted'[g] = accepted[g] + 1
      BY <1>5, <1>10, <2>3 DEF TypeOK
    <3>3. QED
      BY ONLY <2>0, <2>1, <2>2, <3>1, <3>2
  <2>4. CASE g # p.guid
    <3>1. LiveCount(sm, h, g) = LiveCount(sessionMap, heap, g)
      BY <1>8, <2>4
    <3>2. accepted'[g] = accepted[g]
      BY <1>5, <1>10, <2>4 DEF TypeOK
    <3>3. QED
      BY ONLY <2>0, <2>1, <2>2, <3>1, <3>2
  <2>5. QED
    BY <2>3, <2>4
<1>14. NoEmptySession'
  <2> SUFFICES ASSUME NEW a \in Addr, heap'[a] # Nil PROVE heap'[a].count > 0
    BY DEF NoEmptySession
  <2> DEFINE g == heap'[a].guid
  <2>1. /\ g \in Guid /\ heap'[a] = h[a] /\ h[a] # Nil /\ a # Nil
        /\ sm[g] = a
    BY <1>8, <1>9, NilAssumption DEF Heaps, Session, Owns
  <2>2. LiveCount(sm, h, g) = heap'[a].count
    BY <2>1 DEF LiveCount
  <2>3. \A i \in Guid : LiveCount(sessionMap, heap, i) \in Nat
    BY <1>5, Typed DEF LiveCount, SessionsOwned, Owns, Maps, Heaps, Session
  <2>4. CASE g = p.guid
    BY <1>1, <1>8, <2>2, <2>3, <2>4
  <2>5. CASE g # p.guid
    <3>1. sessionMap[g] = a /\ LiveCount(sessionMap, heap, g) = heap'[a].count
      BY <1>8, <2>1, <2>2, <2>5
    <3>2. heap[a] # Nil
      BY <1>5, <2>1, <3>1 DEF SessionsOwned, Owns
    <3>3. QED
      BY <2>1, <3>1, <3>2 DEF IInv, NoEmptySession, LiveCount
  <2>6. QED
    BY <2>4, <2>5
<1>15. SilenceBound'
  <2>1. \A a \in Addr : heap'[a] # Nil => heap'[a].idle \in Nat
    BY <1>9 DEF Heaps, Session
  <2>2. timer \in Nat
    BY <1>5, KeepaliveAssumption DEF TypeOK
  <2>3. QED
    BY <1>9, <1>10, <2>1, <2>2, KeepaliveAssumption DEF SilenceBound
<1>16. QED
  BY <1>11, <1>12, <1>13, <1>14, <1>15 DEF IInv

\* The alarm: a sweep, or nothing but the reset of the packet counter
\* (serversession.cc:163-168).
LEMMA AlarmIInv ==
  ASSUME IInv, HandleAlarm
  PROVE  IInv'
<1>1. /\ sessionMap \in Maps /\ heap \in Heaps /\ published \in Reports
      /\ Owns(sessionMap, heap)
  BY Typed DEF IInv, SessionsOwned
<1>2. /\ timer = Keepalive /\ timer' = 0 /\ intervalPacketsReceived' = 0
      /\ UNCHANGED <<hostMap, sourceMap, accepted>>
  BY DEF HandleAlarm
<1>3. CASE intervalPacketsReceived = 0 /\ SweepServerSessions(sessionMap, heap)
  <2>1. /\ sessionMap' \in Maps
        /\ heap' \in Heaps
        /\ published' \in Reports
        /\ Owns(sessionMap', heap')
        /\ \A a \in Addr : heap'[a] # Nil =>
             heap'[a] = heap[a] /\ ~ (heap'[a].idle > Keepalive)
        /\ \A g \in Guid :
             published'[g].count + LiveCount(sessionMap', heap', g)
               = published[g].count + LiveCount(sessionMap, heap, g)
    BY ONLY <1>1, <1>3, SweepKeepsOwner
  <2>2. TypeOK'
    BY <1>2, <2>1, KeepaliveAssumption DEF IInv, TypeOK, Maps, Heaps, Reports
  <2>3. PingsConserved'
    BY <1>2, <2>1 DEF IInv, PingsConserved, LiveCount
  <2>4. NoEmptySession'
    BY <2>1 DEF IInv, NoEmptySession
  <2>5. SilenceBound'
    <3>1. \A a \in Addr : heap'[a] # Nil => heap'[a].idle \in Nat
      BY <2>1 DEF Heaps, Session
    <3>2. QED
      BY <1>2, <2>1, <3>1, KeepaliveAssumption DEF SilenceBound
  <2>6. QED
    BY <2>1, <2>2, <2>3, <2>4, <2>5 DEF IInv, SessionsOwned
<1>4. CASE /\ intervalPacketsReceived # 0
           /\ UNCHANGED <<sessionMap, heap, published>>
  <2>1. TypeOK'
    BY <1>2, <1>4, KeepaliveAssumption DEF IInv, TypeOK
  <2>2. SessionsOwned' /\ NoEmptySession'
    BY <1>4 DEF IInv, SessionsOwned, Owns, NoEmptySession
  <2>3. PingsConserved'
    BY <1>2, <1>4 DEF IInv, PingsConserved, LiveCount
  <2>4. SilenceBound'
    <3>1. \A a \in Addr : heap[a] # Nil => heap[a].idle \in Nat
      BY <1>1 DEF Heaps, Session
    <3>2. QED
      BY <1>2, <1>4, <3>1, KeepaliveAssumption DEF IInv, SilenceBound
  <2>5. QED
    BY <2>1, <2>2, <2>3, <2>4 DEF IInv
<1>5. QED
  BY <1>3, <1>4 DEF HandleAlarm

\* One second more for every session: what Tick changes in the heap (delay.cc:52-63).
LEMMA TickHeap ==
  ASSUME TypeOK, Tick
  PROVE  /\ heap' \in Heaps
         /\ \A a \in Addr : heap'[a] = Nil <=> heap[a] = Nil
         /\ \A a \in Addr : heap[a] # Nil =>
              /\ heap'[a].guid = heap[a].guid
              /\ heap'[a].count = heap[a].count
              /\ heap[a].idle \in Nat
              /\ heap'[a].idle = heap[a].idle + 1
<1>1. heap \in Heaps
  BY Typed
<1>2. heap' = [a \in Addr |-> IF heap[a] = Nil THEN Nil
                              ELSE [heap[a] EXCEPT !.idle = @ + 1]]
  BY DEF Tick
<1>3. ASSUME NEW s \in Session
      PROVE  /\ [s EXCEPT !.idle = @ + 1] \in Session
             /\ [s EXCEPT !.idle = @ + 1] # Nil
             /\ [s EXCEPT !.idle = @ + 1].guid = s.guid
             /\ [s EXCEPT !.idle = @ + 1].count = s.count
             /\ s.idle \in Nat
             /\ [s EXCEPT !.idle = @ + 1].idle = s.idle + 1
  <2>1. [s EXCEPT !.idle = @ + 1] \in Session
    BY DEF Session
  <2>2. QED
    BY <2>1, NilAssumption DEF Session
<1>4. ASSUME NEW a \in Addr, heap[a] # Nil
      PROVE  /\ heap'[a] \in Session
             /\ heap'[a] # Nil
             /\ heap'[a].guid = heap[a].guid
             /\ heap'[a].count = heap[a].count
             /\ heap[a].idle \in Nat
             /\ heap'[a].idle = heap[a].idle + 1
  <2>1. heap[a] \in Session
    BY <1>1, <1>4 DEF Heaps
  <2>2. heap'[a] = [heap[a] EXCEPT !.idle = @ + 1]
    BY <1>2, <1>4
  <2>3. QED
    BY ONLY <1>3, <2>1, <2>2
<1>5. \A a \in Addr : heap[a] = Nil => heap'[a] = Nil
  BY <1>2
<1>6. heap' \in Heaps
  BY <1>2, <1>4, <1>5 DEF Heaps
<1>7. QED
  BY <1>4, <1>5, <1>6

\* A second passes: nothing is reported, and the alarm has not come due
\* (delay.cc:52-63).
LEMMA TickIInv ==
  ASSUME IInv, Tick
  PROVE  IInv'
<1>1. /\ sessionMap \in Maps /\ heap \in Heaps /\ published \in Reports
      /\ Owns(sessionMap, heap)
  BY Typed DEF IInv, SessionsOwned
<1>2. /\ timer < Keepalive /\ timer' = timer + 1
      /\ UNCHANGED <<hostMap, sessionMap, sourceMap, intervalPacketsReceived,
                     accepted, published>>
  BY DEF Tick
<1>3. /\ heap' \in Heaps
      /\ \A a \in Addr : heap'[a] = Nil <=> heap[a] = Nil
      /\ \A a \in Addr : heap[a] # Nil =>
           /\ heap'[a].guid = heap[a].guid
           /\ heap'[a].count = heap[a].count
           /\ heap[a].idle \in Nat
           /\ heap'[a].idle = heap[a].idle + 1
  BY TickHeap DEF IInv
<1>4. TypeOK'
  BY <1>2, <1>3, KeepaliveAssumption DEF IInv, TypeOK, Heaps
<1>5. SessionsOwned'
  <2>1. Owns(sessionMap, heap')
    BY ONLY <1>1, <1>3, OwnsSameIds
  <2>2. QED
    BY <1>2, <2>1 DEF SessionsOwned
<1>6. PingsConserved'
  <2>1. \A g \in Guid : LiveCount(sessionMap, heap', g) = LiveCount(sessionMap, heap, g)
    BY <1>1, <1>3 DEF LiveCount, Owns, Maps
  <2>2. \A g \in Guid : accepted[g] = published[g].count + LiveCount(sessionMap, heap', g)
    BY <2>1 DEF IInv, PingsConserved
  <2>3. QED
    BY <1>2, <2>2 DEF PingsConserved, LiveCount
<1>7. NoEmptySession'
  BY <1>3 DEF IInv, NoEmptySession
<1>8. SilenceBound'
  BY <1>2, <1>3, KeepaliveAssumption DEF IInv, TypeOK, SilenceBound
<1>9. QED
  BY <1>4, <1>5, <1>6, <1>7, <1>8 DEF IInv

\* The inductive invariant of the session manager (serversession.cc:58-174).
THEOREM Invariant == Spec => []IInv
<1>1. IInv /\ [Next]_vars => IInv'
  <2> SUFFICES ASSUME IInv, [Next]_vars PROVE IInv'
    OBVIOUS
  <2>1. ASSUME NEW p \in Ping, ReadNextPacket(p) PROVE IInv'
    BY <2>1, PacketIInv
  <2>2. CASE HandleAlarm
    BY <2>2, AlarmIInv
  <2>3. CASE Tick
    BY <2>3, TickIInv
  <2>4. CASE UNCHANGED vars
    BY <2>4 DEF IInv, TypeOK, SessionsOwned, Owns, PingsConserved, LiveCount,
                NoEmptySession, SilenceBound, vars
  <2>5. QED
    BY <2>1, <2>2, <2>3, <2>4 DEF Next
<1>2. QED
  BY <1>1, InitIInv, PTL DEF Spec

\* Pointers, counters and records keep their types (serversession.h:11-44).
THEOREM TypeInvariant == Spec => []TypeOK
<1>1. IInv => TypeOK
  BY DEF IInv
<1>2. QED
  BY <1>1, Invariant, PTL

\* sessionMap owns the heap whatever sourceMap's stale pointers and the
\* allocator's reuse do: no use after free, double free or leak in a sweep
\* (serversession.cc:58-101).
THEOREM Ownership == Spec => []SessionsOwned
<1>1. IInv => SessionsOwned
  BY DEF IInv
<1>2. QED
  BY <1>1, Invariant, PTL

\* Every accepted ping is counted once, in its live session or in a report
\* (serversession.cc:76-117).
THEOREM Conservation == Spec => []PingsConserved
<1>1. IInv => PingsConserved
  BY DEF IInv
<1>2. QED
  BY <1>1, Invariant, PTL

\* No session outlives three keepalives of silence (serversession.cc:163-168),
\* for every keepalive.
THEOREM Timeliness == Spec => []ReportedInTime
<1>1. IInv => ReportedInTime
  <2> SUFFICES ASSUME IInv, NEW a \in Addr, heap[a] # Nil
               PROVE  heap[a].idle <= 3 * Keepalive
    BY DEF ReportedInTime
  <2>1. heap[a].idle \in Nat
    BY Typed DEF IInv, Heaps, Session
  <2>2. QED
    BY <2>1, KeepaliveAssumption DEF IInv, TypeOK, SilenceBound
<1>2. QED
  BY <1>1, Invariant, PTL

----------------------------------------------------------------------------
(* The session manager implements the ledger.                              *)

Reported == [g \in Guid |-> published[g].count]
Quiet == [g \in Guid |-> Silence(sessionMap, heap, g)]

\* A manager without sessions is a ledger without pings (serversession.cc:151-161).
LEMMA InitRefines == Init => Ledger!Init
BY DEF Init, Ledger!Init, Silence

\* An id with a session has a ping to report; one without has none
\* (serversession.cc:58-74).
LEMMA PendingIsResident ==
  ASSUME IInv, NEW g \in Guid
  PROVE  /\ accepted[g] \in Nat
         /\ published[g].count \in Nat
         /\ LiveCount(sessionMap, heap, g) \in Nat
         /\ accepted[g] = published[g].count + LiveCount(sessionMap, heap, g)
         /\ sessionMap[g] # Nil <=> accepted[g] > published[g].count
         /\ sessionMap[g] = Nil => Silence(sessionMap, heap, g) = 0
<1>1. /\ sessionMap \in Maps /\ heap \in Heaps /\ published \in Reports
      /\ Owns(sessionMap, heap) /\ accepted \in [Guid -> Nat]
  BY Typed DEF IInv, SessionsOwned, TypeOK
<1>2. accepted[g] \in Nat /\ published[g].count \in Nat
  BY <1>1 DEF Reports
<1>3. accepted[g] = published[g].count + LiveCount(sessionMap, heap, g)
  BY DEF IInv, PingsConserved
<1>4. sessionMap[g] # Nil =>
        LiveCount(sessionMap, heap, g) \in Nat /\ LiveCount(sessionMap, heap, g) > 0
  BY <1>1 DEF IInv, NoEmptySession, LiveCount, Owns, Maps, Heaps, Session
<1>5. sessionMap[g] = Nil =>
        LiveCount(sessionMap, heap, g) = 0 /\ Silence(sessionMap, heap, g) = 0
  BY DEF LiveCount, Silence
<1>6. QED
  BY <1>2, <1>3, <1>4, <1>5

\* A sweep of a map and a heap that agree with the current ones outside the
\* ids of S settles, in the ledger, due ids outside S (serversession.cc:76-101).
LEMMA SweepSettles ==
  ASSUME IInv, NEW sm \in Maps, NEW h \in Heaps, Owns(sm, h),
         SweepServerSessions(sm, h), NEW S \in SUBSET Guid,
         \A g \in S : Silence(sm, h, g) = 0,
         \A g \in Guid \ S :
           /\ sm[g] = sessionMap[g]
           /\ Silence(sm, h, g) = Silence(sessionMap, heap, g)
           /\ LiveCount(sm, h, g) = LiveCount(sessionMap, heap, g)
  PROVE  /\ Expired(sm, h) \in SUBSET (Ledger!Due \ S)
         /\ Reported' = [g \in Guid |->
              IF g \in Expired(sm, h) THEN accepted[g] ELSE Reported[g]]
         /\ Quiet' = [g \in Guid |->
              IF g \in Expired(sm, h) \/ g \in S THEN 0 ELSE Quiet[g]]
<1> DEFINE X == Expired(sm, h)
<1>1. published \in Reports
  BY Typed DEF IInv
<1>2. \A g \in Guid : g \in X <=> sm[g] # Nil /\ Silence(sm, h, g) > Keepalive
  BY DEF Expired, Silence
<1>3. X \subseteq Guid
  BY DEF Expired
<1>4. \A g \in Guid :
        /\ g \in X =>
             /\ published'[g].count = published[g].count + LiveCount(sm, h, g)
             /\ Silence(sessionMap', heap', g) = 0
        /\ g \notin X =>
             /\ published'[g] = published[g]
             /\ Silence(sessionMap', heap', g) = Silence(sm, h, g)
  BY <1>1, SweepById
<1> HIDE DEF X
<1>5. X \cap S = {}
  BY <1>2, <1>3, KeepaliveAssumption
<1>6. X \subseteq Ledger!Due
  <2>1. \A g \in X : g \in Guid /\ sessionMap[g] # Nil
                   /\ Silence(sessionMap, heap, g) > Keepalive
    BY <1>2, <1>3, <1>5
  <2>2. \A g \in X : accepted[g] > published[g].count
    BY <2>1, PendingIsResident
  <2>3. QED
    BY <2>1, <2>2 DEF Ledger!Due, Ledger!Pending
<1>7. Reported' = [g \in Guid |-> IF g \in X THEN accepted[g] ELSE Reported[g]]
  <2>1. \A g \in X : published'[g].count = accepted[g]
    BY <1>3, <1>4, <1>5, PendingIsResident
  <2>2. QED
    BY <1>4, <2>1 DEF Reported
<1>8. Quiet' = [g \in Guid |-> IF g \in X \/ g \in S THEN 0 ELSE Quiet[g]]
  <2>1. \A g \in Guid : Silence(sessionMap', heap', g)
                       = IF g \in X \/ g \in S THEN 0 ELSE Silence(sessionMap, heap, g)
    BY <1>4
  <2>2. Quiet' = [g \in Guid |-> Silence(sessionMap', heap', g)]
    BY DEF Quiet, Silence
  <2>3. QED
    BY <2>1, <2>2 DEF Quiet
<1>9. QED
  BY <1>5, <1>6, <1>7, <1>8 DEF X

\* A packet is an Accept of its id (serversession.cc:119-149).
LEMMA PacketRefines ==
  ASSUME IInv, NEW p \in Ping, ReadNextPacket(p)
  PROVE  Ledger!Accept(p.guid)
<1>1. p.guid \in Guid /\ p.ip \in Ip /\ p.port \in Port
  BY NamesAssumption
<1>2. PICK host \in (IF hostMap[p.ip] = Nil THEN Names[p.ip] ELSE {hostMap[p.ip]}) :
        ReceivePing(p, <<host, p.port>>)
  BY DEF ReadNextPacket
<1> DEFINE src == <<host, p.port>>
<1>3. host \in Host
  BY <1>1, <1>2, NamesAssumption DEF IInv, TypeOK
<1>4. src \in Source /\ ReceivePing(p, src)
  BY <1>1, <1>2, <1>3 DEF Source
<1> HIDE DEF src
<1>5. \E sm \in Maps : \E h \in Heaps :
           /\ Owns(sm, h)
           /\ SweepServerSessions(sm, h)
           /\ sm[p.guid] # Nil
           /\ Silence(sm, h, p.guid) = 0
           /\ LiveCount(sm, h, p.guid) = LiveCount(sessionMap, heap, p.guid) + 1
           /\ \A g \in Guid \ {p.guid} :
                /\ sm[g] = sessionMap[g]
                /\ Silence(sm, h, g) = Silence(sessionMap, heap, g)
                /\ LiveCount(sm, h, g) = LiveCount(sessionMap, heap, g)
  BY <1>4, PingUpdate DEF IInv
<1>6. PICK sm \in Maps, h \in Heaps :
           /\ Owns(sm, h)
           /\ SweepServerSessions(sm, h)
           /\ Silence(sm, h, p.guid) = 0
           /\ \A g \in Guid \ {p.guid} :
                /\ sm[g] = sessionMap[g]
                /\ Silence(sm, h, g) = Silence(sessionMap, heap, g)
                /\ LiveCount(sm, h, g) = LiveCount(sessionMap, heap, g)
  BY <1>5
<1> DEFINE X == Expired(sm, h)
<1>7. /\ X \in SUBSET (Ledger!Due \ {p.guid})
      /\ Reported' = [g \in Guid |-> IF g \in X THEN accepted[g] ELSE Reported[g]]
      /\ Quiet' = [g \in Guid |->
           IF g \in X \/ g \in {p.guid} THEN 0 ELSE Quiet[g]]
  <2> DEFINE S == {p.guid}
  <2>1. /\ S \in SUBSET Guid
        /\ \A g \in S : Silence(sm, h, g) = 0
        /\ \A g \in Guid \ S :
             /\ sm[g] = sessionMap[g]
             /\ Silence(sm, h, g) = Silence(sessionMap, heap, g)
             /\ LiveCount(sm, h, g) = LiveCount(sessionMap, heap, g)
    BY <1>1, <1>6
  <2> HIDE DEF S
  <2>2. /\ Expired(sm, h) \in SUBSET (Ledger!Due \ S)
        /\ Reported' = [g \in Guid |->
             IF g \in Expired(sm, h) THEN accepted[g] ELSE Reported[g]]
        /\ Quiet' = [g \in Guid |->
             IF g \in Expired(sm, h) \/ g \in S THEN 0 ELSE Quiet[g]]
    BY ONLY <1>6, <2>1, IInv, SweepSettles, sm \in Maps, h \in Heaps
  <2>3. QED
    BY <2>2 DEF S
<1> HIDE DEF X
<1>8. accepted' = [accepted EXCEPT ![p.guid] = @ + 1]
  BY <1>4 DEF ReceivePing
<1>9. Quiet' = [g \in Guid |-> IF g \in X \/ g = p.guid THEN 0 ELSE Quiet[g]]
  BY <1>7
<1>10. QED
  BY <1>7, <1>8, <1>9 DEF Ledger!Accept, Ledger!Settle, Reported, Quiet

\* An alarm is a Report, or changes nothing in the ledger (serversession.cc:163-174).
LEMMA AlarmRefines ==
  ASSUME IInv, HandleAlarm
  PROVE  Ledger!Report \/ UNCHANGED Ledger!vars
<1>1. accepted' = accepted
  BY DEF HandleAlarm
<1>2. CASE SweepServerSessions(sessionMap, heap)
  <2> DEFINE X == Expired(sessionMap, heap)
  <2>1. sessionMap \in Maps /\ heap \in Heaps /\ Owns(sessionMap, heap)
    BY Typed DEF IInv, SessionsOwned
  <2> DEFINE S == {}
  <2>2. /\ S \in SUBSET Guid
        /\ \A g \in S : Silence(sessionMap, heap, g) = 0
        /\ \A g \in Guid \ S :
             /\ sessionMap[g] = sessionMap[g]
             /\ Silence(sessionMap, heap, g) = Silence(sessionMap, heap, g)
             /\ LiveCount(sessionMap, heap, g) = LiveCount(sessionMap, heap, g)
    OBVIOUS
  <2> HIDE DEF S
  <2>3. /\ X \in SUBSET (Ledger!Due \ S)
        /\ Reported' = [g \in Guid |-> IF g \in X THEN accepted[g] ELSE Reported[g]]
        /\ Quiet' = [g \in Guid |-> IF g \in X \/ g \in S THEN 0 ELSE Quiet[g]]
    <3>1. ASSUME NEW sm \in Maps, NEW h \in Heaps, sm = sessionMap, h = heap
          PROVE  /\ Expired(sm, h) \in SUBSET (Ledger!Due \ S)
                 /\ Reported' = [g \in Guid |->
                      IF g \in Expired(sm, h) THEN accepted[g] ELSE Reported[g]]
                 /\ Quiet' = [g \in Guid |->
                      IF g \in Expired(sm, h) \/ g \in S THEN 0 ELSE Quiet[g]]
      <4>1. /\ Owns(sm, h) /\ SweepServerSessions(sm, h)
            /\ \A g \in S : Silence(sm, h, g) = 0
            /\ \A g \in Guid \ S :
                 /\ sm[g] = sessionMap[g]
                 /\ Silence(sm, h, g) = Silence(sessionMap, heap, g)
                 /\ LiveCount(sm, h, g) = LiveCount(sessionMap, heap, g)
        BY <1>2, <2>1, <2>2, <3>1
      <4>2. QED
        BY ONLY <2>2, <4>1, IInv, SweepSettles, sm \in Maps, h \in Heaps
    <3>2. QED
      BY <2>1, <3>1
  <2> HIDE DEF X
  <2>4. /\ X \in SUBSET Ledger!Due
        /\ Quiet' = [g \in Guid |-> IF g \in X THEN 0 ELSE Quiet[g]]
    BY <2>3 DEF S
  <2>5. Ledger!Report
    BY <1>1, <2>3, <2>4 DEF Ledger!Report, Ledger!Settle, Reported, Quiet
  <2>6. QED
    BY <2>5
<1>3. CASE UNCHANGED <<sessionMap, heap, published>>
  BY <1>1, <1>3 DEF Ledger!vars, Silence
<1>4. QED
  BY <1>2, <1>3 DEF HandleAlarm

\* A second on the server's clock is a second of the ledger, and is never let
\* pass with an id silent for three keepalives (serversession.cc:82, :163-174).
LEMMA TickRefines ==
  ASSUME IInv, Tick
  PROVE  Ledger!Second
<1>1. /\ sessionMap \in Maps /\ heap \in Heaps /\ Owns(sessionMap, heap)
      /\ timer < Keepalive /\ timer \in Nat
      /\ intervalPacketsReceived \in {0, 1}
  BY Typed, KeepaliveAssumption DEF IInv, SessionsOwned, TypeOK, Tick
<1>2. UNCHANGED <<sessionMap, accepted, published>>
  BY DEF Tick
<1>3. \A a \in Addr : heap[a] # Nil =>
        /\ heap[a].idle \in Nat
        /\ heap'[a].idle = heap[a].idle + 1
  BY TickHeap DEF IInv
<1>4. \A g \in Ledger!Pending :
        g \in Guid /\ sessionMap[g] \in Addr /\ heap[sessionMap[g]] # Nil
  BY <1>1, PendingIsResident DEF Ledger!Pending, Owns, Maps
<1>5. \A g \in Ledger!Pending : Quiet[g] < 3 * Keepalive
  <2> SUFFICES ASSUME NEW g \in Ledger!Pending PROVE Quiet[g] < 3 * Keepalive
    OBVIOUS
  <2> DEFINE s == heap[sessionMap[g]]
  <2>1. s.idle <= timer + (IF intervalPacketsReceived = 0 THEN 2 * Keepalive
                                                          ELSE Keepalive)
    BY <1>4 DEF IInv, SilenceBound
  <2>2. s.idle \in Nat
    BY <1>3, <1>4
  <2>3. s.idle < 3 * Keepalive
    BY <1>1, <2>1, <2>2, KeepaliveAssumption
  <2>4. Quiet[g] = s.idle
    BY <1>4, NilAssumption DEF Quiet, Silence
  <2>5. QED
    BY <2>3, <2>4
<1>6. Quiet' = [g \in Guid |-> IF g \in Ledger!Pending THEN Quiet[g] + 1 ELSE Quiet[g]]
  <2>1. ASSUME NEW g \in Guid
        PROVE  Silence(sessionMap, heap', g)
                 = IF g \in Ledger!Pending THEN Quiet[g] + 1 ELSE Quiet[g]
    <3>1. CASE g \in Ledger!Pending
      BY <1>3, <1>4, <3>1, NilAssumption DEF Quiet, Silence
    <3>2. CASE g \notin Ledger!Pending
      <4>1. sessionMap[g] = Nil
        BY <3>2, PendingIsResident DEF Ledger!Pending
      <4>2. QED
        BY <3>2, <4>1 DEF Quiet, Silence
    <3>3. QED
      BY <3>1, <3>2
  <2>2. Quiet' = [g \in Guid |-> Silence(sessionMap, heap', g)]
    BY <1>2 DEF Quiet, Silence
  <2>3. QED
    BY <2>1, <2>2
<1>7. QED
  BY <1>2, <1>5, <1>6 DEF Ledger!Second, Quiet

\* Every behaviour of the session manager is one of the ledger: a ping is
\* reported exactly once, after a silence of more than the keepalive and before
\* time passes the limit (serversession.cc:58-117, 163-168).
THEOREM Refinement == Spec => LedgerSpec
<1>1. Init => Ledger!Init
  BY InitRefines
<1>2. IInv /\ [Next]_vars => [Ledger!Next]_Ledger!vars
  <2> SUFFICES ASSUME IInv, [Next]_vars
               PROVE  Ledger!Next \/ UNCHANGED Ledger!vars
    OBVIOUS
  <2>1. ASSUME NEW p \in Ping, ReadNextPacket(p) PROVE Ledger!Next
    <3>1. p.guid \in Guid
      BY NamesAssumption
    <3>2. QED
      BY <2>1, <3>1, PacketRefines DEF Ledger!Next
  <2>2. CASE HandleAlarm
    BY <2>2, AlarmRefines DEF Ledger!Next
  <2>3. CASE Tick
    BY <2>3, TickRefines DEF Ledger!Next
  <2>4. CASE UNCHANGED vars
    BY <2>4 DEF vars, Ledger!vars, Silence
  <2>5. QED
    BY <2>1, <2>2, <2>3, <2>4 DEF Next
<1>3. QED
  BY <1>1, <1>2, Invariant, PTL DEF Spec, LedgerSpec, Ledger!Spec
=============================================================================
