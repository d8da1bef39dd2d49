---------------------------- MODULE ServerProofs ----------------------------
(***************************************************************************)
(* Proofs about the server program step by step, with the signal handler   *)
(* between any two steps, for every set of sources, ids and addresses,     *)
(* every command line, and every keepalive longer than a packet takes.     *)
(*                                                                         *)
(* The argument: a packet is counted before anything is looked up, so an   *)
(* alarm that comes while it is dealt with does not sweep, and sets the    *)
(* counter back to zero; the next alarm, which would sweep, is a keepalive *)
(* away, and by then the packet is done (AlarmAway).  So the pointer that  *)
(* receivePing holds and the iterator of its sweep stay good, and a sweep  *)
(* by the handler only ever happens between packets, where the lemmas of   *)
(* ServerSessionsProofs apply to it as they are.                           *)
(***************************************************************************)
EXTENDS Server, ServerSessionsProofs

\* A packet has been counted and is not done.
InPacket == pc \in {"find", "record", "begin", "sweep", "free"}

\* Where the program is, and what it holds there.
ControlOK ==
  /\ pc \in {"start", "bind", "exited", "wait", "count"} \/ InPacket
  /\ busy \in 0 .. MaxBusy
  /\ pc \in {"count", "find", "record"} => ph \in Ping
  /\ pc \in {"count", "find"} => hostMap[ph.ip] \in Host
  /\ pc = "record" => ds \in Addr /\ sessionMap[ph.guid] = ds
  /\ pc = "sweep" => it \in Resident \cup {Nil}
  /\ pc = "free" => it \in Resident
  /\ pc \in {"sweep", "free"} => now \in 0 .. busy

\* While a packet is dealt with, either no alarm has come since it was counted or
\* one has, and the next is still away.
AlarmAway ==
  InPacket => IF intervalPacketsReceived = 0 THEN timer <= busy ELSE busy <= timer

\* A session has counted a ping, but for the one being made.
CountedOnce ==
  \A a \in Addr : heap[a] # Nil => heap[a].count > 0 \/ (pc = "record" /\ a = ds)

\* How long a session can have been silent, by the state of the alarm and whether
\* the sweep of a packet is still to come.
Quietest ==
  (IF InPacket THEN Keepalive ELSE 0)
    + (IF intervalPacketsReceived = 0 THEN 2 * Keepalive ELSE Keepalive)

SilentFor == \A a \in Addr : heap[a] # Nil => heap[a].idle <= timer + Quietest

\* The sessions the sweep has passed are heard from within the keepalive, by the
\* clock it has read.
SweptSoFar ==
  pc \in {"sweep", "free"} =>
    \A g \in Resident :
      it = Nil \/ g < it => heap[sessionMap[g]].idle <= Keepalive + now

ServerInv ==
  /\ TypeOK
  /\ SessionsOwned
  /\ ControlOK
  /\ AlarmAway
  /\ PingsAccounted
  /\ CountedOnce
  /\ SilentFor
  /\ SweptSoFar

----------------------------------------------------------------------------
(* Between packets the invariant of the session manager holds.             *)

\* Between packets the invariant of the session manager holds, so that its lemmas
\* apply to an alarm delivered there (serversession.cc:163-174).
LEMMA BetweenPackets ==
  ASSUME ServerInv, ~ InPacket
  PROVE  IInv
<1>1. PingsConserved
  BY DEF ServerInv, InPacket, PingsAccounted, PingsConserved
<1>2. NoEmptySession
  BY DEF ServerInv, InPacket, CountedOnce, NoEmptySession
<1>3. SilenceBound
  BY KeepaliveAssumption DEF ServerInv, SilentFor, Quietest, SilenceBound
<1>4. QED
  BY <1>1, <1>2, <1>3 DEF ServerInv, IInv

\* Before the program starts it holds nothing (server.cc:21-38).
LEMMA InitServerInv == ServerInit => ServerInv
<1> SUFFICES ASSUME ServerInit PROVE ServerInv
  OBVIOUS
<1>1. IInv
  BY InitIInv DEF ServerInit
<1>2. pc = "start" /\ ~ InPacket
  BY DEF ServerInit, InPacket
<1>3. ControlOK
  BY <1>2, BusyAssumption DEF ServerInit, ControlOK
<1>4. AlarmAway /\ SweptSoFar
  BY <1>2 DEF AlarmAway, SweptSoFar
<1>5. PingsAccounted
  BY <1>1, <1>2 DEF IInv, PingsAccounted, PingsConserved
<1>6. CountedOnce
  BY <1>1 DEF IInv, CountedOnce, NoEmptySession
<1>7. SilentFor
  BY <1>1, <1>2, KeepaliveAssumption DEF IInv, SilentFor, SilenceBound, Quietest
<1>8. QED
  BY <1>1, <1>3, <1>4, <1>5, <1>6, <1>7 DEF IInv, ServerInv

\* A step that ends between packets with the invariant of the session manager
\* has the server's (server.cc:86-95).
LEMMA BackBetweenPackets ==
  ASSUME IInv', pc' \in {"start", "bind", "exited", "wait", "count"},
         busy' \in 0 .. MaxBusy,
         pc' = "count" => ph' \in Ping /\ hostMap'[ph'.ip] \in Host
  PROVE  ServerInv'
<1>1. ~ InPacket'
  BY DEF InPacket
<1>2. ControlOK'
  BY <1>1 DEF ControlOK
<1>3. AlarmAway' /\ SweptSoFar'
  BY <1>1 DEF AlarmAway, SweptSoFar, InPacket
<1>4. PingsAccounted'
  BY DEF IInv, PingsAccounted, PingsConserved
<1>5. CountedOnce'
  BY DEF IInv, CountedOnce, NoEmptySession
<1>6. SilentFor'
  BY <1>1, KeepaliveAssumption DEF IInv, SilentFor, SilenceBound, Quietest
<1>7. QED
  BY <1>2, <1>3, <1>4, <1>5, <1>6 DEF IInv, ServerInv

\* Neither the manager nor the alarm is touched.
Untouched ==
  UNCHANGED <<hostMap, sessionMap, sourceMap, heap, intervalPacketsReceived, timer,
              accepted, published>>

\* A step that touches neither the manager nor the alarm keeps their invariant
\* (serversession.cc:76-101).
LEMMA UntouchedIInv ==
  ASSUME IInv, Untouched
  PROVE  IInv'
BY DEF Untouched, IInv, TypeOK, SessionsOwned, Owns, PingsConserved, LiveCount,
       NoEmptySession, SilenceBound

\* The start of the program, and its end (server.cc:60-86).
LEMMA StartInv ==
  ASSUME ServerInv, Start \/ Bind \/ GiveUp
  PROVE  ServerInv'
<1>1. /\ pc \in {"start", "bind"} /\ pc' \in {"bind", "wait", "exited"}
      /\ Untouched /\ busy' = busy
  BY DEF Start, Bind, GiveUp, Untouched, maps, counts
<1>2. IInv
  BY <1>1, BetweenPackets DEF InPacket
<1>3. IInv'
  BY <1>1, <1>2, UntouchedIInv
<1>4. QED
  BY <1>1, <1>3, BackBetweenPackets DEF ServerInv, ControlOK

\* A packet arrives and its source has a name (serversession.cc:119-147).
LEMMA ReadPacketInv ==
  ASSUME ServerInv, NEW p \in Ping, ReadPacket(p)
  PROVE  ServerInv'
<1>1. /\ pc = "wait" /\ pc' = "count" /\ ph' = p /\ busy' = busy
      /\ UNCHANGED <<sessionMap, sourceMap, heap, intervalPacketsReceived, timer,
                     accepted, published>>
  BY DEF ReadPacket, counts
<1>2. PICK host \in (IF hostMap[p.ip] = Nil THEN Names[p.ip] ELSE {hostMap[p.ip]}) :
        hostMap' = [hostMap EXCEPT ![p.ip] = host]
  BY DEF ReadPacket
<1>3. p.ip \in Ip /\ hostMap \in [Ip -> Host \cup {Nil}]
  BY NamesAssumption DEF ServerInv, TypeOK
<1>4. host \in Host
  BY <1>2, <1>3, NamesAssumption
<1>5. hostMap' \in [Ip -> Host \cup {Nil}] /\ hostMap'[p.ip] = host
  BY <1>2, <1>3, <1>4
<1>6. IInv
  BY <1>1, BetweenPackets DEF InPacket
<1>7. IInv'
  BY <1>1, <1>5, <1>6 DEF IInv, TypeOK, SessionsOwned, Owns, PingsConserved, LiveCount,
                          NoEmptySession, SilenceBound
<1>8. QED
  BY <1>1, <1>4, <1>5, <1>7, BackBetweenPackets DEF ServerInv, ControlOK

\* From here on an alarm does not sweep (serversession.cc:104).
LEMMA CountInv ==
  ASSUME ServerInv, Count
  PROVE  ServerInv'
<1>1. /\ pc = "count" /\ pc' = "find" /\ intervalPacketsReceived' = 1 /\ busy' = 0
      /\ UNCHANGED <<hostMap, sessionMap, sourceMap, heap, timer, accepted, published, ph>>
  BY DEF Count, maps, counts, locals
<1>2. TypeOK' /\ SessionsOwned'
  BY <1>1 DEF ServerInv, TypeOK, SessionsOwned, Owns
<1>3. ControlOK' /\ SweptSoFar'
  BY <1>1, BusyAssumption DEF ServerInv, ControlOK, InPacket, SweptSoFar
<1>4. AlarmAway'
  BY <1>1 DEF ServerInv, TypeOK, AlarmAway
<1>5. PingsAccounted' /\ CountedOnce'
  BY <1>1 DEF ServerInv, PingsAccounted, LiveCount, CountedOnce
<1>6. SilentFor'
  <2>1. Quietest' >= Quietest /\ Quietest \in Nat /\ Quietest' \in Nat
    BY <1>1, KeepaliveAssumption DEF Quietest, InPacket, ServerInv, TypeOK
  <2>2. \A a \in Addr : heap[a] # Nil => heap[a].idle \in Nat
    BY DEF ServerInv, TypeOK, Session
  <2>3. QED
    BY <1>1, <2>1, <2>2 DEF ServerInv, TypeOK, SilentFor
<1>7. QED
  BY <1>2, <1>3, <1>4, <1>5, <1>6 DEF ServerInv

\* The constructor, with an arrival longer ago than any keepalive
\* (serversession.cc:21-28, :62).
LEMMA NewcomerTyped ==
  ASSUME NEW p \in Ping, NEW src \in Source
  PROVE  LET n == [NewSession(p, src) EXCEPT !.idle = Keepalive + 1]
         IN  /\ n \in Session
             /\ n.guid = p.guid
             /\ n.count = 0
             /\ n.idle = Keepalive + 1
<1>1. p \in [ip : Ip, port : Port, guid : Guid, startTime : StartTime, seqNum : Seqnum]
  BY NamesAssumption
<1>2. Keepalive + 1 \in Nat
  BY KeepaliveAssumption
<1>3. [NewSession(p, src) EXCEPT !.idle = Keepalive + 1]
        = [guid |-> p.guid, source |-> src, startTime |-> p.startTime,
           successor |-> Nil, idle |-> Keepalive + 1,
           minSeq |-> p.seqNum, maxSeq |-> p.seqNum, count |-> 0]
  BY DEF NewSession
<1>4. QED
  BY <1>1, <1>2, <1>3 DEF Session

\* The session of a packet is found, or made and linked; a sweep would find the new
\* one expired, so no ping may count on it yet (serversession.cc:58-74).
LEMMA GetServerSessionInv ==
  ASSUME ServerInv, GetServerSession
  PROVE  ServerInv'
<1>1. /\ pc = "find" /\ pc' = "record"
      /\ UNCHANGED <<hostMap, intervalPacketsReceived, timer, accepted, published, ph, it,
                     now, busy>>
  BY DEF GetServerSession, counts
<1>2. /\ ph \in Ping /\ ph.guid \in Guid /\ ph.ip \in Ip /\ ph.port \in Port
      /\ hostMap[ph.ip] \in Host
  BY <1>1, NamesAssumption DEF ServerInv, ControlOK
<1>3. /\ sessionMap \in Maps /\ heap \in Heaps /\ Owns(sessionMap, heap)
      /\ sourceMap \in [Source -> Addr \cup {Nil}]
  BY Typed DEF ServerInv, SessionsOwned, TypeOK
<1>4. AlarmAway' /\ SweptSoFar'
  BY <1>1 DEF ServerInv, AlarmAway, SweptSoFar, InPacket
<1>5. Quietest' = Quietest /\ Quietest \in Nat /\ Quietest >= Keepalive + 1
  BY <1>1, KeepaliveAssumption DEF Quietest, InPacket
<1>6. timer \in Nat /\ timer' = timer
  BY <1>1, KeepaliveAssumption DEF ServerInv, TypeOK
<1>7. CASE /\ sessionMap[ph.guid] # Nil
           /\ ds' = sessionMap[ph.guid]
           /\ UNCHANGED <<sessionMap, sourceMap, heap>>
  <2>1. TypeOK' /\ SessionsOwned'
    BY <1>1, <1>7 DEF ServerInv, TypeOK, SessionsOwned, Owns
  <2>2. ds' \in Addr
    BY <1>2, <1>3, <1>7 DEF Maps
  <2>3. ControlOK'
    BY <1>1, <1>2, <1>7, <2>2 DEF ServerInv, ControlOK, InPacket
  <2>4. PingsAccounted' /\ CountedOnce'
    BY <1>1, <1>7 DEF ServerInv, PingsAccounted, LiveCount, CountedOnce
  <2>5. SilentFor'
    BY <1>5, <1>6, <1>7 DEF ServerInv, SilentFor
  <2>6. QED
    BY <1>4, <2>1, <2>3, <2>4, <2>5 DEF ServerInv
<1>8. CASE /\ sessionMap[ph.guid] = Nil
           /\ \E a \in FreeAddrs :
                LET src == <<hostMap[ph.ip], ph.port>>
                    new == [NewSession(ph, src) EXCEPT !.idle = Keepalive + 1]
                IN  /\ heap' = Linked([heap EXCEPT ![a] = new], sourceMap[src], ph)
                    /\ sessionMap' = [sessionMap EXCEPT ![ph.guid] = a]
                    /\ sourceMap' = [sourceMap EXCEPT ![src] = a]
                    /\ ds' = a
  <2> DEFINE src == <<hostMap[ph.ip], ph.port>>
             new == [NewSession(ph, src) EXCEPT !.idle = Keepalive + 1]
  <2>1. PICK a \in FreeAddrs :
          /\ heap' = Linked([heap EXCEPT ![a] = new], sourceMap[src], ph)
          /\ sessionMap' = [sessionMap EXCEPT ![ph.guid] = a]
          /\ sourceMap' = [sourceMap EXCEPT ![src] = a]
          /\ ds' = a
    BY <1>8
  <2> DEFINE created == [heap EXCEPT ![a] = new]
  <2>2. src \in Source
    BY <1>2 DEF Source
  <2>3. /\ new \in Session /\ new.guid = ph.guid /\ new.count = 0
        /\ new.idle = Keepalive + 1
    BY <1>2, <2>2, NewcomerTyped
  <2> HIDE DEF new, src
  <2>4. a \in Addr /\ heap[a] = Nil /\ new # Nil
    BY <2>3, NilAssumption DEF FreeAddrs
  <2>5. created \in Heaps /\ created[a] = new /\ \A b \in Addr \ {a} : created[b] = heap[b]
    BY <1>3, <2>3, <2>4 DEF Heaps
  <2>6. /\ sessionMap' \in Maps /\ sessionMap'[new.guid] = a
        /\ \A g \in Guid \ {new.guid} : sessionMap'[g] = sessionMap[g]
    BY <1>2, <1>3, <2>1, <2>3, <2>4 DEF Maps
  <2> HIDE DEF created
  <2>7. /\ Owns(sessionMap', created)
        /\ \A g \in Guid : LiveCount(sessionMap', created, g) = LiveCount(sessionMap, heap, g)
    <3>1. sessionMap[new.guid] = Nil
      BY <1>8, <2>3
    <3>2. QED
      BY ONLY <1>3, <2>3, <2>4, <2>5, <2>6, <3>1, CreateKeepsOwner
  <2>8. heap' = Linked(created, sourceMap[src], ph) /\ sourceMap[src] \in Addr \cup {Nil}
    BY <1>3, <2>1, <2>2 DEF created
  <2>9. /\ heap' \in Heaps /\ Owns(sessionMap', heap')
        /\ \A g \in Guid :
             LiveCount(sessionMap', heap', g) = LiveCount(sessionMap', created, g)
    BY ONLY <1>2, <2>5, <2>6, <2>7, <2>8, LinkKeepsOwner
  <2>10. /\ \A b \in Addr : created[b] = Nil <=> heap'[b] = Nil
         /\ \A b \in Addr : created[b] # Nil =>
              heap'[b].count = created[b].count /\ heap'[b].idle = created[b].idle
    BY ONLY <1>2, <2>5, <2>8, LinkedHeap
  <2>11. TypeOK' /\ SessionsOwned'
    <3>1. sourceMap' \in [Source -> Addr \cup {Nil}]
      BY <1>3, <2>1, <2>2, <2>4
    <3>2. QED
      BY <1>1, <2>6, <2>9, <3>1 DEF ServerInv, TypeOK, SessionsOwned, Maps, Heaps
  <2>12. ControlOK'
    BY <1>1, <1>2, <2>1, <2>3, <2>4, <2>6 DEF ServerInv, ControlOK, InPacket
  <2>13. PingsAccounted'
    BY <1>1, <2>7, <2>9 DEF ServerInv, PingsAccounted
  <2>14. CountedOnce'
    <3>1. ASSUME NEW b \in Addr, heap'[b] # Nil, b # a PROVE heap'[b].count > 0
      <4>1. created[b] # Nil /\ heap[b] = created[b] /\ heap'[b].count = created[b].count
        BY <2>5, <2>10, <3>1
      <4>2. heap[b].count > 0
        BY <1>1, <4>1 DEF ServerInv, CountedOnce
      <4>3. QED
        BY <4>1, <4>2
    <3>2. QED
      BY <1>1, <2>1, <3>1 DEF CountedOnce
  <2>15. SilentFor'
    <3>1. ASSUME NEW b \in Addr, heap'[b] # Nil PROVE heap'[b].idle <= timer + Quietest
      <4>1. created[b] # Nil /\ heap'[b].idle = created[b].idle
        BY <2>10, <3>1
      <4>2. CASE b = a
        BY <1>5, <1>6, <2>3, <2>5, <4>1, <4>2, KeepaliveAssumption
      <4>3. CASE b # a
        BY <2>5, <4>1, <4>3 DEF ServerInv, SilentFor
      <4>4. QED
        BY <4>2, <4>3
    <3>2. QED
      BY <1>5, <1>6, <3>1 DEF SilentFor
  <2>16. QED
    BY <1>4, <2>11, <2>12, <2>13, <2>14, <2>15 DEF ServerInv
<1>9. QED
  BY <1>7, <1>8 DEF GetServerSession

\* The ping is counted in the session that was found for it, and no other changes
\* (serversession.cc:105-115).
LEMMA RecordInv ==
  ASSUME ServerInv, Record
  PROVE  ServerInv'
<1>1. /\ pc = "record" /\ pc' = "begin"
      /\ heap' = [heap EXCEPT ![ds] = Recorded(heap[ds], ph)]
      /\ accepted' = [accepted EXCEPT ![ph.guid] = accepted[ph.guid] + 1]
      /\ UNCHANGED <<hostMap, sessionMap, sourceMap, intervalPacketsReceived, timer,
                     published, it, now, busy>>
  BY DEF Record, maps
<1>2. /\ ph \in Ping /\ ph.guid \in Guid
      /\ ds \in Addr /\ sessionMap[ph.guid] = ds /\ ds # Nil
  BY <1>1, NamesAssumption, NilAssumption DEF ServerInv, ControlOK
<1>3. /\ sessionMap \in Maps /\ heap \in Heaps /\ Owns(sessionMap, heap)
      /\ accepted \in [Guid -> Nat] /\ published \in Reports
      /\ timer \in Nat
  BY Typed, KeepaliveAssumption DEF ServerInv, SessionsOwned, TypeOK
<1>4. heap[ds] # Nil /\ heap[ds] \in Session
  BY <1>2, <1>3 DEF Owns, Maps, Heaps
<1>5. heap' \in Heaps
  BY <1>1, <1>2, <1>3, <1>4, RecordHeap
<1>6. /\ heap'[ds] = Recorded(heap[ds], ph)
      /\ \A a \in Addr : a # ds => heap'[a] = heap[a]
  BY <1>1, <1>2, <1>3 DEF Heaps
<1>7. /\ Owns(sessionMap, heap')
      /\ LiveCount(sessionMap, heap', ph.guid) = LiveCount(sessionMap, heap, ph.guid) + 1
      /\ \A g \in Guid \ {ph.guid} :
           LiveCount(sessionMap, heap', g) = LiveCount(sessionMap, heap, g)
  BY ONLY <1>2, <1>3, <1>5, <1>6, RecordKeepsOwner
<1>8. /\ heap'[ds].idle = 0
      /\ heap'[ds].count = heap[ds].count + 1
      /\ heap[ds].count \in Nat
  BY <1>2, <1>4, <1>6, RecordedSession DEF Session
<1>9. TypeOK' /\ SessionsOwned'
  <2>1. accepted' \in [Guid -> Nat]
    BY <1>1, <1>2, <1>3
  <2>2. QED
    BY <1>1, <1>5, <1>7, <2>1 DEF ServerInv, TypeOK, SessionsOwned, Heaps
<1>10. ControlOK' /\ AlarmAway' /\ SweptSoFar'
  BY <1>1 DEF ServerInv, ControlOK, AlarmAway, SweptSoFar, InPacket
<1>11. PingsAccounted'
  <2>1. ASSUME NEW g \in Guid
        PROVE  accepted'[g] = published[g].count + LiveCount(sessionMap, heap', g)
    <3>1. /\ accepted[g] = published[g].count + LiveCount(sessionMap, heap, g)
          /\ published[g].count \in Nat /\ LiveCount(sessionMap, heap, g) \in Nat
      BY <1>1, <1>3 DEF ServerInv, PingsAccounted, Reports, LiveCount, Owns, Maps, Heaps,
                        Session
    <3>2. CASE g = ph.guid
      BY <1>1, <1>3, <1>7, <3>1, <3>2
    <3>3. CASE g # ph.guid
      BY <1>1, <1>3, <1>7, <3>1, <3>3
    <3>4. QED
      BY <3>2, <3>3
  <2>2. QED
    BY <1>1, <2>1 DEF PingsAccounted
<1>12. CountedOnce'
  BY <1>1, <1>6, <1>8 DEF ServerInv, CountedOnce
<1>13. SilentFor'
  <2>1. Quietest' = Quietest /\ Quietest \in Nat
    BY <1>1, KeepaliveAssumption DEF Quietest, InPacket
  <2>2. QED
    BY <1>1, <1>3, <1>6, <1>8, <2>1 DEF ServerInv, SilentFor
<1>14. QED
  BY <1>9, <1>10, <1>11, <1>12, <1>13 DEF ServerInv

----------------------------------------------------------------------------
(* The sweep, session by session.                                          *)

\* The iterator goes to the next id of the map, or to its end
\* (serversession.cc:79).
LEMMA FromFirst ==
  ASSUME NEW g \in Nat
  PROVE  /\ From(g) \in Resident \cup {Nil}
         /\ From(g) = Nil => \A h \in Resident : h < g
         /\ From(g) # Nil => From(g) >= g /\ \A h \in Resident : h >= g => From(g) <= h
<1> DEFINE rest == {h \in Resident : h >= g}
           first == CHOOSE h \in rest : \A k \in rest : h <= k
<1>1. Resident \subseteq Nat /\ Nil \notin Resident
  BY NamesAssumption, NilAssumption DEF Resident
<1>2. From(g) = IF rest = {} THEN Nil ELSE first
  BY DEF From
<1>3. CASE rest = {}
  BY <1>1, <1>2, <1>3
<1>4. CASE rest # {}
  <2>1. \E h \in rest : \A k \in rest : h <= k
    BY <1>1, <1>4, LeastNumber
  <2>2. first \in rest /\ \A k \in rest : first <= k
    BY <2>1
  <2>3. QED
    BY <1>1, <1>2, <1>4, <2>2
<1>5. QED
  BY <1>3, <1>4

\* A step of the sweep that changes neither the map nor the heap
\* (serversession.cc:79-100).
LEMMA SweepAlong ==
  ASSUME ServerInv, InPacket, pc # "record", pc # "free",
         pc' \in {"begin", "sweep"},
         pc' = "sweep" => it' \in Resident \cup {Nil} /\ now' \in 0 .. busy,
         SweptSoFar', Untouched, busy' = busy
  PROVE  ServerInv'
<1>1. UNCHANGED <<hostMap, sessionMap, sourceMap, heap, intervalPacketsReceived, timer,
                  accepted, published>>
  BY DEF Untouched
<1>2. InPacket'
  BY DEF InPacket
<1>3. TypeOK' /\ SessionsOwned'
  BY <1>1 DEF ServerInv, TypeOK, SessionsOwned, Owns
<1>4. ControlOK'
  BY <1>1, <1>2 DEF ServerInv, ControlOK, Resident
<1>5. AlarmAway'
  BY <1>1, <1>2 DEF ServerInv, AlarmAway
<1>6. PingsAccounted' /\ CountedOnce'
  BY <1>1 DEF ServerInv, PingsAccounted, LiveCount, CountedOnce
<1>7. SilentFor'
  BY <1>1, <1>2 DEF ServerInv, SilentFor, Quietest
<1>8. QED
  BY <1>3, <1>4, <1>5, <1>6, <1>7 DEF ServerInv

\* The sweep reads the clock once, before its first session (serversession.cc:76-79).
LEMMA BeginSweepInv ==
  ASSUME ServerInv, BeginSweep
  PROVE  ServerInv'
<1>1. /\ pc = "begin" /\ pc' = "sweep" /\ it' = From(0) /\ now' = 0
      /\ Untouched /\ busy' = busy
  BY DEF BeginSweep, Untouched, maps, counts
<1>2. InPacket /\ 0 \in 0 .. busy
  BY <1>1 DEF ServerInv, ControlOK, InPacket
<1>3. it' \in Resident \cup {Nil}
  BY <1>1, FromFirst
<1>4. SweptSoFar'
  <2>1. \A g \in Resident : ~ (it' = Nil \/ g < it')
    <3>1. ASSUME NEW g \in Resident PROVE g >= 0 /\ g \in Nat
      BY NamesAssumption DEF Resident
    <3>2. QED
      BY <1>1, <1>3, <3>1, FromFirst
  <2>2. Resident' = Resident
    BY <1>1 DEF Untouched, Resident
  <2>3. QED
    BY <2>1, <2>2 DEF SweptSoFar
<1>5. QED
  BY <1>1, <1>2, <1>3, <1>4, SweepAlong

\* The iterator passes a session that stays (serversession.cc:94).
LEMMA SweepNextInv ==
  ASSUME ServerInv, SweepNext
  PROVE  ServerInv'
<1>1. /\ pc = "sweep" /\ pc' = "sweep" /\ it # Nil /\ it' = From(it + 1) /\ now' = now
      /\ heap[sessionMap[it]].idle - now <= Keepalive
      /\ Untouched /\ busy' = busy
  BY DEF SweepNext, Untouched, maps, counts
<1>2. it \in Resident /\ it \in Nat /\ now \in 0 .. busy /\ busy \in Nat
  <2>1. it \in Resident /\ now \in 0 .. busy /\ busy \in Nat
    BY <1>1, BusyAssumption DEF ServerInv, ControlOK
  <2>2. QED
    BY <2>1, NamesAssumption DEF Resident
<1>3. it + 1 \in Nat
  BY <1>2
<1>4. it' \in Resident \cup {Nil}
  BY <1>1, <1>3, FromFirst
<1>5. UNCHANGED <<sessionMap, heap>> /\ Resident' = Resident
  BY <1>1 DEF Untouched, Resident
<1>6. SweptSoFar'
  <2>1. ASSUME NEW g \in Resident, it' = Nil \/ g < it'
        PROVE  heap[sessionMap[g]].idle <= Keepalive + now
    <3>1. g \in Nat /\ heap[sessionMap[g]].idle \in Nat
      BY NamesAssumption DEF ServerInv, TypeOK, SessionsOwned, Owns, Resident, Session
    <3>2. CASE g < it
      BY <1>1, <3>2 DEF ServerInv, SweptSoFar
    <3>3. CASE g = it
      BY <1>1, <1>2, <3>1, <3>3, KeepaliveAssumption
    <3>4. ~ (g >= it + 1)
      <4>1. CASE it' = Nil
        BY <1>1, <1>2, <1>3, <3>1, <4>1, FromFirst
      <4>2. CASE it' # Nil
        <5>1. it' \in Nat
          BY <1>4, <4>2, NamesAssumption DEF Resident
        <5>2. QED
          BY <1>1, <1>2, <1>3, <2>1, <3>1, <4>2, <5>1, FromFirst
      <4>3. QED
        BY <4>1, <4>2
    <3>5. QED
      BY <1>2, <3>1, <3>2, <3>3, <3>4
  <2>2. QED
    BY <1>1, <1>5, <2>1 DEF SweptSoFar
<1>7. QED
  BY <1>1, <1>2, <1>4, <1>6, SweepAlong DEF InPacket

\* The target of a report is an unsigned number (serversession.cc:82-91).
LEMMA FinalCountNat ==
  ASSUME TypeOK, SessionsOwned, it \in Resident
  PROVE  FinalCount \in Nat
<1> DEFINE s == heap[sessionMap[it]]
           next == s.successor
           boundary == WrapSub(heap[sessionMap[next]].minSeq, 1)
<1>1. s \in Session
  BY DEF TypeOK, SessionsOwned, Owns, Resident
<1>2. s.minSeq \in Seqnum /\ s.maxSeq \in Seqnum /\ next \in Guid \cup {Nil}
  BY <1>1 DEF Session
<1>3. CASE next # Nil /\ sessionMap[next] # Nil
  <2>1. heap[sessionMap[next]] \in Session
    BY <1>2, <1>3 DEF TypeOK, SessionsOwned, Owns
  <2>2. boundary \in Seqnum
    BY <2>1, BoundarySeqnum DEF Session
  <2>3. RecordMin(s.minSeq, boundary) \in Seqnum /\ RecordMax(s.maxSeq, boundary) \in Seqnum
    BY <1>2, <2>2, RecordSeqnum
  <2>4. TargetCount(RecordMin(s.minSeq, boundary), RecordMax(s.maxSeq, boundary)) \in Nat
    BY <2>3, TargetNat
  <2>5. QED
    BY <1>3, <2>4 DEF FinalCount
<1>4. CASE ~ (next # Nil /\ sessionMap[next] # Nil)
  <2>1. TargetCount(s.minSeq, s.maxSeq) \in Nat
    BY <1>2, TargetNat
  <2>2. QED
    BY <1>4, <2>1 DEF FinalCount
<1>5. QED
  BY <1>3, <1>4

\* What SweepWrite changes for the manager: one report, of the whole session
\* (serversession.cc:82-91).
LEMMA SweepWriteEffect ==
  ASSUME ServerInv, SweepWrite
  PROVE  /\ it \in Resident
         /\ heap[sessionMap[it]].idle - now > Keepalive
         /\ published' \in Reports
         /\ published'[it].count = published[it].count + LiveCount(sessionMap, heap, it)
         /\ \A g \in Guid \ {it} : published'[g] = published[g]
         /\ UNCHANGED <<hostMap, sessionMap, sourceMap, heap, intervalPacketsReceived, timer,
                        accepted>>
<1>1. /\ pc = "sweep" /\ it # Nil
      /\ heap[sessionMap[it]].idle - now > Keepalive
      /\ published' = [published EXCEPT ![it] =
           [count |-> published[it].count + heap[sessionMap[it]].count,
            target |-> published[it].target + FinalCount]]
      /\ UNCHANGED <<hostMap, sessionMap, sourceMap, heap, intervalPacketsReceived, timer,
                     accepted>>
  BY DEF SweepWrite, maps
<1>2. it \in Resident
  BY <1>1 DEF ServerInv, ControlOK
<1>3. it \in Guid /\ sessionMap[it] # Nil
  BY <1>2 DEF Resident
<1>4. FinalCount \in Nat
  BY <1>2, FinalCountNat DEF ServerInv
<1>5. heap[sessionMap[it]].count \in Nat
  BY <1>3 DEF ServerInv, TypeOK, SessionsOwned, Owns, Session
<1>6. published \in Reports
  BY Typed DEF ServerInv
<1>7. published' \in Reports
  BY <1>1, <1>3, <1>4, <1>5, <1>6 DEF Reports
<1>8. /\ published'[it].count = published[it].count + LiveCount(sessionMap, heap, it)
      /\ \A g \in Guid \ {it} : published'[g] = published[g]
  BY <1>1, <1>3, <1>6 DEF Reports, LiveCount
<1>9. QED
  BY <1>1, <1>2, <1>7, <1>8

\* The report is written; the session is still in the map (serversession.cc:90).
LEMMA SweepWriteInv ==
  ASSUME ServerInv, SweepWrite
  PROVE  ServerInv'
<1>1. /\ pc = "sweep" /\ pc' = "free"
      /\ UNCHANGED <<ph, ds, it, now, busy>>
  BY DEF SweepWrite, locals
<1>2. /\ it \in Resident
      /\ published' \in Reports
      /\ published'[it].count = published[it].count + LiveCount(sessionMap, heap, it)
      /\ \A g \in Guid \ {it} : published'[g] = published[g]
      /\ UNCHANGED <<hostMap, sessionMap, sourceMap, heap, intervalPacketsReceived, timer,
                     accepted>>
  BY SweepWriteEffect
<1>3. TypeOK' /\ SessionsOwned'
  BY <1>2 DEF ServerInv, TypeOK, SessionsOwned, Owns, Reports
<1>4. ControlOK' /\ AlarmAway' /\ SweptSoFar'
  BY <1>1, <1>2 DEF ServerInv, ControlOK, AlarmAway, SweptSoFar, InPacket, Resident
<1>5. PingsAccounted'
  <2>1. ASSUME NEW g \in Guid
        PROVE  accepted[g] = published'[g].count +
                 (IF g = it THEN 0 ELSE LiveCount(sessionMap, heap, g))
    <3>1. accepted[g] = published[g].count + LiveCount(sessionMap, heap, g)
      BY <1>1 DEF ServerInv, PingsAccounted
    <3>2. published'[g].count \in Nat
      BY <1>2 DEF Reports
    <3>3. QED
      BY <1>2, <3>1, <3>2
  <2>2. QED
    BY <1>1, <1>2, <2>1 DEF PingsAccounted, LiveCount
<1>6. CountedOnce'
  BY <1>1, <1>2 DEF ServerInv, CountedOnce
<1>7. SilentFor'
  BY <1>1, <1>2 DEF ServerInv, SilentFor, Quietest, InPacket
<1>8. QED
  BY <1>3, <1>4, <1>5, <1>6, <1>7 DEF ServerInv

\* Freeing one session and erasing its id keeps the map the owner, and every other
\* id's count (serversession.cc:91-92).
LEMMA FreeKeepsOwner ==
  ASSUME NEW sm \in Maps, NEW h \in Heaps, Owns(sm, h),
         NEW g \in Guid, sm[g] # Nil,
         NEW sm2 \in Maps, sm2[g] = Nil,
         \A i \in Guid \ {g} : sm2[i] = sm[i],
         NEW h2 \in Heaps, h2[sm[g]] = Nil,
         \A a \in Addr \ {sm[g]} : h2[a] = h[a]
  PROVE  /\ Owns(sm2, h2)
         /\ LiveCount(sm2, h2, g) = 0
         /\ \A i \in Guid \ {g} : sm[i] # Nil => h2[sm[i]] = h[sm[i]]
         /\ \A a \in Addr : h2[a] # Nil => h2[a] = h[a] /\ h[a] # Nil
<1>1. sm[g] \in Addr /\ h[sm[g]] # Nil /\ h[sm[g]].guid = g
  BY DEF Maps, Owns
<1>2. sm2[g] = Nil /\ \A i \in Guid \ {g} : sm2[i] = sm[i]
  OBVIOUS
<1>3. h2[sm[g]] = Nil /\ \A a \in Addr \ {sm[g]} : h2[a] = h[a]
  OBVIOUS
<1>4. \A i \in Guid \ {g} : sm[i] # Nil =>
        sm[i] \in Addr \ {sm[g]} /\ h[sm[i]] # Nil /\ h[sm[i]].guid = i
  BY <1>1 DEF Owns, Maps
<1>5. \A a \in Addr : h2[a] # Nil => a # sm[g] /\ h2[a] = h[a] /\ h[a] # Nil
  BY <1>1, <1>3
<1>6. Owns(sm2, h2)
  <2>1. \A i \in Guid : sm2[i] # Nil => h2[sm2[i]] # Nil /\ h2[sm2[i]].guid = i
    BY <1>2, <1>3, <1>4
  <2>2. ASSUME NEW a \in Addr, h2[a] # Nil PROVE sm2[h2[a].guid] = a
    <3>1. a # sm[g] /\ h2[a] = h[a] /\ h[a] # Nil
      BY <1>5, <2>2
    <3>2. h[a].guid \in Guid /\ sm[h[a].guid] = a
      BY <3>1 DEF Owns, Heaps, Session
    <3>3. QED
      BY <1>2, <3>1, <3>2
  <2>3. QED
    BY <2>1, <2>2 DEF Owns
<1>7. LiveCount(sm2, h2, g) = 0
  BY <1>2 DEF LiveCount
<1>8. QED
  BY <1>2, <1>3, <1>4, <1>5, <1>6, <1>7

\* The session whose report is written goes, and the iterator goes on
\* (serversession.cc:91-92).
LEMMA SweepFreeInv ==
  ASSUME ServerInv, SweepFree
  PROVE  ServerInv'
<1>1. /\ pc = "free" /\ pc' = "sweep"
      /\ heap' = [heap EXCEPT ![sessionMap[it]] = Nil]
      /\ sessionMap' = [sessionMap EXCEPT ![it] = Nil]
      /\ it' = From(it + 1)
      /\ UNCHANGED <<hostMap, sourceMap, intervalPacketsReceived, timer, accepted,
                     published, now, busy>>
  BY DEF SweepFree, counts
<1>2. it \in Guid /\ sessionMap[it] # Nil /\ now \in 0 .. busy /\ it # Nil
  BY <1>1, NilAssumption DEF ServerInv, ControlOK, Resident
<1>3. it \in Nat /\ it + 1 \in Nat
  BY <1>2, NamesAssumption
<1>4. /\ sessionMap \in Maps /\ heap \in Heaps /\ Owns(sessionMap, heap)
  BY Typed DEF ServerInv, SessionsOwned
<1>5. /\ sessionMap' \in Maps /\ heap' \in Heaps
      /\ Owns(sessionMap', heap')
      /\ LiveCount(sessionMap', heap', it) = 0
      /\ \A i \in Guid \ {it} : sessionMap'[i] = sessionMap[i]
      /\ \A i \in Guid \ {it} : sessionMap[i] # Nil =>
           heap'[sessionMap[i]] = heap[sessionMap[i]]
      /\ \A a \in Addr : heap'[a] # Nil => heap'[a] = heap[a] /\ heap[a] # Nil
  <2>1. /\ sessionMap' \in Maps /\ sessionMap'[it] = Nil
        /\ \A i \in Guid \ {it} : sessionMap'[i] = sessionMap[i]
    BY <1>1, <1>2, <1>4 DEF Maps
  <2>2. sessionMap[it] \in Addr
    BY <1>2, <1>4 DEF Maps
  <2>3. /\ heap' \in Heaps /\ heap'[sessionMap[it]] = Nil
        /\ \A a \in Addr \ {sessionMap[it]} : heap'[a] = heap[a]
    BY <1>1, <1>4, <2>2 DEF Heaps
  <2>4. QED
    BY ONLY <1>2, <1>4, <2>1, <2>3, FreeKeepsOwner
<1>6. sessionMap'[it] = Nil
  BY <1>1, <1>2, <1>4 DEF Maps
<1>7. TypeOK' /\ SessionsOwned'
  BY <1>1, <1>5 DEF ServerInv, TypeOK, SessionsOwned, Maps, Heaps
<1>8. it' \in Resident \cup {Nil} /\ (it' # Nil => it' >= it + 1)
  BY <1>1, <1>3, FromFirst
<1>9. it' \in Resident' \cup {Nil}
  BY <1>3, <1>5, <1>8 DEF Resident
<1>10. ControlOK'
  BY <1>1, <1>2, <1>9 DEF ServerInv, ControlOK, InPacket
<1>11. AlarmAway'
  BY <1>1 DEF ServerInv, AlarmAway, InPacket
<1>12. PingsAccounted'
  <2>1. ASSUME NEW g \in Guid
        PROVE  accepted[g] = published[g].count + LiveCount(sessionMap', heap', g)
    <3>1. CASE g = it
      BY <1>1, <1>5, <3>1 DEF ServerInv, PingsAccounted
    <3>2. CASE g # it
      <4>1. LiveCount(sessionMap', heap', g) = LiveCount(sessionMap, heap, g)
        BY <1>5, <3>2 DEF LiveCount
      <4>2. QED
        BY <3>2, <4>1 DEF ServerInv, PingsAccounted
    <3>3. QED
      BY <3>1, <3>2
  <2>2. QED
    BY <1>1, <2>1 DEF PingsAccounted
<1>13. CountedOnce'
  BY <1>1, <1>5 DEF ServerInv, CountedOnce
<1>14. SilentFor'
  BY <1>1, <1>5 DEF ServerInv, SilentFor, Quietest, InPacket
<1>15. SweptSoFar'
  <2>1. ASSUME NEW g \in Resident', it' = Nil \/ g < it'
        PROVE  heap'[sessionMap'[g]].idle <= Keepalive + now
    <3>1. g \in Guid /\ g # it /\ g \in Nat /\ g \in Resident
      BY <1>5, <1>6, NamesAssumption DEF Resident
    <3>2. ~ (g >= it + 1)
      <4>1. CASE it' = Nil
        BY <1>1, <1>3, <3>1, <4>1, FromFirst
      <4>2. CASE it' # Nil
        <5>1. it' \in Nat
          BY <1>8, <4>2, NamesAssumption DEF Resident
        <5>2. QED
          BY <1>1, <1>3, <2>1, <3>1, <4>2, <5>1, FromFirst
      <4>3. QED
        BY <4>1, <4>2
    <3>3. g < it
      BY <1>3, <3>1, <3>2
    <3>4. heap[sessionMap[g]].idle <= Keepalive + now
      BY <1>1, <3>1, <3>3 DEF ServerInv, SweptSoFar
    <3>5. heap'[sessionMap'[g]] = heap[sessionMap[g]]
      BY <1>5, <3>1 DEF Resident
    <3>6. QED
      BY <3>4, <3>5
  <2>2. QED
    BY <1>1, <2>1 DEF SweptSoFar
<1>16. QED
  BY <1>7, <1>10, <1>11, <1>12, <1>13, <1>14, <1>15 DEF ServerInv

\* The sweep has passed every session: none is silent for longer than the alarm
\* allows between packets (serversession.cc:79-98).
LEMMA EndSweepInv ==
  ASSUME ServerInv, EndSweep
  PROVE  ServerInv'
<1>1. /\ pc = "sweep" /\ pc' = "wait" /\ it = Nil /\ busy' = 0
      /\ UNCHANGED <<hostMap, sessionMap, sourceMap, heap, intervalPacketsReceived, timer,
                     accepted, published>>
  BY DEF EndSweep, maps, counts
<1>2. InPacket
  BY <1>1 DEF InPacket
<1>3. TypeOK' /\ SessionsOwned'
  BY <1>1 DEF ServerInv, TypeOK, SessionsOwned, Owns
<1>4. PingsConserved'
  BY <1>1 DEF ServerInv, PingsAccounted, PingsConserved, LiveCount
<1>5. NoEmptySession'
  BY <1>1 DEF ServerInv, CountedOnce, NoEmptySession
<1>6. SilenceBound'
  <2>1. ASSUME NEW a \in Addr, heap[a] # Nil
        PROVE  heap[a].idle <=
                 timer + (IF intervalPacketsReceived = 0 THEN 2 * Keepalive ELSE Keepalive)
    <3>1. heap[a].idle \in Nat /\ heap[a].guid \in Guid /\ sessionMap[heap[a].guid] = a
      BY <2>1 DEF ServerInv, TypeOK, SessionsOwned, Owns, Session
    <3>2. heap[a].guid \in Resident
      BY <3>1, NilAssumption DEF Resident
    <3>3. heap[a].idle <= Keepalive + now
      BY <1>1, <3>1, <3>2 DEF ServerInv, SweptSoFar
    <3>4. /\ now \in 0 .. busy /\ busy \in 0 .. MaxBusy /\ timer \in 0 .. Keepalive
          /\ IF intervalPacketsReceived = 0 THEN timer <= busy ELSE busy <= timer
      BY <1>1, <1>2 DEF ServerInv, ControlOK, TypeOK, AlarmAway
    <3>5. QED
      BY <3>1, <3>3, <3>4, KeepaliveAssumption, BusyAssumption
  <2>2. QED
    BY <1>1, <2>1 DEF SilenceBound
<1>7. IInv'
  BY <1>3, <1>4, <1>5, <1>6 DEF IInv
<1>8. QED
  BY <1>1, <1>7, BusyAssumption, BackBetweenPackets

----------------------------------------------------------------------------
(* The signal and the clock.                                               *)

\* An alarm in the middle of a packet does not sweep: it finds the packet counted,
\* as another one has not had the time to come (serversession.cc:163-168).
LEMMA AlarmInPacket ==
  ASSUME ServerInv, InPacket, HandleAlarm
  PROVE  /\ timer' = 0 /\ intervalPacketsReceived' = 0
         /\ intervalPacketsReceived # 0 /\ timer = Keepalive
         /\ UNCHANGED <<hostMap, sessionMap, sourceMap, heap, accepted, published>>
<1>1. timer = Keepalive /\ timer' = 0 /\ intervalPacketsReceived' = 0
      /\ UNCHANGED <<hostMap, sourceMap, accepted>>
  BY DEF HandleAlarm
<1>2. ~ (intervalPacketsReceived = 0)
  <2>1. SUFFICES ASSUME intervalPacketsReceived = 0 PROVE FALSE
    OBVIOUS
  <2>2. timer <= busy /\ busy \in 0 .. MaxBusy
    BY <2>1 DEF ServerInv, AlarmAway, ControlOK
  <2>3. QED
    BY <1>1, <2>2, BusyAssumption, KeepaliveAssumption
<1>3. QED
  BY <1>1, <1>2 DEF HandleAlarm

\* An alarm delivered between any two steps of a packet finds it counted, and one
\* delivered between packets sweeps as the manager does (serversession.cc:163-174).
LEMMA DeliverAlarmInv ==
  ASSUME ServerInv, DeliverAlarm
  PROVE  ServerInv'
<1>1. HandleAlarm /\ UNCHANGED <<pc, ph, ds, it, now, busy>> /\ pc \notin {"start", "exited"}
  BY DEF DeliverAlarm, locals
<1>2. CASE ~ InPacket
  <2>1. IInv'
    BY <1>1, <1>2, BetweenPackets, AlarmIInv
  <2>2. hostMap' = hostMap
    BY <1>1 DEF HandleAlarm
  <2>3. QED
    BY <1>1, <1>2, <2>1, <2>2, BackBetweenPackets DEF ServerInv, ControlOK, InPacket
<1>3. CASE InPacket
  <2>1. /\ timer' = 0 /\ intervalPacketsReceived' = 0
        /\ intervalPacketsReceived # 0 /\ timer = Keepalive
        /\ UNCHANGED <<hostMap, sessionMap, sourceMap, heap, accepted, published>>
    BY <1>1, <1>3, AlarmInPacket
  <2>2. TypeOK' /\ SessionsOwned'
    BY <2>1, KeepaliveAssumption DEF ServerInv, TypeOK, SessionsOwned, Owns
  <2>3. ControlOK' /\ SweptSoFar'
    BY <1>1, <2>1 DEF ServerInv, ControlOK, SweptSoFar, InPacket, Resident
  <2>4. AlarmAway'
    BY <1>1, <2>1, BusyAssumption DEF ServerInv, ControlOK, AlarmAway, InPacket
  <2>5. PingsAccounted' /\ CountedOnce'
    BY <1>1, <2>1 DEF ServerInv, PingsAccounted, LiveCount, CountedOnce
  <2>6. SilentFor'
    <3>1. Quietest' = 3 * Keepalive /\ Quietest = 2 * Keepalive
      BY <1>1, <1>3, <2>1, KeepaliveAssumption DEF Quietest, InPacket
    <3>2. \A a \in Addr : heap[a] # Nil => heap[a].idle <= Keepalive + 2 * Keepalive
      BY <2>1, <3>1 DEF ServerInv, SilentFor
    <3>3. 0 + 3 * Keepalive = Keepalive + 2 * Keepalive
      BY KeepaliveAssumption
    <3>4. QED
      BY <2>1, <3>1, <3>2, <3>3 DEF SilentFor
  <2>7. QED
    BY <2>2, <2>3, <2>4, <2>5, <2>6 DEF ServerInv
<1>4. QED
  BY <1>2, <1>3

\* A second passes, in a packet or between two (delay.cc:52-63).
LEMMA PassSecondInv ==
  ASSUME ServerInv, PassSecond
  PROVE  ServerInv'
<1>1. Tick /\ UNCHANGED <<pc, ph, ds, it>>
  BY DEF PassSecond
<1>2. CASE ~ InPacket
  <2>1. busy' = busy /\ pc \in {"bind", "wait", "count"}
    BY <1>2 DEF PassSecond, InPacket
  <2>2. IInv' /\ hostMap' = hostMap
    BY <1>1, <1>2, BetweenPackets, TickIInv DEF Tick
  <2>3. QED
    BY <1>1, <2>1, <2>2, BackBetweenPackets DEF ServerInv, ControlOK
<1>3. CASE InPacket
  <2>1. /\ busy < MaxBusy /\ busy' = busy + 1
        /\ now' = IF pc \in {"sweep", "free"} THEN now + 1 ELSE now
    BY <1>3 DEF PassSecond, InPacket
  <2>2. /\ timer < Keepalive /\ timer' = timer + 1
        /\ UNCHANGED <<hostMap, sessionMap, sourceMap, intervalPacketsReceived,
                       accepted, published>>
    BY <1>1 DEF Tick
  <2>3. /\ heap' \in Heaps
        /\ \A a \in Addr : heap'[a] = Nil <=> heap[a] = Nil
        /\ \A a \in Addr : heap[a] # Nil =>
             /\ heap'[a].guid = heap[a].guid
             /\ heap'[a].count = heap[a].count
             /\ heap[a].idle \in Nat
             /\ heap'[a].idle = heap[a].idle + 1
    BY <1>1, TickHeap DEF ServerInv
  <2>4. sessionMap \in Maps /\ heap \in Heaps /\ Owns(sessionMap, heap)
    BY Typed DEF ServerInv, SessionsOwned
  <2>5. Owns(sessionMap, heap')
    BY ONLY <2>3, <2>4, OwnsSameIds
  <2>6. /\ timer \in 0 .. Keepalive /\ busy \in 0 .. MaxBusy /\ Keepalive \in Nat /\ MaxBusy \in Nat
        /\ intervalPacketsReceived \in {0, 1}
    BY KeepaliveAssumption, BusyAssumption DEF ServerInv, TypeOK, ControlOK
  <2>7. TypeOK' /\ SessionsOwned'
    BY <2>2, <2>3, <2>5, <2>6 DEF ServerInv, TypeOK, SessionsOwned, Heaps
  <2>8. Resident' = Resident /\ InPacket'
    BY <1>1, <1>3, <2>2 DEF Resident, InPacket
  <2>9. ControlOK'
    <3>1. pc \in {"sweep", "free"} => now' \in 0 .. busy'
      BY <2>1, <2>6 DEF ServerInv, ControlOK
    <3>2. busy' \in 0 .. MaxBusy
      BY <2>1, <2>6
    <3>3. QED
      BY <1>1, <2>2, <2>8, <3>1, <3>2 DEF ServerInv, ControlOK
  <2>10. AlarmAway'
    BY <1>3, <2>1, <2>2, <2>6 DEF ServerInv, AlarmAway
  <2>11. \A g \in Resident : heap[sessionMap[g]] # Nil /\ sessionMap[g] \in Addr
    BY <2>4 DEF Owns, Maps, Resident
  <2>12. PingsAccounted'
    <3>1. \A g \in Guid : LiveCount(sessionMap, heap', g) = LiveCount(sessionMap, heap, g)
      BY <2>3, <2>11 DEF LiveCount, Resident
    <3>2. QED
      BY <1>1, <2>2, <3>1 DEF ServerInv, PingsAccounted, LiveCount
  <2>13. CountedOnce'
    BY <1>1, <2>3 DEF ServerInv, CountedOnce
  <2>14. SilentFor'
    <3>1. Quietest' = Quietest /\ Quietest \in Nat
      BY <2>2, <2>6, <2>8, <1>3 DEF Quietest
    <3>2. ASSUME NEW a \in Addr, heap'[a] # Nil PROVE heap'[a].idle <= timer' + Quietest'
      <4>1. /\ heap[a].idle \in Nat /\ heap'[a].idle = heap[a].idle + 1
            /\ heap[a].idle <= timer + Quietest
        BY <2>3, <3>2 DEF ServerInv, SilentFor
      <4>2. QED
        BY <2>2, <2>6, <3>1, <4>1
    <3>3. QED
      BY <3>2 DEF SilentFor
  <2>15. SweptSoFar'
    <3>1. ASSUME pc \in {"sweep", "free"}, NEW g \in Resident, it = Nil \/ g < it
          PROVE  heap'[sessionMap[g]].idle <= Keepalive + now'
      <4>1. heap[sessionMap[g]].idle <= Keepalive + now
        BY <3>1 DEF ServerInv, SweptSoFar
      <4>2. now \in 0 .. busy /\ now' = now + 1
        BY <2>1, <3>1 DEF ServerInv, ControlOK
      <4>3. heap[sessionMap[g]].idle \in Nat
            /\ heap'[sessionMap[g]].idle = heap[sessionMap[g]].idle + 1
        BY <2>3, <2>11
      <4>4. QED
        BY <2>6, <4>1, <4>2, <4>3
    <3>2. QED
      BY <1>1, <2>2, <2>8, <3>1 DEF SweptSoFar
  <2>16. QED
    BY <2>7, <2>9, <2>10, <2>12, <2>13, <2>14, <2>15 DEF ServerInv
<1>4. QED
  BY <1>2, <1>3

\* A system call in which nothing happens changes nothing (server.cc:66-78).
LEMMA StutterInv ==
  ASSUME ServerInv, UNCHANGED serverVars
  PROVE  ServerInv'
<1>1. UNCHANGED <<hostMap, sessionMap, sourceMap, heap, intervalPacketsReceived, timer,
                  accepted, published, pc, ph, ds, it, now, busy>>
  BY DEF serverVars, maps, counts, locals
<1>2. TypeOK' /\ SessionsOwned'
  BY <1>1 DEF ServerInv, TypeOK, SessionsOwned, Owns
<1>3. ControlOK' /\ AlarmAway' /\ SweptSoFar'
  BY <1>1 DEF ServerInv, ControlOK, AlarmAway, SweptSoFar, InPacket, Resident
<1>4. PingsAccounted' /\ CountedOnce' /\ SilentFor'
  BY <1>1 DEF ServerInv, PingsAccounted, LiveCount, CountedOnce, SilentFor, Quietest,
              InPacket
<1>5. QED
  BY <1>2, <1>3, <1>4 DEF ServerInv

\* Every step of the program, and of the signals and the clock, keeps the invariant
\* (server.cc:22-78).
LEMMA NextServerInv ==
  ASSUME ServerInv, [ServerNext]_serverVars
  PROVE  ServerInv'
<1>1. CASE Start \/ Bind \/ GiveUp
  BY <1>1, StartInv
<1>2. ASSUME NEW p \in Ping, ReadPacket(p) PROVE ServerInv'
  BY <1>2, ReadPacketInv
<1>3. CASE Step
  BY <1>3, CountInv, GetServerSessionInv, RecordInv, BeginSweepInv, SweepNextInv,
     SweepWriteInv, SweepFreeInv, EndSweepInv DEF Step
<1>4. CASE DeliverAlarm
  BY <1>4, DeliverAlarmInv
<1>5. CASE PassSecond
  BY <1>5, PassSecondInv
<1>6. CASE UNCHANGED serverVars
  BY <1>6, StutterInv
<1>7. QED
  BY <1>1, <1>2, <1>3, <1>4, <1>5, <1>6 DEF ServerNext

\* The inductive invariant holds of every state of the server, whatever arrives and
\* wherever the alarm is delivered (server.cc:59-78, serversession.cc:76-174).
THEOREM ServerInvariant == ServerSpec => []ServerInv
<1>1. ServerInv /\ [ServerNext]_serverVars => ServerInv'
  BY NextServerInv
<1>2. QED
  BY <1>1, InitServerInv, PTL DEF ServerSpec

\* Nothing the program holds is freed under it by a signal, wherever it falls
\* (serversession.cc:76-117, :163-174).
THEOREM HeldPointers == ServerSpec => []PointersHold
<1>1. ServerInv => PointersHold
  <2> SUFFICES ASSUME ServerInv PROVE PointersHold
    OBVIOUS
  <2>1. ASSUME pc = "record"
        PROVE  ds # Nil /\ sessionMap[ph.guid] = ds /\ heap[ds] # Nil /\ heap[ds].guid = ph.guid
    <3>1. ph.guid \in Guid /\ ds \in Addr /\ sessionMap[ph.guid] = ds /\ ds # Nil
      BY <2>1, NamesAssumption, NilAssumption DEF ServerInv, ControlOK
    <3>2. QED
      BY <3>1 DEF ServerInv, SessionsOwned, Owns
  <2>2. QED
    BY <2>1 DEF ServerInv, ControlOK, PointersHold
<1>2. QED
  BY <1>1, ServerInvariant, PTL

\* Every accepted ping is in a report or in the live session once, between any two
\* steps of the program (serversession.cc:76-117).
THEOREM Accounting == ServerSpec => []PingsAccounted
<1>1. ServerInv => PingsAccounted
  BY DEF ServerInv
<1>2. QED
  BY <1>1, ServerInvariant, PTL

----------------------------------------------------------------------------
(* The server implements the ledger.                                       *)

Waiting == [g \in Guid |-> IF accepted[g] = published[g].count THEN 0
                           ELSE heap[sessionMap[g]].idle]

\* An id with a ping to report has a live session, which is not about to be freed
\* and not the one being made (serversession.cc:58-117).
LEMMA PendingIsLive ==
  ASSUME ServerInv, NEW g \in Guid
  PROVE  /\ accepted[g] \in Nat /\ published[g].count \in Nat
         /\ published[g].count <= accepted[g]
         /\ accepted[g] # published[g].count =>
              /\ g \in Resident
              /\ sessionMap[g] \in Addr /\ heap[sessionMap[g]] # Nil
              /\ heap[sessionMap[g]].idle \in Nat
<1>1. /\ sessionMap \in Maps /\ heap \in Heaps /\ published \in Reports
      /\ Owns(sessionMap, heap) /\ accepted \in [Guid -> Nat]
  BY Typed DEF ServerInv, SessionsOwned, TypeOK
<1>2. accepted[g] \in Nat /\ published[g].count \in Nat
  BY <1>1 DEF Reports
<1>3. g \in Resident =>
        /\ sessionMap[g] \in Addr /\ heap[sessionMap[g]] # Nil
        /\ heap[sessionMap[g]].idle \in Nat /\ heap[sessionMap[g]].count \in Nat
  BY <1>1 DEF Resident, Owns, Maps, Heaps, Session
<1>4. accepted[g] = published[g].count +
        (IF pc = "free" /\ it = g THEN 0 ELSE LiveCount(sessionMap, heap, g))
  BY DEF ServerInv, PingsAccounted
<1>5. LiveCount(sessionMap, heap, g) \in Nat
      /\ (LiveCount(sessionMap, heap, g) # 0 => g \in Resident)
  BY <1>3 DEF LiveCount, Resident
<1>6. QED
  BY <1>2, <1>3, <1>4, <1>5

\* Between packets the two views of an id's silence agree, the one by live sessions
\* and the one by pings not yet reported (serversession.cc:82).
LEMMA WaitingIsQuiet == IInv => Waiting = Quiet
<1> SUFFICES ASSUME IInv PROVE Waiting = Quiet
  OBVIOUS
<1>1. ASSUME NEW g \in Guid
      PROVE  (IF accepted[g] = published[g].count THEN 0 ELSE heap[sessionMap[g]].idle)
               = Silence(sessionMap, heap, g)
  BY PendingIsResident DEF Silence
<1>2. QED
  BY <1>1 DEF Waiting, Quiet

\* They agree after a step that ends between packets (serversession.cc:82).
LEMMA WaitingIsQuietNext == IInv' => (Waiting = Quiet)'
<1>1. QED
  BY WaitingIsQuiet, PTL

\* A step that accepts and reports nothing, and leaves each pending id's session
\* where it is and as silent as it is, changes nothing in the ledger
\* (serversession.cc:58-74).
LEMMA LedgerStutter ==
  ASSUME ServerInv, UNCHANGED <<accepted, published>>,
         \A g \in Guid : accepted[g] # published[g].count =>
           heap'[sessionMap'[g]].idle = heap[sessionMap[g]].idle
  PROVE  UNCHANGED Promise!vars
<1>1. Waiting' = Waiting
  BY DEF Waiting
<1>2. QED
  BY <1>1 DEF Promise!vars, Waiting

\* What getServerSession does to the sessions there are (serversession.cc:58-74).
LEMMA FoundOrMade ==
  ASSUME ServerInv, GetServerSession, NEW g \in Resident
  PROVE  heap'[sessionMap'[g]].idle = heap[sessionMap[g]].idle
<1>1. /\ sessionMap \in Maps /\ heap \in Heaps /\ Owns(sessionMap, heap)
      /\ sourceMap \in [Source -> Addr \cup {Nil}]
  BY Typed DEF ServerInv, SessionsOwned, TypeOK
<1>2. /\ ph \in Ping /\ ph.guid \in Guid /\ ph.ip \in Ip /\ ph.port \in Port
      /\ hostMap[ph.ip] \in Host
  BY NamesAssumption DEF ServerInv, ControlOK, GetServerSession
<1>3. g \in Guid /\ sessionMap[g] \in Addr /\ heap[sessionMap[g]] # Nil
  BY <1>1 DEF Resident, Maps, Owns
<1>4. CASE UNCHANGED <<sessionMap, heap>>
  BY <1>4
<1>5. CASE /\ sessionMap[ph.guid] = Nil
           /\ \E a \in FreeAddrs :
                LET src == <<hostMap[ph.ip], ph.port>>
                    new == [NewSession(ph, src) EXCEPT !.idle = Keepalive + 1]
                IN  /\ heap' = Linked([heap EXCEPT ![a] = new], sourceMap[src], ph)
                    /\ sessionMap' = [sessionMap EXCEPT ![ph.guid] = a]
  <2> DEFINE src == <<hostMap[ph.ip], ph.port>>
             new == [NewSession(ph, src) EXCEPT !.idle = Keepalive + 1]
  <2>1. PICK a \in FreeAddrs :
          /\ heap' = Linked([heap EXCEPT ![a] = new], sourceMap[src], ph)
          /\ sessionMap' = [sessionMap EXCEPT ![ph.guid] = a]
    BY <1>5
  <2> DEFINE created == [heap EXCEPT ![a] = new]
  <2>2. src \in Source
    BY <1>2 DEF Source
  <2>3. new \in Session
    BY <1>2, <2>2, NewcomerTyped
  <2> HIDE DEF new, src
  <2>4. a \in Addr /\ heap[a] = Nil
    BY DEF FreeAddrs
  <2>5. created \in Heaps /\ \A b \in Addr \ {a} : created[b] = heap[b]
    BY <1>1, <2>3, <2>4 DEF Heaps
  <2> HIDE DEF created
  <2>6. heap' = Linked(created, sourceMap[src], ph) /\ sourceMap[src] \in Addr \cup {Nil}
    BY <1>1, <2>1, <2>2 DEF created
  <2>7. \A b \in Addr : created[b] # Nil => heap'[b].idle = created[b].idle
    BY ONLY <1>2, <2>5, <2>6, LinkedHeap
  <2>8. g # ph.guid /\ sessionMap[g] # a
    BY <1>3, <1>5, <2>4 DEF Resident
  <2>9. sessionMap'[g] = sessionMap[g]
    BY <1>1, <1>3, <2>1, <2>8 DEF Maps
  <2>10. QED
    BY <1>3, <2>5, <2>7, <2>8, <2>9
<1>6. QED
  BY <1>4, <1>5 DEF GetServerSession

\* What the program does with a packet but for recording it and writing a report
\* changes nothing in the ledger (serversession.cc:58-101).
LEMMA QuietSteps ==
  ASSUME ServerInv,
         \/ Start \/ Bind \/ GiveUp \/ Count \/ GetServerSession \/ BeginSweep
         \/ SweepNext \/ SweepFree \/ EndSweep
         \/ \E p \in Ping : ReadPacket(p)
  PROVE  UNCHANGED Promise!vars
<1>1. CASE \/ Start \/ Bind \/ GiveUp \/ Count \/ BeginSweep \/ SweepNext \/ EndSweep
           \/ \E p \in Ping : ReadPacket(p)
  <2>1. UNCHANGED <<sessionMap, heap, accepted, published>>
    BY <1>1 DEF Start, Bind, GiveUp, Count, BeginSweep, SweepNext, EndSweep, ReadPacket,
                maps, counts
  <2>2. QED
    BY <2>1, LedgerStutter
<1>2. CASE GetServerSession
  <2>1. UNCHANGED <<accepted, published>>
    BY <1>2 DEF GetServerSession, counts
  <2>2. \A g \in Guid : accepted[g] # published[g].count =>
          heap'[sessionMap'[g]].idle = heap[sessionMap[g]].idle
    BY <1>2, PendingIsLive, FoundOrMade
  <2>3. QED
    BY <2>1, <2>2, LedgerStutter
<1>3. CASE SweepFree
  <2>1. /\ UNCHANGED <<accepted, published>> /\ pc = "free"
        /\ heap' = [heap EXCEPT ![sessionMap[it]] = Nil]
        /\ sessionMap' = [sessionMap EXCEPT ![it] = Nil]
    BY <1>3 DEF SweepFree, counts
  <2>2. it \in Guid /\ sessionMap[it] # Nil
    BY <2>1 DEF ServerInv, ControlOK, Resident
  <2>3. sessionMap \in Maps /\ heap \in Heaps /\ Owns(sessionMap, heap)
    BY Typed DEF ServerInv, SessionsOwned
  <2>4. ASSUME NEW g \in Guid, accepted[g] # published[g].count
        PROVE  heap'[sessionMap'[g]].idle = heap[sessionMap[g]].idle
    <3>1. g # it
      <4>1. published[g].count \in Nat
        BY PendingIsLive
      <4>2. QED
        BY <2>1, <2>4, <4>1 DEF ServerInv, PingsAccounted
    <3>2. sessionMap[g] \in Addr /\ heap[sessionMap[g]] # Nil /\ sessionMap[g] # sessionMap[it]
      BY <2>2, <2>3, <2>4, <3>1, PendingIsLive DEF Owns, Maps
    <3>3. sessionMap'[g] = sessionMap[g] /\ heap'[sessionMap[g]] = heap[sessionMap[g]]
      BY <2>1, <2>3, <3>1, <3>2 DEF Maps, Heaps
    <3>4. QED
      BY <3>3
  <2>5. QED
    BY <2>1, <2>4, LedgerStutter
<1>4. QED
  BY <1>1, <1>2, <1>3

\* Recording a ping is accepting it (serversession.cc:106-115).
LEMMA RecordRefines ==
  ASSUME ServerInv, Record
  PROVE  Promise!Next
<1>1. /\ pc = "record"
      /\ heap' = [heap EXCEPT ![ds] = Recorded(heap[ds], ph)]
      /\ accepted' = [accepted EXCEPT ![ph.guid] = accepted[ph.guid] + 1]
      /\ UNCHANGED <<sessionMap, published>>
  BY DEF Record, maps
<1>2. /\ ph \in Ping /\ ph.guid \in Guid
      /\ ds \in Addr /\ sessionMap[ph.guid] = ds /\ ds # Nil
  BY <1>1, NamesAssumption, NilAssumption DEF ServerInv, ControlOK
<1>3. /\ sessionMap \in Maps /\ heap \in Heaps /\ Owns(sessionMap, heap)
      /\ accepted \in [Guid -> Nat]
  BY Typed DEF ServerInv, SessionsOwned, TypeOK
<1>4. heap[ds] \in Session
  BY <1>2, <1>3 DEF Owns, Maps, Heaps
<1>5. /\ heap'[ds].idle = 0
      /\ \A a \in Addr : a # ds => heap'[a] = heap[a]
  BY <1>1, <1>2, <1>3, <1>4, RecordedSession DEF Heaps
<1>6. ASSUME NEW g \in Guid
      PROVE  Waiting'[g] = IF g \in {} \/ g = ph.guid THEN 0 ELSE Waiting[g]
  <2>1. CASE g = ph.guid
    BY <1>1, <1>2, <1>5, <2>1 DEF Waiting
  <2>2. CASE g # ph.guid
    <3>1. accepted'[g] = accepted[g]
      BY <1>1, <1>3, <2>2
    <3>2. accepted[g] # published[g].count => sessionMap[g] \in Addr /\ sessionMap[g] # ds
      BY <1>2, <1>3, <2>2, PendingIsLive DEF Owns, Maps
    <3>3. QED
      BY <1>1, <1>5, <2>2, <3>1, <3>2 DEF Waiting
  <2>3. QED
    BY <2>1, <2>2
<1>7. Waiting' = [g \in Guid |-> IF g \in {} \/ g = ph.guid THEN 0 ELSE Waiting[g]]
  BY <1>6 DEF Waiting
<1>8. Reported' = [g \in Guid |-> IF g \in {} THEN accepted[g] ELSE Reported[g]]
  BY <1>1 DEF Reported
<1>9. PICK g \in Guid : g = ph.guid
  BY <1>2
<1>10. Promise!Accept(g)
  <2>1. /\ accepted' = [accepted EXCEPT ![g] = accepted[g] + 1]
        /\ Waiting' = [h \in Guid |-> IF h \in {} \/ h = g THEN 0 ELSE Waiting[h]]
        /\ {} \in SUBSET (Promise!Due \ {g})
    BY <1>1, <1>7, <1>9
  <2>2. QED
    BY <1>8, <2>1 DEF Promise!Accept, Promise!Settle, Reported, Waiting
<1>11. QED
  BY <1>10 DEF Promise!Next

\* A report of the sweep is one report of the ledger, of an id that is due
\* (serversession.cc:81-90).
LEMMA SweepWriteRefines ==
  ASSUME ServerInv, SweepWrite
  PROVE  Promise!Report
<1>1. /\ it \in Resident
      /\ heap[sessionMap[it]].idle - now > Keepalive
      /\ published' \in Reports
      /\ published'[it].count = published[it].count + LiveCount(sessionMap, heap, it)
      /\ \A g \in Guid \ {it} : published'[g] = published[g]
      /\ UNCHANGED <<hostMap, sessionMap, sourceMap, heap, intervalPacketsReceived, timer,
                     accepted>>
  BY SweepWriteEffect
<1>2. pc = "sweep" /\ it \in Guid
  BY <1>1 DEF SweepWrite, Resident
<1>3. now \in 0 .. busy /\ busy \in 0 .. MaxBusy
  BY <1>2 DEF ServerInv, ControlOK
<1>4. accepted[it] = published[it].count + LiveCount(sessionMap, heap, it)
  BY <1>2 DEF ServerInv, PingsAccounted
<1>5. sessionMap[it] \in Addr /\ heap[sessionMap[it]] # Nil
      /\ heap[sessionMap[it]].idle \in Nat /\ heap[sessionMap[it]].count \in Nat
  BY <1>1 DEF Resident, ServerInv, TypeOK, SessionsOwned, Owns, Session
<1>6. LiveCount(sessionMap, heap, it) > 0 /\ LiveCount(sessionMap, heap, it) \in Nat
  BY <1>1, <1>2, <1>5 DEF ServerInv, CountedOnce, LiveCount, Resident
<1>7. accepted[it] > published[it].count /\ published'[it].count = accepted[it]
  BY <1>1, <1>2, <1>4, <1>6, PendingIsLive
<1>8. heap[sessionMap[it]].idle > Keepalive
  BY <1>1, <1>3, <1>5, KeepaliveAssumption, BusyAssumption
<1>9. {it} \in SUBSET Promise!Due
  <2>1. Waiting[it] = heap[sessionMap[it]].idle
    BY <1>2, <1>7, PendingIsLive DEF Waiting
  <2>2. QED
    BY <1>2, <1>7, <1>8, <2>1 DEF Promise!Due, Promise!Pending, Waiting
<1>10. Reported' = [g \in Guid |-> IF g \in {it} THEN accepted[g] ELSE Reported[g]]
  BY <1>1, <1>7 DEF Reported
<1>11. Waiting' = [g \in Guid |-> IF g \in {it} THEN 0 ELSE Waiting[g]]
  BY <1>1, <1>7 DEF Waiting
<1>12. QED
  BY <1>1, <1>9, <1>10, <1>11 DEF Promise!Report, Promise!Settle, Reported, Waiting

\* An alarm between packets reports what is due; one in a packet reports nothing
\* (serversession.cc:163-168).
LEMMA DeliverAlarmRefines ==
  ASSUME ServerInv, DeliverAlarm
  PROVE  Promise!Report \/ UNCHANGED Promise!vars
<1>1. HandleAlarm
  BY DEF DeliverAlarm
<1>2. CASE InPacket
  <2>1. UNCHANGED <<sessionMap, heap, accepted, published>>
    BY <1>1, <1>2, AlarmInPacket
  <2>2. QED
    BY <2>1, LedgerStutter
<1>3. CASE ~ InPacket
  <2>1. IInv /\ IInv'
    BY <1>1, <1>3, BetweenPackets, AlarmIInv
  <2>2. Waiting = Quiet
    BY <2>1, WaitingIsQuiet
  <2>3. Waiting' = Quiet'
    BY <2>1, WaitingIsQuietNext
  <2>4. CASE Ledger!Report
    <3>1. PICK Q \in SUBSET Ledger!Due :
            /\ Reported' = [g \in Guid |-> IF g \in Q THEN accepted[g] ELSE Reported[g]]
            /\ Quiet' = [g \in Guid |-> IF g \in Q THEN 0 ELSE Quiet[g]]
            /\ accepted' = accepted
      BY <2>4 DEF Ledger!Report, Ledger!Settle, Reported, Quiet
    <3>2. Ledger!Due = Promise!Due
      BY <2>2 DEF Ledger!Due, Promise!Due, Ledger!Pending, Promise!Pending, Quiet, Waiting
    <3>3. Waiting' = [g \in Guid |-> IF g \in Q THEN 0 ELSE Waiting[g]]
      BY <2>2, <2>3, <3>1
    <3>4. QED
      BY <3>1, <3>2, <3>3 DEF Promise!Report, Promise!Settle, Reported, Waiting
  <2>5. CASE UNCHANGED Ledger!vars
    <3>1. Reported' = Reported /\ Quiet' = Quiet /\ accepted' = accepted
      BY <2>5 DEF Ledger!vars, Reported, Quiet
    <3>2. Waiting' = Waiting
      BY <2>2, <2>3, <3>1
    <3>3. QED
      BY <3>1, <3>2 DEF Promise!vars, Reported, Waiting
  <2>6. QED
    BY <1>1, <2>1, <2>4, <2>5, AlarmRefines
<1>4. QED
  BY <1>2, <1>3

\* No second passes with a ping that has waited for three keepalives and the time a
\* packet takes (server.cc:69-78, serversession.cc:103-168).
LEMMA PassSecondRefines ==
  ASSUME ServerInv, PassSecond
  PROVE  Promise!Second
<1>1. /\ timer < Keepalive
      /\ UNCHANGED <<sessionMap, accepted, published>>
  BY DEF PassSecond, Tick
<1>2. \A a \in Addr : heap[a] # Nil =>
        /\ heap[a].idle \in Nat
        /\ heap'[a].idle = heap[a].idle + 1
  BY TickHeap DEF ServerInv, PassSecond
<1>3. /\ timer \in Nat /\ Keepalive \in Nat /\ MaxBusy \in Nat /\ busy \in 0 .. MaxBusy
      /\ intervalPacketsReceived \in {0, 1}
  BY KeepaliveAssumption, BusyAssumption DEF ServerInv, TypeOK, ControlOK
<1>4. timer + Quietest < 3 * Keepalive + MaxBusy
  <2>1. CASE InPacket
    <3>1. busy < MaxBusy
      BY <2>1 DEF PassSecond, InPacket
    <3>2. intervalPacketsReceived = 0 => timer <= busy
      BY <2>1 DEF ServerInv, AlarmAway
    <3>3. QED
      BY <1>1, <1>3, <2>1, <3>1, <3>2 DEF Quietest
  <2>2. CASE ~ InPacket
    BY <1>1, <1>3, <2>2 DEF Quietest
  <2>3. QED
    BY <2>1, <2>2
<1>5. timer + Quietest \in Int
  BY <1>3 DEF Quietest
<1>6. \A g \in Promise!Pending :
        /\ g \in Guid /\ accepted[g] # published[g].count
        /\ sessionMap[g] \in Addr /\ heap[sessionMap[g]] # Nil
  BY PendingIsLive DEF Promise!Pending
<1>7. \A g \in Promise!Pending : Waiting[g] < 3 * Keepalive + MaxBusy
  <2> SUFFICES ASSUME NEW g \in Promise!Pending PROVE Waiting[g] < 3 * Keepalive + MaxBusy
    OBVIOUS
  <2>1. heap[sessionMap[g]].idle <= timer + Quietest /\ heap[sessionMap[g]].idle \in Nat
    BY <1>2, <1>6 DEF ServerInv, SilentFor
  <2>2. Waiting[g] = heap[sessionMap[g]].idle
    BY <1>6 DEF Waiting
  <2>3. QED
    BY <1>3, <1>4, <1>5, <2>1, <2>2
<1>8. Waiting' = [g \in Guid |-> IF g \in Promise!Pending THEN Waiting[g] + 1 ELSE Waiting[g]]
  <2>1. ASSUME NEW g \in Guid
        PROVE  (IF accepted[g] = published[g].count THEN 0 ELSE heap'[sessionMap[g]].idle)
                 = IF g \in Promise!Pending THEN Waiting[g] + 1 ELSE Waiting[g]
    <3>1. CASE g \in Promise!Pending
      BY <1>2, <1>6, <3>1 DEF Waiting
    <3>2. CASE g \notin Promise!Pending
      BY <3>2, PendingIsLive DEF Waiting, Promise!Pending
    <3>3. QED
      BY <3>1, <3>2
  <2>2. Waiting' = [g \in Guid |-> IF accepted[g] = published[g].count THEN 0
                                   ELSE heap'[sessionMap[g]].idle]
    BY <1>1 DEF Waiting
  <2>3. QED
    BY <2>1, <2>2
<1>9. Reported' = Reported
  BY <1>1 DEF Reported
<1>10. QED
  BY <1>1, <1>7, <1>8, <1>9 DEF Promise!Second, Waiting, Reported

\* The program starts where the ledger does, with nothing accepted or reported
\* (server.cc:21-38).
LEMMA InitPromise == ServerInit => Promise!Init
<1> SUFFICES ASSUME ServerInit PROVE Promise!Init
  OBVIOUS
<1>1. Init
  BY DEF ServerInit
<1>2. QED
  BY <1>1 DEF Init, Promise!Init

\* Every behaviour of the server, its signals anywhere, is one of the ledger: no
\* report is early by the sweep's clock, none is repeated, and none is later than
\* three keepalives and the time a packet takes (server.cc:45,
\* serversession.cc:76-117, :163-168).
THEOREM ServerRefinement == ServerSpec => PromiseKept
<1>1. ServerInv /\ [ServerNext]_serverVars => [Promise!Next]_Promise!vars
  <2> SUFFICES ASSUME ServerInv, [ServerNext]_serverVars
               PROVE  Promise!Next \/ UNCHANGED Promise!vars
    OBVIOUS
  <2>1. CASE \/ Start \/ Bind \/ GiveUp \/ Count \/ GetServerSession \/ BeginSweep
             \/ SweepNext \/ SweepFree \/ EndSweep
             \/ \E p \in Ping : ReadPacket(p)
    BY <2>1, QuietSteps
  <2>2. CASE Record
    BY <2>2, RecordRefines
  <2>3. CASE SweepWrite
    BY <2>3, SweepWriteRefines DEF Promise!Next
  <2>4. CASE DeliverAlarm
    BY <2>4, DeliverAlarmRefines DEF Promise!Next
  <2>5. CASE PassSecond
    BY <2>5, PassSecondRefines DEF Promise!Next
  <2>6. CASE UNCHANGED serverVars
    <3>1. UNCHANGED <<sessionMap, heap, accepted, published>>
      BY <2>6 DEF serverVars, maps, counts
    <3>2. QED
      BY <3>1, LedgerStutter
  <2>7. QED
    BY <2>1, <2>2, <2>3, <2>4, <2>5, <2>6 DEF ServerNext, Step
<1>2. QED
  BY <1>1, InitPromise, ServerInvariant, PTL DEF ServerSpec, PromiseKept, Promise!Spec
=============================================================================
