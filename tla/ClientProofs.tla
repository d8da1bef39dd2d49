---------------------------- MODULE ClientProofs ----------------------------
(***************************************************************************)
(* Proofs about udping_client, for every command line, every list of       *)
(* interfaces, every number of ports and next hops and every course of the *)
(* clock from a second since 1970 that no period reaches (ClockAssumption).*)
(*                                                                         *)
(* First what the command line is made into: a list that was not refused   *)
(* holds the ports the usage text describes.  Then the loop: ClientInv     *)
(* says how far the program is (Started, NotYet) and, from the list on,    *)
(* that a session's number counts its pings (Numbered), whose an id is     *)
(* (Identified), which period it is for and when it may hold one stray     *)
(* (Dated), and that there is a round r and a hop m such that the sessions *)
(* that have had their turn are one hop ahead of the others                *)
(* (Balanced); the last two are what makes OnlyLastStrays and              *)
(* PathsBalanced inductive.  Last the frames, by FrameProofs.              *)
(***************************************************************************)
EXTENDS ClientMain, FrameProofs, FiniteSetTheorems

----------------------------------------------------------------------------
(* The list of source ports.                                               *)

Ranges == {range \in Seq(Int) : Len(range) \in {1, 2}}

\* f says what the first k ranges make of the list, for k up to n.
Makes(f, ranges, n) ==
  f = [k \in 0 .. n |-> IF k = 0 THEN <<>> ELSE AddRange(f[k - 1], ranges[k])]

\* Without a range the list is empty (clientsession.cc:60).
LEMMA MakesZero ==
  ASSUME NEW ranges
  PROVE  \E f : Makes(f, ranges, 0)
<1>1. Makes([k \in 0 .. 0 |-> <<>>], ranges, 0)
  BY DEF Makes
<1>2. QED
  BY <1>1

\* What the ranges make of the list can be told for one more of them
\* (clientsession.cc:71-102).
LEMMA MakesNext ==
  ASSUME NEW ranges, NEW n \in Nat, NEW f, Makes(f, ranges, n)
  PROVE  \E g : Makes(g, ranges, n + 1)
<1> DEFINE g == [k \in 0 .. (n + 1) |->
                   IF k = n + 1 THEN AddRange(f[n], ranges[n + 1]) ELSE f[k]]
<1>1. \A k \in 0 .. n : f[k] = IF k = 0 THEN <<>> ELSE AddRange(f[k - 1], ranges[k])
  BY DEF Makes
<1>2. ASSUME NEW k \in 0 .. (n + 1)
      PROVE  g[k] = IF k = 0 THEN <<>> ELSE AddRange(g[k - 1], ranges[k])
  <2>1. CASE k = n + 1
    <3>1. g[k] = AddRange(f[n], ranges[n + 1]) /\ g[k - 1] = f[n] /\ k # 0
      BY <2>1
    <3> HIDE DEF g
    <3>2. QED
      BY <2>1, <3>1
  <2>2. CASE k = 0
    BY <1>1, <2>2
  <2>3. CASE k # n + 1 /\ k # 0
    <3>1. g[k] = f[k] /\ g[k - 1] = f[k - 1] /\ k \in 0 .. n
      BY <2>3
    <3> HIDE DEF g
    <3>2. QED
      BY <1>1, <2>3, <3>1
  <2>4. QED
    BY <2>1, <2>2, <2>3
<1>3. g = [k \in 0 .. (n + 1) |-> g[k]]
  OBVIOUS
<1> HIDE DEF g
<1>4. Makes(g, ranges, n + 1)
  BY <1>2, <1>3 DEF Makes
<1>5. QED
  BY <1>4

\* Lists is the function it is meant to be (clientsession.cc:69-102).
LEMMA ListsMakes ==
  ASSUME NEW ranges, Len(ranges) \in Nat
  PROVE  Makes(Lists(ranges), ranges, Len(ranges))
<1> DEFINE Bad == {n \in Nat : ~ \E f : Makes(f, ranges, n)}
<1>1. Bad = {}
  <2> SUFFICES ASSUME Bad # {} PROVE FALSE
    OBVIOUS
  <2>1. PICK n \in Bad : \A k \in Bad : n <= k
    <3>1. Bad \in SUBSET Nat
      OBVIOUS
    <3> HIDE DEF Bad
    <3>2. QED
      BY <3>1, LeastNumber
  <2>2. n # 0
    BY MakesZero
  <2>3. n - 1 \in Nat /\ n - 1 \notin Bad
    BY <2>1, <2>2
  <2>4. PICK f : Makes(f, ranges, n - 1)
    BY <2>3
  <2>5. \E g : Makes(g, ranges, (n - 1) + 1)
    BY <2>3, <2>4, MakesNext
  <2>6. (n - 1) + 1 = n
    BY <2>1
  <2>7. QED
    BY <2>1, <2>5, <2>6
<1>2. \E f : Makes(f, ranges, Len(ranges))
  BY <1>1
<1>3. QED
  BY <1>2 DEF Lists, Makes

\* The ports of a valid range, in order (clientsession.cc:82-89).
LEMMA PortsOfRange ==
  ASSUME NEW range \in Ranges, ValidRange(range)
  PROVE  /\ PortsOf(range) \in Seq(MinPort .. MaxPort)
         /\ Range(PortsOf(range)) = Low(range) .. High(range)
<1>1. Low(range) \in MinPort .. MaxPort /\ High(range) \in MinPort .. MaxPort
      /\ Low(range) <= High(range)
  BY DEF ValidRange
<1>2. PICK low \in MinPort .. MaxPort, high \in MinPort .. MaxPort :
        low = Low(range) /\ high = High(range) /\ low <= high
  BY <1>1
<1>3. PortsOf(range) = [k \in 1 .. (high - low + 1) |-> low + k - 1]
  BY <1>2 DEF PortsOf
<1>4. high - low + 1 \in Nat
      /\ \A k \in 1 .. (high - low + 1) : low + k - 1 \in low .. high
  BY <1>2, StartAssumption
<1>5. PortsOf(range) \in Seq(MinPort .. MaxPort)
  <2>1. low .. high \subseteq MinPort .. MaxPort
    BY <1>2, StartAssumption
  <2>2. PICK n \in Nat : n = high - low + 1
    BY <1>4
  <2>3. PortsOf(range) \in [1 .. n -> MinPort .. MaxPort]
    BY <1>3, <1>4, <2>1, <2>2
  <2>4. QED
    BY <2>3, SeqDef
<1>6. \A p \in low .. high : p - low + 1 \in 1 .. (high - low + 1) /\ p = low + (p - low + 1) - 1
  BY <1>2, StartAssumption
<1>7. Range(PortsOf(range)) = low .. high
  <2>1. Range(PortsOf(range)) = {low + k - 1 : k \in 1 .. (high - low + 1)}
    BY <1>3 DEF Range
  <2>2. QED
    BY <1>4, <1>6, <2>1
<1>8. QED
  BY <1>2, <1>5, <1>7

\* What one list followed by another holds (clientsession.cc:84-94).
LEMMA RangeOfConcat ==
  ASSUME NEW S, NEW a \in Seq(S), NEW b \in Seq(S)
  PROVE  Range(a \o b) = Range(a) \cup Range(b)
<1>1. /\ Len(a) \in Nat /\ Len(b) \in Nat
      /\ DOMAIN a = 1 .. Len(a) /\ DOMAIN b = 1 .. Len(b)
      /\ DOMAIN (a \o b) = 1 .. (Len(a) + Len(b))
      /\ \A k \in 1 .. Len(a) : (a \o b)[k] = a[k]
      /\ \A k \in 1 .. Len(b) : (a \o b)[Len(a) + k] = b[k]
  OBVIOUS
<1>2. \A k \in 1 .. (Len(a) + Len(b)) :
        k \in 1 .. Len(a) \/ (k - Len(a) \in 1 .. Len(b) /\ k = Len(a) + (k - Len(a)))
  BY <1>1
<1>3. ASSUME NEW x \in Range(a \o b) PROVE x \in Range(a) \cup Range(b)
  <2>1. PICK k \in 1 .. (Len(a) + Len(b)) : x = (a \o b)[k]
    BY <1>1 DEF Range
  <2>2. QED
    BY <1>1, <1>2, <2>1 DEF Range
<1>4. ASSUME NEW x \in Range(a) PROVE x \in Range(a \o b)
  <2>1. PICK k \in 1 .. Len(a) : x = a[k]
    BY <1>1 DEF Range
  <2>2. QED
    BY <1>1, <2>1 DEF Range
<1>5. ASSUME NEW x \in Range(b) PROVE x \in Range(a \o b)
  <2>1. PICK k \in 1 .. Len(b) : x = b[k]
    BY <1>1 DEF Range
  <2>2. Len(a) + k \in 1 .. (Len(a) + Len(b))
    BY <1>1
  <2>3. QED
    BY <1>1, <2>1, <2>2 DEF Range
<1>6. QED
  BY <1>3, <1>4, <1>5

\* What the constructor may have made of its first ranges: their ports and no
\* others, each allowed, no more than allowed, and some if there was a range
\* (clientsession.cc:69-102).
Made(ports, ranges, n) ==
  \/ ports = Refused
  \/ /\ ports \in Seq(MinPort .. MaxPort)
     /\ Len(ports) <= MaxSockets
     /\ Range(ports) = UNION {Low(ranges[j]) .. High(ranges[j]) : j \in 1 .. n}
     /\ ports # <<>> \/ n = 0

\* What is made of no range is an empty list, which is not refused: the test for
\* one is inside the loop (clientsession.cc:71-102).
LEMMA MadeNone ==
  ASSUME NEW ranges
  PROVE  Made(<<>>, ranges, 0)
<1>1. <<>> \in Seq(MinPort .. MaxPort) /\ Len(<<>>) = 0 /\ DOMAIN <<>> = {}
  OBVIOUS
<1>2. Range(<<>>) = {} /\ UNION {Low(ranges[j]) .. High(ranges[j]) : j \in 1 .. 0} = {}
  BY <1>1 DEF Range
<1>3. QED
  BY <1>1, <1>2, StartAssumption DEF Made

\* One more range adds its ports, or the client exits (clientsession.cc:72-102).
LEMMA MadeOneMore ==
  ASSUME NEW ranges \in Seq(Ranges), NEW n \in Nat, n + 1 <= Len(ranges),
         NEW ports, Made(ports, ranges, n)
  PROVE  Made(AddRange(ports, ranges[n + 1]), ranges, n + 1)
<1> SUFFICES ASSUME AddRange(ports, ranges[n + 1]) # Refused
             PROVE  Made(AddRange(ports, ranges[n + 1]), ranges, n + 1)
  BY DEF Made
<1> DEFINE range == ranges[n + 1]
           spans(m) == UNION {Low(ranges[j]) .. High(ranges[j]) : j \in 1 .. m}
<1>1. range \in Ranges
  OBVIOUS
<1>2. ports # Refused /\ ValidRange(range)
  BY DEF AddRange
<1>3. /\ AddRange(ports, range) = ports \o PortsOf(range)
      /\ ~ Len(ports \o PortsOf(range)) > MaxSockets
  BY <1>2 DEF AddRange
<1>4. PortsOf(range) \in Seq(MinPort .. MaxPort)
      /\ Range(PortsOf(range)) = Low(range) .. High(range)
  BY <1>1, <1>2, PortsOfRange
<1>5. ports \in Seq(MinPort .. MaxPort) /\ Range(ports) = spans(n)
  BY <1>2 DEF Made
<1>6. ports \o PortsOf(range) \in Seq(MinPort .. MaxPort)
      /\ Len(ports \o PortsOf(range)) \in Nat
  BY <1>4, <1>5
<1>7. Range(ports \o PortsOf(range)) = spans(n) \cup (Low(range) .. High(range))
  <2>1. Range(ports \o PortsOf(range)) = Range(ports) \cup Range(PortsOf(range))
    <3>1. PICK more \in Seq(MinPort .. MaxPort) : more = PortsOf(range)
      BY <1>4
    <3>2. ports \in Seq(MinPort .. MaxPort)
      BY <1>5
    <3>3. Range(ports \o more) = Range(ports) \cup Range(more)
      BY ONLY <3>2, more \in Seq(MinPort .. MaxPort), RangeOfConcat
    <3>4. QED
      BY <3>1, <3>3
  <2>2. QED
    BY <1>4, <1>5, <2>1
<1>8. spans(n + 1) = spans(n) \cup (Low(range) .. High(range))
  <2>1. \A j : j \in 1 .. (n + 1) <=> j \in 1 .. n \/ j = n + 1
    OBVIOUS
  <2>2. ASSUME NEW x
        PROVE  x \in spans(n + 1) <=> x \in spans(n) \/ x \in Low(range) .. High(range)
    <3>1. x \in spans(n + 1) <=> \E j \in 1 .. (n + 1) : x \in Low(ranges[j]) .. High(ranges[j])
      OBVIOUS
    <3>2. x \in spans(n) <=> \E j \in 1 .. n : x \in Low(ranges[j]) .. High(ranges[j])
      OBVIOUS
    <3>3. n + 1 \in 1 .. (n + 1)
      OBVIOUS
    <3>4. QED
      BY <2>1, <3>1, <3>2, <3>3, Zenon
  <2>3. QED
    BY <2>2
<1>9. Len(ports \o PortsOf(range)) <= MaxSockets
  BY <1>3, <1>6, StartAssumption
<1>10. ports \o PortsOf(range) # <<>>
  <2>1. Low(range) \in Range(PortsOf(range))
    BY <1>1, <1>2, <1>4, StartAssumption DEF ValidRange
  <2>2. Low(range) \in Range(ports \o PortsOf(range))
    BY <1>7, <1>4, <2>1
  <2>3. Range(<<>>) = {}
    BY DEF Range
  <2>4. QED
    BY <2>2, <2>3
<1>11. QED
  BY <1>3, <1>6, <1>7, <1>8, <1>9, <1>10 DEF Made

\* However many ranges there are (clientsession.cc:69-102).
LEMMA MadeAll ==
  ASSUME NEW ranges \in Seq(Ranges)
  PROVE  Made(Lists(ranges)[Len(ranges)], ranges, Len(ranges))
<1> DEFINE lists == Lists(ranges)
           Bad == {n \in 0 .. Len(ranges) : ~ Made(lists[n], ranges, n)}
<1>1. Len(ranges) \in Nat
  OBVIOUS
<1>2. \A k \in 0 .. Len(ranges) :
        lists[k] = IF k = 0 THEN <<>> ELSE AddRange(lists[k - 1], ranges[k])
  <2>1. Makes(lists, ranges, Len(ranges))
    BY <1>1, ListsMakes
  <2> HIDE DEF lists
  <2>2. QED
    BY <2>1 DEF Makes
<1> HIDE DEF lists
<1>3. Bad = {}
  <2> SUFFICES ASSUME Bad # {} PROVE FALSE
    OBVIOUS
  <2>1. Bad \in SUBSET Nat
    BY <1>1
  <2>2. PICK n \in Bad : \A k \in Bad : n <= k
    <3> HIDE DEF Bad
    <3>1. QED
      BY <2>1, LeastNumber
  <2>3. n \in 0 .. Len(ranges) /\ ~ Made(lists[n], ranges, n)
    BY <2>2
  <2>4. n # 0
    BY <1>2, <2>3, MadeNone
  <2>5. n - 1 \in 0 .. Len(ranges) /\ n - 1 \in Nat /\ n - 1 \notin Bad
    BY <1>1, <2>2, <2>3, <2>4
  <2>6. Made(lists[n - 1], ranges, n - 1)
    BY <2>5
  <2>7. Made(AddRange(lists[n - 1], ranges[(n - 1) + 1]), ranges, (n - 1) + 1)
    BY <1>1, <2>3, <2>5, <2>6, MadeOneMore
  <2>8. (n - 1) + 1 = n
    BY <2>3
  <2>9. lists[n] = AddRange(lists[n - 1], ranges[n])
    BY <1>2, <2>3, <2>4
  <2>10. QED
    BY <2>3, <2>7, <2>8, <2>9
<1>4. QED
  BY <1>1, <1>3 DEF lists

----------------------------------------------------------------------------
(* The command line.                                                       *)

\* The options the checks let through are numbers in their ranges
\* (client.cc:35-64).
LEMMA AcceptedNumbers ==
  ASSUME NEW line \in CommandLines, OptionsAccepted(line)
  PROVE  /\ line.i \in 1 .. 900 /\ line.i <= FirstSecond
         /\ line.m \in 1 .. MaxBuf
         /\ line.n = Absent \/ (line.n \in 1 .. MaxSockets)
         /\ line.p \in Nat
         /\ line.s \in SourceArgs
         /\ NumMacs(line) \in Nat \ {0}
<1>1. CommandLine(line)
  BY ClientAssumption
<1>2. line.i \in 1 .. 900 /\ line.m \in 1 .. MaxBuf
      /\ (line.n = Absent \/ line.n \in 1 .. MaxSockets)
      /\ line.p \in MinPort .. MaxDstPort
  BY DEF OptionsAccepted, IntOption
<1>3. line["s"] # Absent /\ line["a"] # Absent
  BY DEF OptionsAccepted, StringOption
<1>4. line.s \in SourceArgs /\ line.a \in Seq(BOOLEAN)
  BY <1>1, <1>3 DEF CommandLine
<1>5. NumMacs(line) \in Nat \ {0}
  BY <1>4 DEF NumMacs, OptionsAccepted
<1>6. line.p \in Nat
  BY <1>2, StartAssumption
<1>7. QED
  BY <1>2, <1>4, <1>5, <1>6, ClockAssumption

\* A list the constructor accepts holds the ports the usage text describes, all
\* of them allowed and no more than allowed; it is empty if -s has no range
\* (client.cc:42-64, clientsession.cc:60-104).
LEMMA AcceptedPorts ==
  ASSUME NEW line \in CommandLines, OptionsAccepted(line), PortList(line) # Refused
  PROVE  /\ PortList(line) \in Seq(MinPort .. MaxPort)
         /\ Len(PortList(line)) <= MaxSockets
         /\ Range(PortList(line)) = DescribedPorts(line)
         /\ (PortList(line) = <<>>) <=> (line.s.ranges = <<>>)
<1> DEFINE ranges == SourceRanges(line)
           n == Len(ranges)
           spans == UNION {Low(ranges[j]) .. High(ranges[j]) : j \in 1 .. n}
<1>1. /\ line.s.ranges \in Seq(Ranges)
      /\ line.n = Absent \/ line.n \in 1 .. MaxSockets
      /\ line.s.form # "other"
      /\ line.s.form = "number" => Len(line.s.ranges) = 1 /\ Len(line.s.ranges[1]) = 1
  BY AcceptedNumbers DEF SourceArgs, Ranges, PortList
<1>2. Absent \notin Int
  BY StartAssumption
<1>3. ranges \in Seq(Ranges) /\ (PortList(line) = Lists(ranges)[n])
  <2>1. CASE SinglePort(line)
    <3> DEFINE first == line.s.ranges[1][1]
               range == <<first, first + line.n - 1>>
    <3>1. line.s.ranges[1] \in Ranges /\ line.n \in Int
      BY <1>1, <2>1, StartAssumption DEF SinglePort, IntValue
    <3>2. first \in Int
      BY <2>1, <3>1 DEF SinglePort, Ranges
    <3>3. range \in Ranges
      BY <3>1, <3>2 DEF Ranges
    <3>4. ranges = <<range>>
      BY <2>1 DEF SourceRanges
    <3>5. QED
      BY <1>1, <3>3, <3>4 DEF PortList
  <2>2. CASE ~ SinglePort(line)
    BY <1>1, <2>2 DEF PortList, SourceRanges
  <2>3. QED
    BY <2>1, <2>2
<1>4. n \in Nat /\ DOMAIN ranges = 1 .. n
  BY <1>3
<1>5. Made(PortList(line), ranges, n)
  BY <1>3, MadeAll
<1>6. /\ PortList(line) \in Seq(MinPort .. MaxPort)
      /\ Len(PortList(line)) <= MaxSockets
      /\ Range(PortList(line)) = spans
  BY <1>5 DEF Made
<1>7. spans = DescribedPorts(line)
  <2>1. CASE SinglePort(line)
    <3> DEFINE first == line.s.ranges[1][1]
    <3>1. line.n # Absent
      BY <2>1 DEF SinglePort, IntValue
    <3>2. ranges = <<<<first, first + line.n - 1>>>>
      BY <2>1 DEF SourceRanges
    <3>3. n = 1 /\ Low(ranges[1]) = first /\ High(ranges[1]) = first + line.n - 1
      BY <3>2 DEF Low, High
    <3>4. spans = first .. (first + line.n - 1)
      <4>1. 1 .. n = {1}
        BY <3>3
      <4>2. QED
        BY <3>3, <4>1
    <3>5. QED
      BY <2>1, <3>1, <3>4 DEF SinglePort, DescribedPorts
  <2>2. CASE ~ SinglePort(line)
    <3>1. ranges = line.s.ranges
      BY <2>2 DEF SourceRanges
    <3>2. ~ (line.s.form = "number" /\ line.n # Absent)
      <4> SUFFICES ASSUME line.s.form = "number", line.n # Absent
                   PROVE  FALSE
        OBVIOUS
      <4>1. ranges[1] \in Ranges /\ n = 1
        BY <1>1, <3>1
      <4>2. ranges[1][1] \in Int /\ ~ (ranges[1][1] > 0)
        BY <1>1, <2>2, <3>1, <4>1 DEF SinglePort, IntValue, Ranges
      <4>3. ~ ValidRange(ranges[1])
        BY <4>2, StartAssumption DEF ValidRange, Low
      <4>4. Lists(ranges)[1] = Refused
        <5>1. Makes(Lists(ranges), ranges, 1)
          <6>1. PICK some \in Seq(Ranges) : some = ranges
            BY <1>3
          <6>2. Len(some) = 1 /\ Len(some) \in Nat
            BY <4>1, <6>1
          <6>3. Makes(Lists(some), some, Len(some))
            BY ONLY <6>2, ListsMakes
          <6>4. QED
            BY <6>1, <6>2, <6>3
        <5>2. Lists(ranges)[1] = AddRange(Lists(ranges)[0], ranges[1])
          <6> DEFINE lists == Lists(ranges)
          <6>1. Makes(lists, ranges, 1)
            BY <5>1
          <6> HIDE DEF lists
          <6>2. lists[1] = AddRange(lists[0], ranges[1])
            BY <6>1 DEF Makes
          <6>3. QED
            BY <6>2 DEF lists
        <5>3. QED
          BY <4>3, <5>2 DEF AddRange
      <4>5. QED
        BY <1>3, <4>1, <4>4
    <3>3. DescribedPorts(line) = UNION {Low(range) .. High(range) : range \in Range(ranges)}
      BY <3>1, <3>2, Zenon DEF DescribedPorts
    <3>4. ASSUME NEW port
          PROVE  port \in spans <=> port \in DescribedPorts(line)
      <4>1. port \in spans <=> \E j \in 1 .. n : port \in Low(ranges[j]) .. High(ranges[j])
        OBVIOUS
      <4>2. port \in DescribedPorts(line)
              <=> \E range \in Range(ranges) : port \in Low(range) .. High(range)
        BY ONLY <3>3, Zenon
      <4>3. \A range : range \in Range(ranges) <=> \E j \in 1 .. n : range = ranges[j]
        BY <1>4 DEF Range
      <4>4. QED
        BY ONLY <4>1, <4>2, <4>3, Zenon
    <3>5. spans = DescribedPorts(line)
      <4> HIDE DEF spans
      <4>1. QED
        <5> DEFINE described == DescribedPorts(line)
        <5>1. \A port : port \in spans <=> port \in described
          BY <3>4
        <5>2. QED
          <6> HIDE DEF described
          <6>1. spans = described
            BY <5>1
          <6>2. QED
            BY <6>1 DEF described
    <3>6. QED
      BY <3>5
  <2>3. QED
    BY <2>1, <2>2
<1>8. (PortList(line) = <<>>) <=> (line.s.ranges = <<>>)
  <2>1. PortList(line) # <<>> \/ n = 0
    BY <1>5 DEF Made
  <2>2. n = 0 => ranges = <<>>
    BY <1>3
  <2>3. ranges = <<>> => line.s.ranges = <<>>
    BY DEF SourceRanges
  <2>4. ASSUME line.s.ranges = <<>>
        PROVE  PortList(line) = <<>>
    <3>1. ~ SinglePort(line)
      BY <1>1, <2>4 DEF SinglePort
    <3>2. n = 0
      BY <2>4, <3>1 DEF SourceRanges
    <3>3. spans = {}
      BY <3>2
    <3>4. DOMAIN PortList(line) = {}
      BY <1>6, <3>3 DEF Range
    <3>5. QED
      BY <1>6, <3>4
  <2>5. QED
    BY <2>1, <2>2, <2>3, <2>4
<1>9. QED
  BY <1>6, <1>7, <1>8

\* The walk of the interfaces ends at none, or at one that has the address or has
\* none at all (ifinfo.cc:44-52).
LEMMA InterfaceFound ==
  ASSUME NEW addr, FoundInterface(addr) # 0
  PROVE  /\ FoundInterface(addr) \in DOMAIN Interfaces
         /\ Interfaces[FoundInterface(addr)].addr \in {addr, Absent}
<1> DEFINE found == {k \in DOMAIN Interfaces : Interfaces[k].addr \in {addr, Absent}}
<1>1. found \in SUBSET Nat /\ found # {}
  <2>1. Interfaces \in Seq(Range(Interfaces))
    BY StartAssumption
  <2>2. DOMAIN Interfaces \subseteq Nat
    BY <2>1
  <2>3. found # {}
    BY DEF FoundInterface
  <2>4. QED
    BY <2>2, <2>3
<1>2. FoundInterface(addr) = Min(found)
  BY <1>1 DEF FoundInterface
<1>3. \E m \in found : \A k \in found : m <= k
  <2> HIDE DEF found
  <2>1. QED
    BY <1>1, LeastNumber
<1>4. Min(found) \in found
  <2> HIDE DEF found
  <2>1. QED
    BY <1>3 DEF Min
<1>5. QED
  BY <1>2, <1>4

----------------------------------------------------------------------------
(* The inductive invariant.                                                *)

\* How far the program has come, and what it has made of its command line.
Started ==
  /\ opts \in CommandLines
  /\ user \in {"root", "other", "nobody"}
  /\ phase \in {"options", "list", "user", "choose", "send", "exited", "crashed"}
  /\ ifIndex \in {0} \cup {entry.index : entry \in Range(Interfaces)}
  /\ phase \in {"list", "user", "choose", "send"} => OptionsAccepted(opts)
  /\ Running => user = "nobody"
  /\ phase \in {"user", "choose", "send"} =>
       /\ list = PortList(opts) /\ list # Refused
       /\ \E entry \in Range(Interfaces) : entry.addr = opts.l /\ entry.index = ifIndex

\* Before its first turn the loop is where it begins, and an empty list has no turn.
NotYet ==
  /\ ~ Running \/ list = <<>> =>
       /\ now = FirstSecond /\ curSession = 1 /\ chosen = 1
       /\ sent = <<>> /\ phase # "send"
  /\ phase = "user" =>
       \A i \in DOMAIN list : /\ sessions[i].seqNum = 0
                              /\ sessions[i].lastRollover = 0
                              /\ sessions[i].curMac = NumMacs(opts)

\* The list of sessions is there.
Listed == phase \in {"user", "choose", "send"} /\ list # <<>>

\* What the loop works on, from the moment the list is made.
Looping ==
  /\ now \in FirstSecond .. LastSecond
  /\ curSession \in DOMAIN list /\ chosen \in DOMAIN list
  /\ sessions \in [DOMAIN list -> Loop!Session]
  /\ used \subseteq Guid
  /\ sent \in Seq(Loop!Packet)
  /\ phase = "send" => curSession = Loop!NextSession(chosen)

\* The pings of session i among the first n.
PingsOf(i, n) == {j \in 1 .. n : sent[j].session = i}

\* A session's number counts its pings, under whatever id.
Numbered ==
  \A i \in DOMAIN list : sessions[i].seqNum = Cardinality(PingsOf(i, Len(sent))) % SeqMod

\* The ids in use are different ones, and the pings of each are of its session.
Identified ==
  /\ \A i \in DOMAIN list : sessions[i].guid \in used
  /\ \A i, j \in DOMAIN list : sessions[i].guid = sessions[j].guid => i = j
  /\ \A k \in DOMAIN sent : sent[k].guid \in used
  /\ \A k \in DOMAIN sent, i \in DOMAIN list :
       sent[k].guid = sessions[i].guid => sent[k].session = i

\* The period a session's id is for: its pings are of it, but for one that was
\* stamped after it ended, and between the two halves of a turn all are.
Dated ==
  /\ \A k \in DOMAIN sent : sent[k].stamp <= now
  /\ \A i \in DOMAIN list : sessions[i].lastRollover <= Loop!Period(now)
  /\ \A k \in DOMAIN sent, i \in DOMAIN list :
       sent[k].guid = sessions[i].guid =>
         /\ sessions[i].lastRollover # 0
         /\ sessions[i].lastRollover <= Loop!Period(sent[k].stamp)
  /\ \A k, l \in DOMAIN sent, i \in DOMAIN list :
       /\ k < l
       /\ sent[k].guid = sessions[i].guid /\ sent[l].guid = sessions[i].guid
       => Loop!Period(sent[k].stamp) = sessions[i].lastRollover
  /\ phase = "send" =>
       /\ sessions[chosen].lastRollover # 0
       /\ \A k \in DOMAIN sent :
            sent[k].guid = sessions[chosen].guid =>
              Loop!Period(sent[k].stamp) = sessions[chosen].lastRollover

\* How often the hops up to m, and the ones after it, have been used when the
\* hop last used is m and every hop has been used r times before this round.
Carried(r, m, n) == IF n <= m THEN r + 1 ELSE r

\* The session whose turn is next to end.
Turn == IF phase = "send" THEN chosen ELSE curSession

\* Session i has come to hop m and used every hop as often as round r says.
AtHop(i, r, m) ==
  /\ sessions[i].curMac = m
  /\ \A n \in 1 .. NumMacs(opts) : Loop!Sends(i, n) = Carried(r, m, n)

\* Round r is on hop m: the sessions that have had their turn are one hop ahead.
Round(r, m) ==
  \A i \in DOMAIN list :
    IF i >= Turn THEN AtHop(i, r, m)
    ELSE IF m < NumMacs(opts) THEN AtHop(i, r, m + 1) ELSE AtHop(i, r + 1, 1)

Balanced == \E r \in Int, m \in 1 .. NumMacs(opts) : Round(r, m)

ClientInv ==
  /\ Started /\ NotYet
  /\ SequenceContinues /\ OnlyLastStrays
  /\ Listed => Looping /\ Numbered /\ Identified /\ Dated /\ Balanced

----------------------------------------------------------------------------
(* Facts the steps need.                                                   *)

\* A later second is of no earlier period, and a second past the first period
\* since 1970 is not of that period (clientsession.cc:146-152).
LEMMA PeriodsPass ==
  ASSUME NEW d \in Nat, d > 0, NEW t \in Nat, NEW u \in Nat, t <= u
  PROVE  /\ t - (t % d) \in Nat
         /\ t - (t % d) <= t
         /\ t - (t % d) <= u - (u % d)
         /\ t >= d => t - (t % d) # 0
<1>1. t % d \in 0 .. (d - 1) /\ u % d \in 0 .. (d - 1)
  OBVIOUS
<1>2. t = d * (t \div d) + (t % d) /\ u = d * (u \div d) + (u % d)
      /\ t \div d \in Nat /\ u \div d \in Nat
  OBVIOUS
<1>3. PICK a \in Nat, b \in Nat : a = t \div d /\ b = u \div d
  BY <1>2
<1>4. PICK x \in 0 .. (d - 1), y \in 0 .. (d - 1) : x = t % d /\ y = u % d
  BY <1>1
<1>5. t = d * a + x /\ u = d * b + y
  BY <1>2, <1>3, <1>4
<1>6. a <= b
  <2>1. SUFFICES ASSUME b + 1 <= a PROVE FALSE
    BY <1>3
  <2>2. d * (b + 1) <= d * a
    BY <2>1
  <2>3. d * (b + 1) = d * b + d
    OBVIOUS
  <2>4. d * a \in Nat /\ d * b \in Nat
    OBVIOUS
  <2>5. QED
    BY <1>4, <1>5, <2>2, <2>3, <2>4
<1>7. d * a <= d * b /\ d * a \in Nat /\ d * b \in Nat
  BY <1>6
<1>8. t - x = d * a /\ u - y = d * b
  BY <1>4, <1>5, <1>7
<1>9. t >= d => d * a # 0
  BY <1>4, <1>5, <1>7
<1>10. QED
  BY <1>4, <1>7, <1>8, <1>9

\* One more ping is counted if it is of the kind that is counted
\* (clientsession.cc:163-173).
LEMMA OneMore ==
  ASSUME NEW n \in Nat, NEW S \in SUBSET (1 .. n), NEW T \in SUBSET (1 .. (n + 1)),
         \A k \in 1 .. n : k \in T <=> k \in S
  PROVE  /\ Cardinality(S) \in Nat
         /\ n + 1 \in T => Cardinality(T) = Cardinality(S) + 1
         /\ n + 1 \notin T => Cardinality(T) = Cardinality(S)
<1>1. IsFiniteSet(S)
  <2>1. IsFiniteSet(1 .. n)
    BY FS_Interval
  <2>2. QED
    BY <2>1, FS_Subset
<1>2. \A k \in 1 .. (n + 1) : k \in 1 .. n \/ k = n + 1
  OBVIOUS
<1>3. n + 1 \notin S
  OBVIOUS
<1>4. CASE n + 1 \in T
  <2>1. T = S \cup {n + 1}
    BY <1>2, <1>4
  <2>2. QED
    BY <1>1, <1>3, <1>4, <2>1, FS_AddElement, FS_CardinalityType
<1>5. CASE n + 1 \notin T
  <2>1. T = S
    BY <1>2, <1>5
  <2>2. QED
    BY <1>1, <1>5, <2>1, FS_CardinalityType
<1>6. QED
  BY <1>4, <1>5

\* The loop counts its pings as the program around it does (clientsession.cc:163-173).
LEMMA SameCount == \A S : Loop!Cardinality(S) = Cardinality(S)
BY DEF Cardinality, Loop!Cardinality

\* What a session of the loop divides by (client.cc:35-64).
LEMMA LoopNumbers ==
  ASSUME ClientInv, Listed
  PROVE  /\ OptionsAccepted(opts)
         /\ opts.i \in Nat /\ opts.i > 0 /\ opts.i <= FirstSecond
         /\ NumMacs(opts) \in Nat /\ NumMacs(opts) > 0
         /\ list \in Seq(MinPort .. MaxPort)
         /\ Len(list) \in Nat /\ Len(list) > 0 /\ DOMAIN list = 1 .. Len(list)
         /\ SeqMod \in Nat /\ SeqMod > 0
         /\ FirstSecond \in Nat /\ LastSecond \in Nat
<1>1. opts \in CommandLines /\ OptionsAccepted(opts) /\ list = PortList(opts)
      /\ list # Refused /\ list # <<>>
  BY DEF ClientInv, Started, Listed
<1>2. opts.i \in 1 .. 900 /\ opts.i <= FirstSecond /\ NumMacs(opts) \in Nat \ {0}
  BY <1>1, AcceptedNumbers
<1>3. list \in Seq(MinPort .. MaxPort)
  BY <1>1, AcceptedPorts
<1>4. Len(list) \in Nat /\ Len(list) > 0 /\ DOMAIN list = 1 .. Len(list)
  BY <1>1, <1>3
<1>5. SeqMod \in Nat \ {0} /\ FirstSecond \in Nat /\ LastSecond \in Nat
  BY ClientAssumption
<1>6. opts.i \in Nat /\ opts.i > 0 /\ NumMacs(opts) > 0
  <2>1. opts.i \in Nat /\ opts.i > 0
    BY ONLY <1>2, SMTT(30)
  <2>2. ASSUME NEW n \in Nat \ {0}
        PROVE  n > 0
    OBVIOUS
  <2>3. QED
    BY <1>2, <2>1, <2>2
<1>7. QED
  BY ONLY <1>1, <1>2, <1>3, <1>4, <1>5, <1>6

----------------------------------------------------------------------------
(* A ping is sent.                                                         *)

\* The second half of a turn, field by field (clientsession.cc:163-214).
LEMMA SentOne ==
  ASSUME ClientInv, list # <<>>, UNCHANGED start, Loop!SendPingPacket
  PROVE  /\ Listed /\ Listed' /\ phase = "send" /\ phase' = "choose"
         /\ chosen \in DOMAIN list
         /\ Loop!NextMac(chosen) \in 1 .. NumMacs(opts)
         /\ UNCHANGED <<now, curSession, chosen, used, opts, list, user, ifIndex>>
         /\ Len(sent) \in Nat /\ DOMAIN sent = 1 .. Len(sent)
         /\ Len(sent') = Len(sent) + 1 /\ DOMAIN sent' = 1 .. (Len(sent) + 1)
         /\ sent' \in Seq(Loop!Packet)
         /\ \A k \in 1 .. Len(sent) : sent'[k] = sent[k]
         /\ sent'[Len(sent) + 1] =
              [session |-> chosen, guid |-> sessions[chosen].guid,
               seqNum |-> sessions[chosen].seqNum, stamp |-> now,
               mac |-> Loop!NextMac(chosen)]
         /\ sessions' \in [DOMAIN list -> Loop!Session]
         /\ \A i \in DOMAIN list \ {chosen} : sessions'[i] = sessions[i]
         /\ sessions'[chosen] =
              [guid |-> sessions[chosen].guid,
               seqNum |-> (sessions[chosen].seqNum + 1) % SeqMod,
               lastRollover |-> sessions[chosen].lastRollover,
               curMac |-> Loop!NextMac(chosen)]
<1> DEFINE ping == [session |-> chosen, guid |-> sessions[chosen].guid,
                    seqNum |-> sessions[chosen].seqNum, stamp |-> now,
                    mac |-> Loop!NextMac(chosen)]
           next == [guid |-> sessions[chosen].guid,
                    seqNum |-> (sessions[chosen].seqNum + 1) % SeqMod,
                    lastRollover |-> sessions[chosen].lastRollover,
                    curMac |-> Loop!NextMac(chosen)]
<1>1. /\ phase = "send" /\ phase' = "choose"
      /\ UNCHANGED <<now, curSession, chosen, used, opts, list, user, ifIndex>>
      /\ sent' = Append(sent, ping)
      /\ sessions' = [sessions EXCEPT ![chosen].curMac = Loop!NextMac(chosen),
                                      ![chosen].seqNum = (@ + 1) % SeqMod]
  BY DEF Loop!SendPingPacket, start
<1>2. Listed /\ Listed'
  BY <1>1 DEF Listed
<1>3. Looping
  BY <1>2 DEF ClientInv
<1>4. /\ NumMacs(opts) \in Nat /\ NumMacs(opts) > 0
      /\ SeqMod \in Nat /\ SeqMod > 0
      /\ FirstSecond \in Nat /\ LastSecond \in Nat
  BY <1>2, LoopNumbers
<1>5. chosen \in DOMAIN list /\ sessions \in [DOMAIN list -> Loop!Session]
      /\ now \in Nat /\ sent \in Seq(Loop!Packet)
  BY <1>3, <1>4 DEF Looping
<1>6. sessions[chosen] \in Loop!Session
  BY <1>5
<1>7. /\ sessions[chosen].guid \in Guid
      /\ sessions[chosen].seqNum \in 0 .. (SeqMod - 1)
      /\ sessions[chosen].lastRollover \in Nat
      /\ sessions[chosen].curMac \in 1 .. NumMacs(opts)
  BY <1>6 DEF Loop!Session
<1>8. Loop!NextMac(chosen) \in 1 .. NumMacs(opts)
  BY <1>4, <1>7 DEF Loop!NextMac
<1>9. ping \in Loop!Packet
  BY <1>5, <1>7, <1>8 DEF Loop!Packet, Loop!Sessions
<1>10. next \in Loop!Session
  <2>1. (sessions[chosen].seqNum + 1) % SeqMod \in 0 .. (SeqMod - 1)
    BY <1>4, <1>7
  <2>2. QED
    BY <1>7, <1>8, <2>1 DEF Loop!Session
<1>11. sessions' = [sessions EXCEPT ![chosen] = next]
  <2> DEFINE changed == [sessions[chosen] EXCEPT
                           !.curMac = Loop!NextMac(chosen),
                           !.seqNum = (sessions[chosen].seqNum + 1) % SeqMod]
  <2>1. sessions' = [sessions EXCEPT ![chosen] = changed]
    BY <1>1
  <2>2. changed = next
    <3>1. PICK g \in Guid, q \in 0 .. (SeqMod - 1), t \in Nat, m \in 1 .. NumMacs(opts) :
            sessions[chosen] = [guid |-> g, seqNum |-> q, lastRollover |-> t, curMac |-> m]
      BY <1>6 DEF Loop!Session
    <3>2. ASSUME NEW x, NEW y
          PROVE  [[guid |-> g, seqNum |-> q, lastRollover |-> t, curMac |-> m]
                    EXCEPT !.curMac = x, !.seqNum = y]
                 = [guid |-> g, seqNum |-> y, lastRollover |-> t, curMac |-> x]
      <4>1. [[guid |-> g, seqNum |-> q, lastRollover |-> t, curMac |-> m] EXCEPT !.curMac = x]
            = [guid |-> g, seqNum |-> q, lastRollover |-> t, curMac |-> x]
        OBVIOUS
      <4>2. [[guid |-> g, seqNum |-> q, lastRollover |-> t, curMac |-> x] EXCEPT !.seqNum = y]
            = [guid |-> g, seqNum |-> y, lastRollover |-> t, curMac |-> x]
        OBVIOUS
      <4>3. QED
        BY <4>1, <4>2
    <3>3. /\ sessions[chosen].guid = g
          /\ sessions[chosen].lastRollover = t
      BY <3>1
    <3>4. changed = [guid |-> g, seqNum |-> (sessions[chosen].seqNum + 1) % SeqMod,
                     lastRollover |-> t, curMac |-> Loop!NextMac(chosen)]
      BY ONLY <3>1, <3>2
    <3>5. QED
      BY <3>3, <3>4
  <2>3. QED
    BY <2>1, <2>2
<1>12. /\ Len(sent) \in Nat /\ DOMAIN sent = 1 .. Len(sent)
       /\ Len(sent') = Len(sent) + 1 /\ DOMAIN sent' = 1 .. (Len(sent) + 1)
       /\ sent' \in Seq(Loop!Packet)
       /\ \A k \in 1 .. Len(sent) : sent'[k] = sent[k]
       /\ sent'[Len(sent) + 1] = ping
  <2> HIDE DEF ping
  <2>1. QED
    BY <1>1, <1>5, <1>9
<1>13. /\ sessions' \in [DOMAIN list -> Loop!Session]
       /\ \A i \in DOMAIN list \ {chosen} : sessions'[i] = sessions[i]
       /\ sessions'[chosen] = next
  <2> HIDE DEF next
  <2>1. QED
    BY <1>5, <1>10, <1>11
<1>14. QED
  BY <1>1, <1>2, <1>5, <1>8, <1>12, <1>13

\* The numbers of a session go on from the last (clientsession.cc:163-173).
LEMMA SendNumbers ==
  ASSUME ClientInv, list # <<>>, UNCHANGED start, Loop!SendPingPacket
  PROVE  Numbered' /\ SequenceContinues'
<1> DEFINE n == Len(sent)
           pings(i, m) == {j \in 1 .. m : sent[j].session = i}
           after(i, m) == {j \in 1 .. m : sent'[j].session = i}
<1>1. /\ Listed /\ list' = list /\ chosen \in DOMAIN list
      /\ n \in Nat /\ DOMAIN sent = 1 .. n
      /\ Len(sent') = n + 1 /\ DOMAIN sent' = 1 .. (n + 1)
      /\ \A k \in 1 .. n : sent'[k] = sent[k]
      /\ sent'[n + 1].session = chosen
      /\ sent'[n + 1].seqNum = sessions[chosen].seqNum
      /\ \A i \in DOMAIN list \ {chosen} : sessions'[i] = sessions[i]
      /\ sessions'[chosen].seqNum = (sessions[chosen].seqNum + 1) % SeqMod
  BY SentOne
<1>2. SeqMod \in Nat /\ SeqMod > 0
  BY <1>1, LoopNumbers
<1>3. \A i \in DOMAIN list : sessions[i].seqNum = Cardinality(pings(i, n)) % SeqMod
  BY <1>1 DEF ClientInv, Numbered, PingsOf
<1>4. ASSUME NEW i \in DOMAIN list
      PROVE  /\ Cardinality(pings(i, n)) \in Nat
             /\ i = chosen => Cardinality(after(i, n + 1)) = Cardinality(pings(i, n)) + 1
             /\ i # chosen => Cardinality(after(i, n + 1)) = Cardinality(pings(i, n))
  <2> DEFINE S == pings(i, n)
             T == after(i, n + 1)
  <2>1. S \in SUBSET (1 .. n) /\ T \in SUBSET (1 .. (n + 1))
    OBVIOUS
  <2>2. \A k \in 1 .. n : k \in T <=> k \in S
    BY <1>1
  <2>3. n + 1 \in T <=> i = chosen
    BY <1>1
  <2> HIDE DEF S, T
  <2>4. QED
    BY <1>1, <2>1, <2>2, <2>3, OneMore DEF S, T
<1>5. ASSUME NEW i \in DOMAIN list
      PROVE  sessions'[i].seqNum = Cardinality(after(i, n + 1)) % SeqMod
  <2> DEFINE count == Cardinality(pings(i, n))
             counted == Cardinality(after(i, n + 1))
  <2>1. /\ count \in Nat
        /\ i = chosen => counted = count + 1
        /\ i # chosen => counted = count
        /\ sessions[i].seqNum = count % SeqMod
    BY <1>3, <1>4
  <2> HIDE DEF count, counted, n
  <2>2. ((count % SeqMod) + 1) % SeqMod = (count + 1) % SeqMod
    BY <1>2, <2>1, WrappedCount
  <2>3. sessions'[i].seqNum = counted % SeqMod
    BY <1>1, <2>1, <2>2
  <2>4. QED
    BY <2>3 DEF counted, n
<1>6. Numbered'
  BY <1>1, <1>5 DEF Numbered, PingsOf
<1>7. ASSUME NEW k \in 1 .. n
      PROVE  sent'[k].seqNum = Cardinality(after(sent'[k].session, k - 1)) % SeqMod
  <2>1. sent[k].seqNum = Cardinality(pings(sent[k].session, k - 1)) % SeqMod
    <3>1. \A m \in DOMAIN sent :
            sent[m].seqNum =
              Cardinality({j \in 1 .. (m - 1) : sent[j].session = sent[m].session}) % SeqMod
      BY SameCount DEF ClientInv, SequenceContinues, Loop!SequenceContinues
    <3>2. k \in DOMAIN sent
      BY <1>1
    <3>3. QED
      BY <3>1, <3>2
  <2>2. after(sent[k].session, k - 1) = pings(sent[k].session, k - 1)
    <3>1. \A j \in 1 .. (k - 1) : sent'[j] = sent[j]
      BY <1>1
    <3>2. QED
      BY <3>1
  <2>3. QED
    BY <1>1, <2>1, <2>2
<1>8. sent'[n + 1].seqNum = Cardinality(after(sent'[n + 1].session, (n + 1) - 1)) % SeqMod
  <2>1. after(chosen, n) = pings(chosen, n)
    BY <1>1
  <2>2. (n + 1) - 1 = n
    BY <1>1
  <2>3. QED
    BY <1>1, <1>3, <2>1, <2>2
<1>9. \A k \in 1 .. (n + 1) : k \in 1 .. n \/ k = n + 1
  BY <1>1
<1>10. SequenceContinues'
  <2>1. \A k \in DOMAIN sent' :
          sent'[k].seqNum = Cardinality(after(sent'[k].session, k - 1)) % SeqMod
    BY <1>1, <1>7, <1>8, <1>9
  <2>2. QED
    BY <2>1, SameCount DEF SequenceContinues, Loop!SequenceContinues
<1>11. QED
  BY <1>6, <1>10

\* The id of the turn is of the session, and of the period the turn began
\* in, and so are its pings before this one (clientsession.cc:146-185).
LEMMA SendDates ==
  ASSUME ClientInv, list # <<>>, UNCHANGED start, Loop!SendPingPacket
  PROVE  Identified' /\ Dated' /\ OnlyLastStrays'
<1> DEFINE n == Len(sent)
           id == sessions[chosen].guid
           began == sessions[chosen].lastRollover
           period(t) == t - (t % opts.i)
<1>1. /\ Listed /\ list' = list /\ chosen \in DOMAIN list
      /\ phase = "send" /\ phase' = "choose" /\ opts' = opts
      /\ used' = used /\ now' = now
      /\ n \in Nat /\ DOMAIN sent = 1 .. n /\ DOMAIN sent' = 1 .. (n + 1)
      /\ \A k \in 1 .. n : sent'[k] = sent[k]
      /\ sent'[n + 1].session = chosen
      /\ sent'[n + 1].guid = id
      /\ sent'[n + 1].stamp = now
      /\ \A i \in DOMAIN list \ {chosen} : sessions'[i] = sessions[i]
      /\ sessions'[chosen].guid = id
      /\ sessions'[chosen].lastRollover = began
  BY SentOne
<1>2. Identified /\ Dated /\ Looping
  BY <1>1 DEF ClientInv
<1>3. \A i \in DOMAIN list : /\ sessions'[i].guid = sessions[i].guid
                             /\ sessions'[i].lastRollover = sessions[i].lastRollover
  BY <1>1
<1>4. \A k \in 1 .. (n + 1) : k \in 1 .. n \/ k = n + 1
  BY <1>1
<1>5. /\ \A i \in DOMAIN list : sessions[i].guid \in used
      /\ \A i, j \in DOMAIN list : sessions[i].guid = sessions[j].guid => i = j
      /\ \A k \in 1 .. n : sent[k].guid \in used
      /\ \A k \in 1 .. n, i \in DOMAIN list :
           sent[k].guid = sessions[i].guid => sent[k].session = i
  BY <1>1, <1>2 DEF Identified
<1>6. Identified'
  <2>1. \A k \in 1 .. (n + 1) : sent'[k].guid \in used
    BY <1>1, <1>4, <1>5
  <2>2. \A k \in 1 .. (n + 1), i \in DOMAIN list :
          sent'[k].guid = sessions[i].guid => sent'[k].session = i
    BY <1>1, <1>4, <1>5
  <2> HIDE DEF n, id, began
  <2>3. QED
    BY <1>1, <1>3, <1>5, <2>1, <2>2 DEF Identified
<1>7. /\ \A k \in 1 .. n : sent[k].stamp <= now
      /\ \A i \in DOMAIN list : sessions[i].lastRollover <= period(now)
      /\ \A k \in 1 .. n, i \in DOMAIN list :
           sent[k].guid = sessions[i].guid =>
             /\ sessions[i].lastRollover # 0
             /\ sessions[i].lastRollover <= period(sent[k].stamp)
      /\ \A k, l \in 1 .. n, i \in DOMAIN list :
           /\ k < l
           /\ sent[k].guid = sessions[i].guid /\ sent[l].guid = sessions[i].guid
           => period(sent[k].stamp) = sessions[i].lastRollover
      /\ began # 0
      /\ \A k \in 1 .. n : sent[k].guid = id => period(sent[k].stamp) = began
  BY <1>1, <1>2 DEF Dated, Loop!Period
<1>8. now \in Nat
  <2>1. FirstSecond \in Nat /\ LastSecond \in Nat
    BY <1>1, LoopNumbers
  <2>2. QED
    BY <1>2, <2>1 DEF Looping
<1>9. Dated'
  <2>1. \A k \in 1 .. (n + 1) : sent'[k].stamp <= now
    BY <1>1, <1>4, <1>7, <1>8
  <2>2. ASSUME NEW k \in 1 .. (n + 1), NEW i \in DOMAIN list,
               sent'[k].guid = sessions[i].guid
        PROVE  /\ sessions[i].lastRollover # 0
               /\ sessions[i].lastRollover <= period(sent'[k].stamp)
    <3>1. CASE k \in 1 .. n
      BY <1>1, <1>7, <2>2, <3>1
    <3>2. CASE k = n + 1
      <4>1. i = chosen
        BY <1>1, <1>5, <2>2, <3>2
      <4>2. QED
        BY <1>1, <1>7, <3>2, <4>1
    <3>3. QED
      BY <1>4, <3>1, <3>2
  <2>3. ASSUME NEW k \in 1 .. (n + 1), NEW l \in 1 .. (n + 1), NEW i \in DOMAIN list,
               k < l, sent'[k].guid = sessions[i].guid, sent'[l].guid = sessions[i].guid
        PROVE  period(sent'[k].stamp) = sessions[i].lastRollover
    <3>1. k \in 1 .. n
      BY <1>1, <2>3
    <3>2. CASE l \in 1 .. n
      BY <1>1, <1>7, <2>3, <3>1, <3>2
    <3>3. CASE l = n + 1
      <4>1. i = chosen
        BY <1>1, <1>5, <2>3, <3>3
      <4>2. QED
        BY <1>1, <1>7, <2>3, <3>1, <4>1
    <3>4. QED
      BY <1>4, <3>2, <3>3
  <2>4. \A k \in DOMAIN sent', i \in DOMAIN list' :
          sent'[k].guid = sessions'[i].guid =>
            /\ sessions'[i].lastRollover # 0
            /\ sessions'[i].lastRollover <= period(sent'[k].stamp)
    BY <1>1, <1>3, <2>2
  <2>5. \A k, l \in DOMAIN sent', i \in DOMAIN list' :
          /\ k < l
          /\ sent'[k].guid = sessions'[i].guid /\ sent'[l].guid = sessions'[i].guid
          => period(sent'[k].stamp) = sessions'[i].lastRollover
    BY <1>1, <1>3, <2>3
  <2>6. \A k \in DOMAIN sent' : sent'[k].stamp <= now'
    BY <1>1, <2>1
  <2>7. \A i \in DOMAIN list' : sessions'[i].lastRollover <= period(now')
    BY <1>1, <1>3, <1>7
  <2>8. phase' # "send"
    BY <1>1
  <2> HIDE DEF n, id, began
  <2>9. QED
    BY <1>1, <2>4, <2>5, <2>6, <2>7, <2>8 DEF Dated, Loop!Period
<1>10. /\ \A j, k \in 1 .. n : sent[j].guid = sent[k].guid => sent[j].session = sent[k].session
       /\ \A j, k, l \in 1 .. n :
            j < k /\ k < l /\ sent[j].guid = sent[l].guid /\ sent[k].guid = sent[l].guid
              => period(sent[j].stamp) = period(sent[k].stamp)
  BY <1>1 DEF ClientInv, OnlyLastStrays, Loop!OnlyLastStrays, Loop!Period
<1>11. OnlyLastStrays'
  <2>1. ASSUME NEW j \in 1 .. (n + 1), NEW k \in 1 .. (n + 1),
               sent'[j].guid = sent'[k].guid
        PROVE  sent'[j].session = sent'[k].session
    BY <1>1, <1>4, <1>5, <1>10, <2>1
  <2>2. ASSUME NEW j \in 1 .. (n + 1), NEW k \in 1 .. (n + 1), NEW l \in 1 .. (n + 1),
               j < k, k < l,
               sent'[j].guid = sent'[l].guid, sent'[k].guid = sent'[l].guid
        PROVE  period(sent'[j].stamp) = period(sent'[k].stamp)
    <3>1. j \in 1 .. n /\ k \in 1 .. n
      BY <1>1, <2>2
    <3>2. CASE l \in 1 .. n
      BY <1>1, <1>10, <2>2, <3>1, <3>2
    <3>3. CASE l = n + 1
      BY <1>1, <1>7, <2>2, <3>1, <3>3
    <3>4. QED
      BY <1>4, <3>2, <3>3
  <2>3. \A j, k \in DOMAIN sent' :
          sent'[j].guid = sent'[k].guid => sent'[j].session = sent'[k].session
    BY <1>1, <2>1
  <2>4. \A j, k, l \in DOMAIN sent' :
          j < k /\ k < l /\ sent'[j].guid = sent'[l].guid /\ sent'[k].guid = sent'[l].guid
            => period(sent'[j].stamp) = period(sent'[k].stamp)
    BY <1>1, <2>2
  <2> HIDE DEF n, id, began
  <2>5. QED
    BY <1>1, <2>3, <2>4 DEF OnlyLastStrays, Loop!OnlyLastStrays, Loop!Period
<1>12. QED
  BY <1>6, <1>9, <1>11

\* A ping counts for its session and its hop, and for no other
\* (clientsession.cc:163-185).
LEMMA OneMoreSend ==
  ASSUME ClientInv, list # <<>>, UNCHANGED start, Loop!SendPingPacket,
         NEW i \in DOMAIN list, NEW m \in 1 .. NumMacs(opts)
  PROVE  /\ i = chosen /\ m = Loop!NextMac(chosen) =>
              Loop!Sends(i, m)' = Loop!Sends(i, m) + 1
         /\ ~ (i = chosen /\ m = Loop!NextMac(chosen)) =>
              Loop!Sends(i, m)' = Loop!Sends(i, m)
<1> DEFINE n == Len(sent)
           S == {k \in 1 .. n : sent[k].session = i /\ sent[k].mac = m}
           T == {k \in 1 .. (n + 1) : sent'[k].session = i /\ sent'[k].mac = m}
<1>1. /\ n \in Nat /\ DOMAIN sent = 1 .. n /\ DOMAIN sent' = 1 .. (n + 1)
      /\ \A k \in 1 .. n : sent'[k] = sent[k]
      /\ sent'[n + 1].session = chosen
      /\ sent'[n + 1].mac = Loop!NextMac(chosen)
  BY SentOne
<1>2. S \in SUBSET (1 .. n) /\ T \in SUBSET (1 .. (n + 1))
  OBVIOUS
<1>3. \A k \in 1 .. n : k \in T <=> k \in S
  BY <1>1
<1>4. n + 1 \in T <=> i = chosen /\ m = Loop!NextMac(chosen)
  BY <1>1
<1>5. Loop!Sends(i, m) = Cardinality(S) /\ Loop!Sends(i, m)' = Cardinality(T)
  BY <1>1, SameCount DEF Loop!Sends
<1> HIDE DEF S, T
<1>6. /\ n + 1 \in T => Cardinality(T) = Cardinality(S) + 1
      /\ n + 1 \notin T => Cardinality(T) = Cardinality(S)
  BY <1>1, <1>2, <1>3, OneMore
<1>7. QED
  BY <1>4, <1>5, <1>6

\* A session's turn takes it one hop on in the round, or to the first of the next
\* (maclist.cc:51-55, clientsession.cc:114-121).
LEMMA SendBalanced ==
  ASSUME ClientInv, list # <<>>, UNCHANGED start, Loop!SendPingPacket
  PROVE  Balanced'
<1>1. /\ Listed /\ list' = list /\ chosen \in DOMAIN list /\ opts' = opts
      /\ phase = "send" /\ phase' = "choose"
      /\ curSession' = curSession
      /\ \A i \in DOMAIN list \ {chosen} : sessions'[i] = sessions[i]
      /\ sessions'[chosen].curMac = Loop!NextMac(chosen)
  BY SentOne
<1>2. /\ NumMacs(opts) \in Nat /\ NumMacs(opts) > 0
      /\ Len(list) \in Nat /\ Len(list) > 0 /\ DOMAIN list = 1 .. Len(list)
  BY <1>1, LoopNumbers
<1>3. PICK r \in Int, m \in 1 .. NumMacs(opts) : Round(r, m)
  BY <1>1 DEF ClientInv, Balanced
<1>4. Turn = chosen /\ Turn' = curSession /\ curSession = Loop!NextSession(chosen)
  BY <1>1 DEF Turn, ClientInv, Looping
<1>5. ASSUME NEW i \in DOMAIN list, i # chosen, NEW q \in Int, NEW h \in Int,
             AtHop(i, q, h)
      PROVE  AtHop(i, q, h)'
  <2>1. \A k \in 1 .. NumMacs(opts) : Loop!Sends(i, k)' = Loop!Sends(i, k)
    BY <1>5, OneMoreSend
  <2>2. sessions'[i] = sessions[i]
    BY <1>1, <1>5
  <2>3. QED
    BY <1>1, <1>5, <2>1, <2>2 DEF AtHop
<1>6. ASSUME NEW i \in DOMAIN list, i = chosen
      PROVE  IF m < NumMacs(opts) THEN AtHop(i, r, m + 1)' ELSE AtHop(i, r + 1, 1)'
  <2>1. AtHop(i, r, m)
    <3>1. i \in Int /\ i >= Turn
      BY <1>1, <1>2, <1>4, <1>6
    <3>2. QED
      BY <1>3, <3>1 DEF Round
  <2>2. /\ sessions[chosen].curMac = m
        /\ \A k \in 1 .. NumMacs(opts) : Loop!Sends(i, k) = Carried(r, m, k)
    BY <1>6, <2>1 DEF AtHop
  <2>3. \A k \in 1 .. NumMacs(opts) :
          /\ k = Loop!NextMac(chosen) => Loop!Sends(i, k)' = Carried(r, m, k) + 1
          /\ k # Loop!NextMac(chosen) => Loop!Sends(i, k)' = Carried(r, m, k)
    BY <1>6, <2>2, OneMoreSend
  <2>4. sessions'[i].curMac = Loop!NextMac(chosen)
    BY <1>1, <1>6
  <2>5. CASE m < NumMacs(opts)
    <3>1. Loop!NextMac(chosen) = m + 1
      BY <1>2, <2>2, <2>5 DEF Loop!NextMac
    <3>2. \A k \in 1 .. NumMacs(opts) : Loop!Sends(i, k)' = Carried(r, m + 1, k)
      BY <1>2, <2>3, <3>1 DEF Carried
    <3>3. AtHop(i, r, m + 1)'
      BY <1>1, <2>4, <3>1, <3>2 DEF AtHop
    <3>4. QED
      BY <2>5, <3>3
  <2>6. CASE ~ (m < NumMacs(opts))
    <3>1. Loop!NextMac(chosen) = 1 /\ m = NumMacs(opts)
      BY <1>2, <2>2, <2>6 DEF Loop!NextMac
    <3>2. \A k \in 1 .. NumMacs(opts) : Loop!Sends(i, k)' = Carried(r + 1, 1, k)
      BY <1>2, <2>3, <3>1 DEF Carried
    <3>3. AtHop(i, r + 1, 1)'
      BY <1>1, <2>4, <3>1, <3>2 DEF AtHop
    <3>4. QED
      BY <2>6, <3>3
  <2>7. QED
    BY <2>5, <2>6
<1>7. ASSUME NEW i \in DOMAIN list
       PROVE  IF i > chosen THEN AtHop(i, r, m)'
              ELSE IF m < NumMacs(opts) THEN AtHop(i, r, m + 1)' ELSE AtHop(i, r + 1, 1)'
  <2>1. CASE i = chosen
    <3>1. ~ (i > chosen)
      BY <1>1, <1>2, <2>1
    <3>2. QED
      BY <1>6, <2>1, <3>1
  <2>2. CASE i > chosen
    <3>1. i >= Turn /\ i # chosen
      BY <1>1, <1>2, <1>4, <2>2
    <3>2. AtHop(i, r, m)
      BY <1>3, <3>1 DEF Round
    <3>3. QED
      BY <1>5, <2>2, <3>1, <3>2
  <2>3. CASE i < chosen
    <3>1. ~ (i >= Turn) /\ i # chosen /\ ~ (i > chosen)
      BY <1>1, <1>2, <1>4, <2>3
    <3>2. IF m < NumMacs(opts) THEN AtHop(i, r, m + 1) ELSE AtHop(i, r + 1, 1)
      BY <1>3, <3>1 DEF Round
    <3>3. CASE m < NumMacs(opts)
      BY <1>5, <3>1, <3>2, <3>3
    <3>4. CASE ~ (m < NumMacs(opts))
      BY <1>5, <3>1, <3>2, <3>4
    <3>5. QED
      BY <3>1, <3>3, <3>4
  <2>4. QED
    BY <1>1, <1>2, <2>1, <2>2, <2>3
<1>8. CASE chosen # Len(list)
  <2>1. Turn' = chosen + 1
    BY <1>4, <1>8 DEF Loop!NextSession
  <2>2. \A i \in DOMAIN list : (i >= chosen + 1) <=> i > chosen
    BY <1>1, <1>2
  <2>3. Round(r, m)'
    BY <1>1, <1>7, <2>1, <2>2 DEF Round
  <2>4. QED
    BY <1>1, <2>3 DEF Balanced
<1>9. CASE chosen = Len(list)
  <2>1. Turn' = 1
    BY <1>4, <1>9 DEF Loop!NextSession
  <2>2. \A i \in DOMAIN list : i >= 1 /\ ~ (i > chosen)
    BY <1>2, <1>9
  <2>3. CASE m < NumMacs(opts)
    <3>1. Round(r, m + 1)'
      BY <1>1, <1>7, <2>1, <2>2, <2>3 DEF Round
    <3>2. m + 1 \in 1 .. NumMacs(opts)
      BY <1>2, <2>3
    <3>3. QED
      BY <1>1, <3>1, <3>2 DEF Balanced
  <2>4. CASE ~ (m < NumMacs(opts))
    <3>1. Round(r + 1, 1)'
      BY <1>1, <1>7, <2>1, <2>2, <2>4 DEF Round
    <3>2. 1 \in 1 .. NumMacs(opts) /\ r + 1 \in Int
      BY <1>2
    <3>3. QED
      BY <1>1, <3>1, <3>2 DEF Balanced
  <2>5. QED
    BY <2>3, <2>4
<1>10. QED
  BY <1>8, <1>9

\* The second half of a turn keeps the invariant, whether or not sendto takes the
\* frame (clientsession.cc:163-214).
LEMMA SendKeeps ==
  ASSUME ClientInv, list # <<>>, UNCHANGED start, Loop!SendPingPacket
  PROVE  ClientInv'
<1>1. /\ Listed /\ Listed' /\ phase = "send" /\ phase' = "choose"
      /\ UNCHANGED <<now, curSession, chosen, used, opts, list, user, ifIndex>>
      /\ sent' \in Seq(Loop!Packet)
      /\ sessions' \in [DOMAIN list -> Loop!Session]
  BY SentOne
<1>2. Started' /\ NotYet'
  BY <1>1 DEF ClientInv, Started, NotYet, Running
<1>3. Looping'
  <2>1. Loop!Session' = Loop!Session /\ Loop!Packet' = Loop!Packet
    BY <1>1 DEF Loop!Session, Loop!Packet, Loop!Sessions
  <2>2. /\ now \in FirstSecond .. LastSecond
        /\ curSession \in DOMAIN list /\ chosen \in DOMAIN list
        /\ used \subseteq Guid
    BY <1>1 DEF ClientInv, Looping
  <2>3. QED
    BY <1>1, <2>1, <2>2 DEF Looping
<1>4. QED
  BY <1>1, <1>2, <1>3, SendNumbers, SendDates, SendBalanced DEF ClientInv

\* What sends nothing and ends no turn leaves the round where it is
\* (client.cc:89-98).
LEMMA BalanceStays ==
  ASSUME Balanced, UNCHANGED <<sent, opts, list>>, Turn' = Turn,
         \A i \in DOMAIN list : sessions'[i].curMac = sessions[i].curMac
  PROVE  Balanced'
<1>1. PICK r \in Int, m \in 1 .. NumMacs(opts) : Round(r, m)
  BY DEF Balanced
<1>2. ASSUME NEW i \in DOMAIN list, NEW q \in Int, NEW h \in Int, AtHop(i, q, h)
      PROVE  AtHop(i, q, h)'
  BY <1>2 DEF AtHop, Loop!Sends
<1>3. ASSUME NEW i \in DOMAIN list
      PROVE  IF i >= Turn THEN AtHop(i, r, m)'
             ELSE IF m < NumMacs(opts) THEN AtHop(i, r, m + 1)' ELSE AtHop(i, r + 1, 1)'
  BY <1>1, <1>2 DEF Round
<1>4. Round(r, m)'
  BY <1>3 DEF Round
<1>5. QED
  BY <1>4 DEF Balanced

----------------------------------------------------------------------------
(* A session is chosen.                                                    *)

\* The first half of a turn, field by field (clientsession.cc:114-161).
LEMMA ChoseOne ==
  ASSUME ClientInv, list # <<>>, UNCHANGED start, Loop!ChooseSession
  PROVE  /\ Listed /\ Listed' /\ phase = "choose" /\ phase' = "send"
         /\ curSession \in DOMAIN list /\ chosen' = curSession
         /\ curSession' = Loop!NextSession(curSession)
         /\ curSession' \in DOMAIN list
         /\ UNCHANGED <<now, sent, opts, list, user, ifIndex>>
         /\ now \in Nat /\ Loop!Period(now) \in Nat /\ Loop!Period(now) # 0
         /\ sessions' \in [DOMAIN list -> Loop!Session]
         /\ \A i \in DOMAIN list \ {curSession} : sessions'[i] = sessions[i]
         /\ \E g \in Guid :
              /\ sessions'[curSession] =
                   [guid |-> g, seqNum |-> sessions[curSession].seqNum,
                    lastRollover |-> Loop!Period(now),
                    curMac |-> sessions[curSession].curMac]
              /\ used' = used \cup {g}
              /\ \/ /\ g = sessions[curSession].guid
                    /\ sessions[curSession].lastRollover \in {0, Loop!Period(now)}
                 \/ g \notin used
<1> DEFINE s == sessions[curSession]
           changed(g) == [guid |-> g, seqNum |-> s.seqNum,
                          lastRollover |-> Loop!Period(now), curMac |-> s.curMac]
<1>1. /\ phase = "choose" /\ phase' = "send"
      /\ chosen' = curSession
      /\ curSession' = Loop!NextSession(curSession)
      /\ UNCHANGED <<now, sent, opts, list, user, ifIndex>>
      /\ \/ /\ ~ Loop!Rollover(curSession)
            /\ sessions' = [sessions EXCEPT ![curSession].lastRollover = Loop!Period(now)]
            /\ used' = used
         \/ /\ Loop!Rollover(curSession)
            /\ \E g \in Guid \ used :
                 /\ sessions' = [sessions EXCEPT ![curSession] = Loop!Reset(curSession, g)]
                 /\ used' = used \cup {g}
  BY DEF Loop!ChooseSession, start
<1>2. Listed /\ Listed'
  BY <1>1 DEF Listed
<1>3. Looping
  BY <1>2 DEF ClientInv
<1>4. /\ opts.i \in Nat /\ opts.i > 0 /\ opts.i <= FirstSecond
      /\ Len(list) \in Nat /\ Len(list) > 0 /\ DOMAIN list = 1 .. Len(list)
      /\ FirstSecond \in Nat /\ LastSecond \in Nat
  BY <1>2, LoopNumbers
<1>5. /\ curSession \in DOMAIN list /\ sessions \in [DOMAIN list -> Loop!Session]
      /\ now \in Nat /\ now >= FirstSecond /\ used \subseteq Guid
  BY <1>3, <1>4 DEF Looping
<1>6. curSession' \in DOMAIN list
  BY <1>1, <1>4, <1>5 DEF Loop!NextSession
<1>7. Loop!Period(now) \in Nat /\ Loop!Period(now) # 0
  <2>1. now - (now % opts.i) \in Nat /\ now - (now % opts.i) # 0
    BY <1>4, <1>5, PeriodsPass
  <2>2. QED
    BY <2>1 DEF Loop!Period
<1>8. PICK id \in Guid, q \in 0 .. (SeqMod - 1), t \in Nat, m \in 1 .. NumMacs(opts) :
        s = [guid |-> id, seqNum |-> q, lastRollover |-> t, curMac |-> m]
  BY <1>5 DEF Loop!Session
<1>9. s.guid = id /\ s.seqNum = q /\ s.lastRollover = t /\ s.curMac = m
  BY <1>8
<1>10. \A g \in Guid : changed(g) \in Loop!Session
  BY <1>7, <1>9 DEF Loop!Session
<1>11. id \in used
  BY <1>2, <1>5, <1>9 DEF ClientInv, Identified
<1>12. \E g \in Guid :
         /\ sessions' = [sessions EXCEPT ![curSession] = changed(g)]
         /\ used' = used \cup {g}
         /\ \/ g = s.guid /\ s.lastRollover \in {0, Loop!Period(now)}
            \/ g \notin used
  <2>1. ASSUME ~ Loop!Rollover(curSession),
               sessions' = [sessions EXCEPT ![curSession].lastRollover = Loop!Period(now)],
               used' = used
        PROVE  /\ sessions' = [sessions EXCEPT ![curSession] = changed(id)]
               /\ used' = used \cup {id}
               /\ id = s.guid /\ s.lastRollover \in {0, Loop!Period(now)}
    <3>1. [s EXCEPT !.lastRollover = Loop!Period(now)] = changed(id)
      <4>1. \A p : [[guid |-> id, seqNum |-> q, lastRollover |-> t, curMac |-> m]
                      EXCEPT !.lastRollover = p]
                   = [guid |-> id, seqNum |-> q, lastRollover |-> p, curMac |-> m]
        OBVIOUS
      <4>2. QED
        BY <1>8, <1>9, <4>1
    <3>2. sessions' = [sessions EXCEPT ![curSession] =
                         [s EXCEPT !.lastRollover = Loop!Period(now)]]
      BY <2>1
    <3>3. QED
      BY <1>9, <1>11, <2>1, <3>1, <3>2 DEF Loop!Rollover
  <2>2. ASSUME NEW g \in Guid \ used,
               sessions' = [sessions EXCEPT ![curSession] = Loop!Reset(curSession, g)]
        PROVE  sessions' = [sessions EXCEPT ![curSession] = changed(g)]
    <3>1. \A p : [[guid |-> id, seqNum |-> q, lastRollover |-> t, curMac |-> m]
                    EXCEPT !.guid = g, !.lastRollover = p]
                 = [guid |-> g, seqNum |-> q, lastRollover |-> p, curMac |-> m]
      <4>1. [[guid |-> id, seqNum |-> q, lastRollover |-> t, curMac |-> m] EXCEPT !.guid = g]
            = [guid |-> g, seqNum |-> q, lastRollover |-> t, curMac |-> m]
        OBVIOUS
      <4>2. \A p : [[guid |-> g, seqNum |-> q, lastRollover |-> t, curMac |-> m]
                      EXCEPT !.lastRollover = p]
                   = [guid |-> g, seqNum |-> q, lastRollover |-> p, curMac |-> m]
        OBVIOUS
      <4>3. QED
        BY <4>1, <4>2
    <3>2. Loop!Reset(curSession, g) = changed(g)
      BY <1>8, <1>9, <3>1 DEF Loop!Reset
    <3>3. QED
      BY <2>2, <3>2
  <2> HIDE DEF changed, s
  <2>3. QED
    BY <1>1, <2>1, <2>2
<1>13. PICK g \in Guid :
         /\ sessions' = [sessions EXCEPT ![curSession] = changed(g)]
         /\ used' = used \cup {g}
         /\ \/ g = s.guid /\ s.lastRollover \in {0, Loop!Period(now)}
            \/ g \notin used
  BY <1>12
<1>14. /\ sessions' \in [DOMAIN list -> Loop!Session]
       /\ \A i \in DOMAIN list \ {curSession} : sessions'[i] = sessions[i]
       /\ sessions'[curSession] = changed(g)
  <2>1. changed(g) \in Loop!Session
    BY <1>10
  <2> HIDE DEF changed
  <2>2. QED
    BY <1>5, <1>13, <2>1
<1>15. QED
  BY <1>1, <1>2, <1>5, <1>6, <1>7, <1>13, <1>14

\* The id of the turn has pings of the period that is now, or none
\* (clientsession.cc:146-161).
LEMMA ChooseDates ==
  ASSUME ClientInv, list # <<>>, UNCHANGED start, Loop!ChooseSession
  PROVE  Identified' /\ Dated'
<1> DEFINE n == Len(sent)
           period(t) == t - (t % opts.i)
<1>1. /\ Listed /\ phase' = "send" /\ curSession \in DOMAIN list /\ chosen' = curSession
      /\ UNCHANGED <<now, sent, opts, list>>
      /\ now \in Nat /\ period(now) \in Nat /\ period(now) # 0
      /\ \A i \in DOMAIN list \ {curSession} : sessions'[i] = sessions[i]
  BY ChoseOne DEF Loop!Period
<1>2. PICK g \in Guid :
        /\ sessions'[curSession].guid = g
        /\ sessions'[curSession].lastRollover = period(now)
        /\ used' = used \cup {g}
        /\ \/ /\ g = sessions[curSession].guid
              /\ sessions[curSession].lastRollover \in {0, period(now)}
           \/ g \notin used
  BY ChoseOne DEF Loop!Period
<1>3. Identified /\ Dated /\ Looping
  BY <1>1 DEF ClientInv
<1>4. /\ opts.i \in Nat /\ opts.i > 0
      /\ DOMAIN sent = 1 .. n /\ n \in Nat
      /\ \A k \in DOMAIN sent : sent[k].stamp \in Nat
  <2>1. opts.i \in Nat /\ opts.i > 0
    BY <1>1, LoopNumbers
  <2>2. sent \in Seq(Loop!Packet)
    BY <1>3 DEF Looping
  <2>3. n \in Nat /\ DOMAIN sent = 1 .. n /\ \A k \in DOMAIN sent : sent[k] \in Loop!Packet
    BY <2>2
  <2>4. QED
    BY <2>1, <2>3 DEF Loop!Packet
<1>5. /\ \A i \in DOMAIN list : sessions[i].guid \in used
      /\ \A i, j \in DOMAIN list : sessions[i].guid = sessions[j].guid => i = j
      /\ \A k \in DOMAIN sent : sent[k].guid \in used
      /\ \A k \in DOMAIN sent, i \in DOMAIN list :
           sent[k].guid = sessions[i].guid => sent[k].session = i
  BY <1>3 DEF Identified
<1>6. /\ \A k \in DOMAIN sent : sent[k].stamp <= now
      /\ \A i \in DOMAIN list : sessions[i].lastRollover <= period(now)
      /\ \A k \in DOMAIN sent, i \in DOMAIN list :
           sent[k].guid = sessions[i].guid =>
             /\ sessions[i].lastRollover # 0
             /\ sessions[i].lastRollover <= period(sent[k].stamp)
      /\ \A k, l \in DOMAIN sent, i \in DOMAIN list :
           /\ k < l
           /\ sent[k].guid = sessions[i].guid /\ sent[l].guid = sessions[i].guid
           => period(sent[k].stamp) = sessions[i].lastRollover
  BY <1>3 DEF Dated, Loop!Period
<1>7. \A k \in DOMAIN sent : period(sent[k].stamp) \in Nat /\ period(sent[k].stamp) <= period(now)
  <2>1. ASSUME NEW k \in DOMAIN sent
        PROVE  period(sent[k].stamp) \in Nat /\ period(sent[k].stamp) <= period(now)
    <3>1. sent[k].stamp \in Nat /\ sent[k].stamp <= now
      BY <1>4, <1>6
    <3>2. PICK t \in Nat : t = sent[k].stamp /\ t <= now
      BY <3>1
    <3>3. t - (t % opts.i) \in Nat /\ t - (t % opts.i) <= now - (now % opts.i)
      BY <1>1, <1>4, <3>2, PeriodsPass
    <3>4. QED
      BY <3>2, <3>3
  <2>2. QED
    BY <2>1
<1>8. \A k \in DOMAIN sent : sent[k].guid = g => period(sent[k].stamp) = period(now)
  <2>1. ASSUME NEW k \in DOMAIN sent, sent[k].guid = g
        PROVE  period(sent[k].stamp) = period(now)
    <3>1. g = sessions[curSession].guid /\ sessions[curSession].lastRollover \in {0, period(now)}
      BY <1>2, <1>5, <2>1
    <3>2. /\ sessions[curSession].lastRollover # 0
          /\ sessions[curSession].lastRollover <= period(sent[k].stamp)
      BY <1>1, <1>6, <2>1, <3>1
    <3>3. sessions[curSession].lastRollover = period(now)
      BY <3>1, <3>2
    <3> HIDE DEF period
    <3>4. period(now) <= period(sent[k].stamp)
      BY <3>2, <3>3
    <3>5. QED
      BY <1>1, <1>7, <3>4
  <2>2. QED
    BY <2>1
<1>9. Identified'
  <2>1. \A i \in DOMAIN list : sessions'[i].guid \in used'
    BY <1>1, <1>2, <1>5
  <2>2. \A i, j \in DOMAIN list : sessions'[i].guid = sessions'[j].guid => i = j
    <3>1. ASSUME NEW i \in DOMAIN list, i # curSession PROVE sessions'[i].guid # g
      <4>1. sessions'[i].guid = sessions[i].guid
        BY <1>1, <3>1
      <4>2. QED
        BY <1>1, <1>2, <1>5, <3>1, <4>1
    <3>2. QED
      BY <1>1, <1>2, <1>5, <3>1
  <2>3. \A k \in DOMAIN sent : sent[k].guid \in used'
    BY <1>2, <1>5
  <2>4. \A k \in DOMAIN sent, i \in DOMAIN list :
          sent[k].guid = sessions'[i].guid => sent[k].session = i
    BY <1>1, <1>2, <1>5
  <2>5. QED
    BY <1>1, <2>1, <2>2, <2>3, <2>4 DEF Identified
<1>10. Dated'
  <2>1. \A i \in DOMAIN list : sessions'[i].lastRollover <= period(now)
    BY <1>1, <1>2, <1>6
  <2>2. ASSUME NEW k \in DOMAIN sent, NEW i \in DOMAIN list,
               sent[k].guid = sessions'[i].guid
        PROVE  /\ sessions'[i].lastRollover # 0
               /\ sessions'[i].lastRollover <= period(sent[k].stamp)
    <3>1. CASE i = curSession
      <4>1. period(sent[k].stamp) = period(now) /\ sessions'[i].lastRollover = period(now)
        BY <1>2, <1>8, <2>2, <3>1
      <4> HIDE DEF period
      <4>2. QED
        BY <1>1, <4>1
    <3>2. CASE i # curSession
      BY <1>1, <1>6, <2>2, <3>2
    <3>3. QED
      BY <3>1, <3>2
  <2>3. ASSUME NEW k \in DOMAIN sent, NEW l \in DOMAIN sent, NEW i \in DOMAIN list,
               k < l, sent[k].guid = sessions'[i].guid, sent[l].guid = sessions'[i].guid
        PROVE  period(sent[k].stamp) = sessions'[i].lastRollover
    <3>1. CASE i = curSession
      BY <1>2, <1>8, <2>3, <3>1
    <3>2. CASE i # curSession
      BY <1>1, <1>6, <2>3, <3>2
    <3>3. QED
      BY <3>1, <3>2
  <2>4. /\ sessions'[curSession].lastRollover # 0
        /\ \A k \in DOMAIN sent :
             sent[k].guid = sessions'[curSession].guid =>
               period(sent[k].stamp) = sessions'[curSession].lastRollover
    BY <1>1, <1>2, <1>8
  <2> HIDE DEF n
  <2>5. QED
    BY <1>1, <1>6, <2>1, <2>2, <2>3, <2>4 DEF Dated, Loop!Period
<1>11. QED
  BY <1>9, <1>10

\* The first half of a turn keeps the invariant (clientsession.cc:114-161).
LEMMA ChooseKeeps ==
  ASSUME ClientInv, list # <<>>, UNCHANGED start, Loop!ChooseSession
  PROVE  ClientInv'
<1>1. /\ Listed /\ Listed' /\ phase = "choose" /\ phase' = "send"
      /\ curSession \in DOMAIN list /\ chosen' = curSession
      /\ curSession' = Loop!NextSession(curSession)
      /\ curSession' \in DOMAIN list
      /\ UNCHANGED <<now, sent, opts, list, user, ifIndex>>
      /\ sessions' \in [DOMAIN list -> Loop!Session]
  BY ChoseOne
<1>2. \A i \in DOMAIN list : /\ sessions'[i].seqNum = sessions[i].seqNum
                             /\ sessions'[i].curMac = sessions[i].curMac
  BY ChoseOne
<1>3. Looping /\ Numbered /\ Balanced
  BY <1>1 DEF ClientInv
<1>4. Started' /\ NotYet'
  BY <1>1 DEF ClientInv, Started, NotYet, Running
<1>5. Looping'
  <2>1. used' \subseteq Guid
    BY <1>3, ChoseOne DEF Looping
  <2>2. Loop!Session' = Loop!Session /\ Loop!Packet' = Loop!Packet
    BY <1>1 DEF Loop!Session, Loop!Packet, Loop!Sessions
  <2>3. chosen' \in DOMAIN list /\ curSession' = Loop!NextSession(chosen)'
    BY <1>1 DEF Loop!NextSession
  <2>4. QED
    BY <1>1, <1>3, <2>1, <2>2, <2>3 DEF Looping
<1>6. Numbered'
  <2>1. \A i \in DOMAIN list : sessions[i].seqNum = Cardinality(PingsOf(i, Len(sent))) % SeqMod
    BY <1>3 DEF Numbered
  <2>2. \A i : PingsOf(i, Len(sent))' = PingsOf(i, Len(sent))
    BY <1>1 DEF PingsOf
  <2>3. SeqMod' = SeqMod /\ list' = list
    BY <1>1
  <2>4. QED
    BY <1>2, <2>1, <2>2, <2>3, Zenon DEF Numbered
<1>7. SequenceContinues' /\ OnlyLastStrays'
  BY <1>1 DEF ClientInv, SequenceContinues, Loop!SequenceContinues,
              OnlyLastStrays, Loop!OnlyLastStrays, Loop!Period
<1>8. Balanced'
  <2>1. Turn' = Turn
    BY <1>1 DEF Turn
  <2>2. QED
    BY <1>1, <1>2, <1>3, <2>1, BalanceStays
<1>9. QED
  BY <1>4, <1>5, <1>6, <1>7, <1>8, ChooseDates DEF ClientInv

----------------------------------------------------------------------------
(* The other steps.                                                        *)

\* The clock moves on, and no period comes back (clientsession.cc:146-152).
LEMMA TickKeeps ==
  ASSUME ClientInv, Tick
  PROVE  ClientInv'
<1>1. /\ now < LastSecond /\ now' = now + 1
      /\ UNCHANGED <<phase, curSession, chosen, sessions, used, sent,
                     opts, user, list, ifIndex>>
      /\ Running /\ list # <<>>
  BY DEF Tick, Loop!Tick, start
<1>2. Listed /\ Listed'
  BY <1>1 DEF Listed, Running
<1>3. Looping /\ Numbered /\ Identified /\ Dated /\ Balanced
  BY <1>2 DEF ClientInv
<1>4. /\ opts.i \in Nat /\ opts.i > 0
      /\ FirstSecond \in Nat /\ LastSecond \in Nat
  BY <1>2, LoopNumbers
<1>5. now \in Nat /\ now \in FirstSecond .. LastSecond
  BY <1>3, <1>4 DEF Looping
<1>6. Started' /\ NotYet'
  BY <1>1 DEF ClientInv, Started, NotYet, Running
<1>7. Looping'
  <2>1. Loop!Session' = Loop!Session /\ Loop!Packet' = Loop!Packet
        /\ Loop!NextSession(chosen)' = Loop!NextSession(chosen)
    BY <1>1 DEF Loop!Session, Loop!Packet, Loop!Sessions, Loop!NextSession
  <2>2. now' \in FirstSecond .. LastSecond
    BY <1>1, <1>4, <1>5
  <2>3. QED
    BY <1>1, <1>3, <2>1, <2>2 DEF Looping
<1>8. Numbered' /\ Identified'
  <2>1. Numbered'
    BY <1>1, <1>3 DEF Numbered, PingsOf
  <2>2. Identified'
    BY <1>1, <1>3 DEF Identified
  <2>3. QED
    BY <2>1, <2>2
<1>9. SequenceContinues' /\ OnlyLastStrays'
  BY <1>1 DEF ClientInv, SequenceContinues, Loop!SequenceContinues,
              OnlyLastStrays, Loop!OnlyLastStrays, Loop!Period
<1>10. Dated'
  <2> DEFINE period(t) == t - (t % opts.i)
  <2>1. period(now) <= period(now + 1) /\ period(now) \in Nat /\ period(now + 1) \in Nat
    <3>1. now + 1 \in Nat /\ now <= now + 1 /\ now + 1 <= now + 1
      BY <1>5
    <3>2. now - (now % opts.i) \in Nat
          /\ now - (now % opts.i) <= (now + 1) - ((now + 1) % opts.i)
      BY ONLY <1>4, <1>5, <3>1, PeriodsPass
    <3>3. (now + 1) - ((now + 1) % opts.i) \in Nat
      BY ONLY <1>4, <3>1, PeriodsPass
    <3>4. QED
      BY <3>2, <3>3
  <2>2. \A i \in DOMAIN list : sessions[i].lastRollover \in Nat
    BY <1>3 DEF Looping, Loop!Session
  <2>3. \A k \in DOMAIN sent : sent[k].stamp \in Nat
    <3>1. sent \in Seq(Loop!Packet)
      BY <1>3 DEF Looping
    <3>2. \A k \in DOMAIN sent : sent[k] \in Loop!Packet
      BY <3>1
    <3>3. QED
      BY <3>2 DEF Loop!Packet
  <2>4. /\ \A i \in DOMAIN list : sessions[i].lastRollover <= period(now)
        /\ \A k \in DOMAIN sent : sent[k].stamp <= now
    BY <1>3 DEF Dated, Loop!Period
  <2>5. \A k \in DOMAIN sent : sent[k].stamp <= now + 1
    BY <1>5, <2>3, <2>4
  <2>6. \A i \in DOMAIN list : sessions[i].lastRollover <= period(now + 1)
    <3> HIDE DEF period
    <3>1. QED
      BY <2>1, <2>2, <2>4
  <2>7. QED
    BY <1>1, <1>3, <2>5, <2>6 DEF Dated, Loop!Period
<1>11. Balanced'
  <2>1. Turn' = Turn
    BY <1>1 DEF Turn
  <2>2. QED
    BY <1>1, <1>3, <2>1, BalanceStays
<1>12. QED
  BY <1>2, <1>6, <1>7, <1>8, <1>9, <1>10, <1>11 DEF ClientInv

\* The program starts with nothing done (client.cc:17-24).
LEMMA InitClient == Init => ClientInv
<1> SUFFICES ASSUME Init PROVE ClientInv
  OBVIOUS
<1>1. /\ phase = "options" /\ ~ Running /\ ~ Listed
      /\ DOMAIN sent = {}
  BY DEF Init, Running, Listed
<1>2. Started /\ NotYet
  BY <1>1 DEF Started, NotYet, Init, Running
<1>3. SequenceContinues /\ OnlyLastStrays
  BY <1>1 DEF SequenceContinues, Loop!SequenceContinues, OnlyLastStrays, Loop!OnlyLastStrays
<1>4. QED
  BY <1>1, <1>2, <1>3 DEF ClientInv

\* The sessions are made, each at the beginning (clientsession.cc:60-104,
\* maclist.cc:8-35).
LEMMA MakeListKeeps ==
  ASSUME ClientInv, MakeList
  PROVE  ClientInv'
<1> DEFINE found == FoundInterface(opts.l)
<1>1. PICK id \in Loop!FirstIds(Len(PortList(opts))) :
        /\ phase = "list" /\ phase' = "user"
        /\ found # 0
        /\ Interfaces[found].addr # Absent
        /\ PortList(opts) # Refused
        /\ list' = PortList(opts)
        /\ ifIndex' = Interfaces[found].index
        /\ sessions' = Loop!NewSessions(id, NumMacs(opts))
        /\ used' = Range(id)
        /\ UNCHANGED <<opts, user, now, curSession, chosen, sent>>
  BY DEF MakeList
<1>2. /\ opts \in CommandLines /\ OptionsAccepted(opts)
      /\ now = FirstSecond /\ curSession = 1 /\ chosen = 1 /\ sent = <<>>
      /\ user \in {"root", "other", "nobody"}
  BY <1>1 DEF ClientInv, Started, NotYet, Running
<1>3. PICK ports \in Seq(MinPort .. MaxPort) : ports = PortList(opts)
  BY <1>1, <1>2, AcceptedPorts
<1>4. /\ NumMacs(opts) \in Nat /\ NumMacs(opts) > 0
      /\ SeqMod \in Nat /\ SeqMod > 0
      /\ FirstSecond \in Nat /\ LastSecond \in Nat /\ FirstSecond <= LastSecond
  BY <1>2, AcceptedNumbers, ClientAssumption
<1>5. found \in DOMAIN Interfaces /\ Interfaces[found].addr = opts.l
  BY <1>1, InterfaceFound
<1>6. Interfaces[found] \in Range(Interfaces)
  BY <1>5 DEF Range
<1>7. Started' /\ NotYet'
  <2>1. Started'
    BY <1>1, <1>2, <1>5, <1>6 DEF Started, Running
  <2>2. \A i \in DOMAIN list' : /\ sessions'[i].seqNum = 0
                                /\ sessions'[i].lastRollover = 0
                                /\ sessions'[i].curMac = NumMacs(opts)
    BY <1>1, <1>3 DEF Loop!FirstIds, Loop!NewSessions
  <2>3. /\ now' = FirstSecond /\ curSession' = 1 /\ chosen' = 1 /\ sent' = <<>>
        /\ opts' = opts /\ phase' # "send"
    BY <1>1, <1>2
  <2>4. NotYet'
    BY <2>2, <2>3, Zenon DEF NotYet
  <2>5. QED
    BY <2>1, <2>4
<1>8. DOMAIN sent' = {} /\ Len(sent') = 0 /\ sent' \in Seq(Loop!Packet')
  BY <1>1, <1>2
<1>9. SequenceContinues' /\ OnlyLastStrays'
  BY <1>8 DEF SequenceContinues, Loop!SequenceContinues, OnlyLastStrays, Loop!OnlyLastStrays
<1>10. ASSUME list' # <<>>
       PROVE  Looping' /\ Numbered' /\ Identified' /\ Dated' /\ Balanced'
  <2>1. /\ Len(ports) \in Nat /\ DOMAIN ports = 1 .. Len(ports)
        /\ 1 \in DOMAIN ports /\ list' = ports
    BY <1>1, <1>3, <1>10
  <2>2. /\ id \in [1 .. Len(ports) -> Guid]
        /\ \A i, j \in 1 .. Len(ports) : id[i] = id[j] => i = j
    BY <1>1, <1>3 DEF Loop!FirstIds
  <2>3. sessions' = [i \in 1 .. Len(ports) |->
                       [guid |-> id[i], seqNum |-> 0, lastRollover |-> 0,
                        curMac |-> NumMacs(opts)]]
    BY <1>1, <2>2 DEF Loop!NewSessions
  <2>4. \A i \in DOMAIN list' :
          /\ sessions'[i].guid = id[i]
          /\ sessions'[i].seqNum = 0
          /\ sessions'[i].lastRollover = 0
          /\ sessions'[i].curMac = NumMacs(opts)
    BY <2>1, <2>3
  <2>5. used' = {id[i] : i \in 1 .. Len(ports)}
    BY <1>1, <2>2 DEF Range
  <2>6. Looping'
    <3>1. sessions' \in [1 .. Len(ports) -> Loop!Session']
      <4>1. \A i \in 1 .. Len(ports) :
              [guid |-> id[i], seqNum |-> 0, lastRollover |-> 0, curMac |-> NumMacs(opts)]
              \in [guid : Guid, seqNum : 0 .. (SeqMod - 1), lastRollover : Nat,
                   curMac : 1 .. NumMacs(opts)]
        BY <1>4, <2>2
      <4>2. QED
        BY <1>1, <2>3, <4>1 DEF Loop!Session
    <3>2. used' \subseteq Guid
      BY <2>2, <2>5
    <3>3. now' \in FirstSecond .. LastSecond /\ curSession' = 1 /\ chosen' = 1
          /\ phase' # "send"
      BY <1>1, <1>2, <1>4
    <3>4. QED
      BY <1>8, <2>1, <3>1, <3>2, <3>3 DEF Looping
  <2>7. Numbered'
    <3>1. ASSUME NEW i \in DOMAIN list'
          PROVE  sessions'[i].seqNum = Cardinality({j \in 1 .. Len(sent') : sent'[j].session = i}) % SeqMod
      <4>1. {j \in 1 .. Len(sent') : sent'[j].session = i} = {}
        BY <1>8
      <4>2. Cardinality({}) = 0 /\ 0 % SeqMod = 0
        BY <1>4, FS_EmptySet
      <4>3. QED
        BY <2>4, <4>1, <4>2
    <3>2. QED
      BY <3>1 DEF Numbered, PingsOf
  <2>8. Identified'
    BY <1>8, <2>1, <2>2, <2>4, <2>5 DEF Identified
  <2>9. Dated'
    <3>1. now' - (now' % opts'.i) \in Nat
      <4>1. opts.i \in Nat /\ opts.i > 0
        <5>1. opts.i \in 1 .. 900
          BY <1>2, AcceptedNumbers
        <5>2. PICK d \in 1 .. 900 : opts.i = d
          BY <5>1
        <5>3. d \in Nat /\ d > 0
          OBVIOUS
        <5>4. QED
          BY <5>2, <5>3
      <4>2. FirstSecond - (FirstSecond % opts.i) \in Nat
        BY ONLY <1>4, <4>1, PeriodsPass, FirstSecond <= FirstSecond
      <4>3. QED
        BY <1>1, <1>2, <4>2
    <3>2. phase' # "send"
      BY <1>1
    <3>3. \A i \in DOMAIN list' : sessions'[i].lastRollover <= Loop!Period(now)'
      BY <2>4, <3>1 DEF Loop!Period
    <3>4. QED
      BY <1>8, <3>2, <3>3 DEF Dated
  <2>10. Balanced'
    <3>1. Turn' = 1
      BY <1>1, <1>2 DEF Turn
    <3>2. ASSUME NEW i \in DOMAIN list' PROVE AtHop(i, -1, NumMacs(opts))'
      <4>1. ASSUME NEW m \in 1 .. NumMacs(opts)
            PROVE  Loop!Sends(i, m)' = Carried(-1, NumMacs(opts), m)
        <5>1. {k \in DOMAIN sent' : sent'[k].session = i /\ sent'[k].mac = m} = {}
          BY <1>8
        <5>2. Loop!Sends(i, m)' = 0
          BY <5>1, SameCount, FS_EmptySet DEF Loop!Sends
        <5>3. QED
          BY <1>4, <5>2 DEF Carried
      <4>2. QED
        BY <1>1, <2>4, <4>1 DEF AtHop
    <3>3. \A i \in DOMAIN list' : i >= 1
      BY <2>1
    <3>4. Round(-1, NumMacs(opts))'
      BY <1>1, <3>1, <3>2, <3>3 DEF Round
    <3>5. QED
      BY <1>1, <1>4, <3>4 DEF Balanced
  <2>11. QED
    BY <2>6, <2>7, <2>8, <2>9, <2>10
<1>11. QED
  BY <1>7, <1>9, <1>10 DEF ClientInv, Listed

\* A step outside the loop leaves the loop's state true (client.cc:66-88).
LEMMA LoopStays ==
  ASSUME ClientInv, UNCHANGED <<opts, list, loop>>, Listed' => Listed,
         phase = "send" <=> phase' = "send"
  PROVE  /\ SequenceContinues' /\ OnlyLastStrays'
         /\ Listed' => Looping' /\ Numbered' /\ Identified' /\ Dated' /\ Balanced'
<1>1. UNCHANGED <<now, curSession, chosen, sessions, used, sent, opts, list>>
  BY DEF loop
<1>2. SequenceContinues' /\ OnlyLastStrays'
  BY <1>1 DEF ClientInv, SequenceContinues, Loop!SequenceContinues,
              OnlyLastStrays, Loop!OnlyLastStrays, Loop!Period
<1>3. ASSUME Listed'
      PROVE  Looping' /\ Numbered' /\ Identified' /\ Dated' /\ Balanced'
  <2>1. Looping /\ Numbered /\ Identified /\ Dated /\ Balanced
    BY <1>3 DEF ClientInv
  <2>2. Looping'
    BY <1>1, <2>1 DEF Looping, Loop!Session, Loop!Packet, Loop!Sessions, Loop!NextSession
  <2>3. Numbered' /\ Identified'
    BY <1>1, <2>1 DEF Numbered, PingsOf, Identified
  <2>4. Dated'
    BY <1>1, <2>1 DEF Dated, Loop!Period
  <2>5. Balanced'
    <3>1. Turn' = Turn
      BY <1>1 DEF Turn
    <3>2. QED
      BY <1>1, <2>1, <3>1, BalanceStays
  <2>6. QED
    BY <2>2, <2>3, <2>4, <2>5
<1>4. QED
  BY <1>2, <1>3

\* Every step of the program keeps the invariant (client.cc:35-98).
LEMMA NextClient == ClientInv /\ [Next]_vars => ClientInv'
<1> SUFFICES ASSUME ClientInv, [Next]_vars PROVE ClientInv'
  OBVIOUS
<1>1. CASE ReadOptions
  <2>1. /\ phase = "options" /\ phase' \in {"list", "exited"}
        /\ phase' = "list" => OptionsAccepted(opts)
        /\ UNCHANGED <<opts, user, list, ifIndex, now, curSession, chosen, sessions, used, sent>>
    BY <1>1 DEF ReadOptions, start, loop
  <2>2. Started' /\ NotYet'
    BY <2>1 DEF ClientInv, Started, NotYet, Running
  <2>3. ~ Listed' /\ UNCHANGED <<opts, list, loop>>
    BY <2>1 DEF Listed, loop
  <2>4. QED
    BY <2>1, <2>2, <2>3, LoopStays DEF ClientInv
<1>2. CASE MakeList
  BY <1>2, MakeListKeeps
<1>3. CASE FollowsNull
  <2>1. /\ phase = "list" /\ phase' = "crashed"
        /\ UNCHANGED <<opts, user, list, ifIndex, now, curSession, chosen, sessions, used, sent>>
    BY <1>3 DEF FollowsNull, start, loop
  <2>2. Started' /\ NotYet'
    BY <2>1 DEF ClientInv, Started, NotYet, Running
  <2>3. ~ Listed' /\ UNCHANGED <<opts, list, loop>>
    BY <2>1 DEF Listed, loop
  <2>4. QED
    BY <2>1, <2>2, <2>3, LoopStays DEF ClientInv
<1>4. CASE DropRoot
  <2>1. /\ phase = "user" /\ phase' = "choose" /\ user' = "nobody"
        /\ UNCHANGED <<opts, list, ifIndex, now, curSession, chosen, sessions, used, sent>>
    BY <1>4 DEF DropRoot, loop
  <2>2. Started' /\ NotYet'
    BY <2>1 DEF ClientInv, Started, NotYet, Running
  <2>3. (Listed' => Listed) /\ UNCHANGED <<opts, list, loop>>
    BY <2>1 DEF Listed, loop
  <2>4. QED
    BY <2>1, <2>2, <2>3, LoopStays DEF ClientInv
<1>5. CASE GiveUp
  <2>1. /\ phase \in {"list", "user"} /\ phase' = "exited"
        /\ UNCHANGED <<opts, user, list, ifIndex, now, curSession, chosen, sessions, used, sent>>
    BY <1>5 DEF GiveUp, start, loop
  <2>2. Started' /\ NotYet'
    BY <2>1 DEF ClientInv, Started, NotYet, Running
  <2>3. ~ Listed' /\ UNCHANGED <<opts, list, loop>>
    BY <2>1 DEF Listed, loop
  <2>4. QED
    BY <2>1, <2>2, <2>3, LoopStays DEF ClientInv
<1>6. CASE ChooseSession
  BY <1>6, ChooseKeeps DEF ChooseSession
<1>7. CASE NoSession
  <2>1. /\ phase = "choose" /\ phase' = "crashed" /\ list = <<>>
        /\ UNCHANGED <<opts, user, list, ifIndex, now, curSession, chosen, sessions, used, sent>>
    BY <1>7 DEF NoSession, start, loop
  <2>2. Started' /\ NotYet'
    BY <2>1 DEF ClientInv, Started, NotYet, Running
  <2>3. ~ Listed' /\ UNCHANGED <<opts, list, loop>>
    BY <2>1 DEF Listed, loop
  <2>4. QED
    BY <2>1, <2>2, <2>3, LoopStays DEF ClientInv
<1>8. CASE SendPingPacket
  <2>1. list # <<>>
    BY <1>8 DEF SendPingPacket, Loop!SendPingPacket, ClientInv, NotYet
  <2>2. QED
    BY <1>8, <2>1, SendKeeps DEF SendPingPacket
<1>9. CASE SendFails
  <2>1. list # <<>>
    BY <1>9 DEF SendFails, Loop!SendPingPacket, ClientInv, NotYet
  <2>2. QED
    BY <1>9, <2>1, SendKeeps DEF SendFails
<1>10. CASE Tick
  BY <1>10, TickKeeps
<1>11. CASE UNCHANGED vars
  <2>1. UNCHANGED <<opts, user, list, ifIndex, loop, phase>>
    BY <1>11 DEF vars, start
  <2>2. Started' /\ NotYet'
    BY <2>1 DEF ClientInv, Started, NotYet, Running, loop
  <2>3. Listed' => Listed
    BY <2>1 DEF Listed
  <2>4. QED
    BY <2>1, <2>2, <2>3, LoopStays DEF ClientInv
<1>12. QED
  BY <1>1, <1>2, <1>3, <1>4, <1>5, <1>6, <1>7, <1>8, <1>9, <1>10, <1>11 DEF Next

----------------------------------------------------------------------------
(* The frames.                                                             *)

\* The last frame is one the receiver takes, and is made of bytes.
FrameSound ==
  /\ FrameAccepted
  /\ frame # NoFrame => frame.message \in Seq(0 .. (ByteMod - 1))

\* Whatever the turn and its random size, the receiver takes the frame sendto took
\* (clientsession.cc:180-214, protocol.cc:135-178).
LEMMA FrameSent ==
  ASSUME ClientInv, SendPingPacket
  PROVE  FrameSound'
<1>1. list # <<>>
  BY DEF SendPingPacket, Loop!SendPingPacket, ClientInv, NotYet
<1>2. /\ Listed /\ chosen \in DOMAIN list /\ opts' = opts
      /\ sessions \in [DOMAIN list -> Loop!Session]
      /\ now \in Nat
  <2>1. Listed /\ chosen \in DOMAIN list /\ opts' = opts
    BY <1>1, SentOne DEF SendPingPacket
  <2>2. Looping
    BY <2>1 DEF ClientInv
  <2>3. QED
    BY <2>1, <2>2, ClientAssumption DEF Looping
<1>3. PICK size \in Sizes : frame' = FrameFor(chosen, size)
  BY DEF SendPingPacket
<1>4. opts.m \in 1 .. MaxBuf /\ opts.p \in Nat /\ list = PortList(opts)
      /\ list \in Seq(MinPort .. MaxPort) /\ Range(list) = DescribedPorts(opts)
      /\ MaxBuf \in Nat
  <2>1. opts \in CommandLines /\ OptionsAccepted(opts) /\ list = PortList(opts)
        /\ list # Refused
    BY <1>2 DEF ClientInv, Started, Listed
  <2>2. QED
    BY <2>1, AcceptedNumbers, AcceptedPorts, StartAssumption
<1>5. size \in Nat /\ 6 <= size /\ size <= MaxBuf
  BY <1>3, <1>4, SizeAssumption DEF Sizes, HeaderBytes
<1>6. PICK stamp \in Nat, num \in Nat : stamp = now /\ num = sessions[chosen].seqNum
  BY <1>2 DEF Loop!Session
<1>7. PICK a \in Seq(Byte), b \in Seq(Byte), c \in Seq(Byte) :
        /\ a = Field(stamp) /\ b = Field(num) /\ c = Field(size)
        /\ Len(a) = 2 /\ Len(b) = 2 /\ Len(c) = 2
  BY <1>5, FieldBytes
<1>8. PICK zeros \in Seq(Byte) :
        /\ zeros = [k \in 1 .. MaxBuf |-> 0] /\ Len(zeros) = MaxBuf
        /\ \A k \in 1 .. Len(zeros) : zeros[k] = 0
  <2>1. 0 \in Byte
    BY WordsAreMany DEF Byte
  <2>2. [k \in 1 .. MaxBuf |-> 0] \in [1 .. MaxBuf -> Byte]
    BY <2>1
  <2>3. [k \in 1 .. MaxBuf |-> 0] \in Seq(Byte)
    <3>1. MaxBuf \in Nat
      BY <1>4
    <3>2. QED
      BY ONLY <2>2, <3>1, SeqDef
  <2>4. Len([k \in 1 .. MaxBuf |-> 0]) = MaxBuf
    BY <1>4
  <2>5. QED
    BY <2>3, <2>4
<1>9. PICK message \in Seq(Byte) :
        /\ message = Message(sessions[chosen], size)
        /\ Len(message) = 6 + MaxBuf
        /\ message[5] = c[1] /\ message[6] = c[2]
        /\ \A k \in 7 .. (6 + MaxBuf) : message[k] = 0
  <2>1. Message(sessions[chosen], size) = a \o b \o c \o zeros
    BY ONLY <1>6, <1>7, <1>8 DEF Message, Header
  <2>2. PICK all \in Seq(Byte) :
          /\ all = a \o b \o c \o zeros
          /\ Len(all) = 6 + Len(zeros)
          /\ all[5] = c[1] /\ all[6] = c[2]
          /\ \A k \in 1 .. Len(zeros) : all[6 + k] = 0
    <3>1. Zeros(zeros)
      BY ONLY <1>8, zeros \in Seq(Byte), Zenon DEF Zeros
    <3>2. TwoBytes(a) /\ TwoBytes(b) /\ TwoBytes(c)
      BY ONLY <1>7, a \in Seq(Byte), b \in Seq(Byte), c \in Seq(Byte), Zenon DEF TwoBytes
    <3>3. LaidOut(a \o b \o c \o zeros, c, zeros)
      BY ONLY <3>1, <3>2, MessageBytes
    <3>4. PICK all : all = a \o b \o c \o zeros
      OBVIOUS
    <3>5. LaidOut(all, c, zeros)
      BY ONLY <3>3, <3>4, Zenon
    <3>6. QED
      BY ONLY <3>4, <3>5, Zenon DEF LaidOut
  <2>3. \A k \in 7 .. (6 + MaxBuf) : k - 6 \in 1 .. MaxBuf /\ k = 6 + (k - 6)
    BY ONLY <1>4
  <2>4. \A k \in 1 .. MaxBuf : all[6 + k] = 0
    BY ONLY <1>8, <2>2, Zenon
  <2>5. \A k \in 7 .. (6 + MaxBuf) : all[k] = 0
    BY ONLY <2>3, <2>4, Zenon
  <2>6. Len(all) = 6 + MaxBuf
    BY ONLY <1>8, <2>2, Zenon
  <2>7. QED
    BY ONLY all \in Seq(Byte), <2>1, <2>2, <2>5, <2>6, Zenon
<1>10. PICK port \in Nat :
         /\ port = list[chosen] /\ port % WordMod = port /\ port \in DescribedPorts(opts)
  <2>1. list[chosen] \in Range(list) /\ list[chosen] \in MinPort .. MaxPort
    <3>1. list[chosen] \in Range(list)
      BY <1>2 DEF Range
    <3>2. chosen \in 1 .. Len(list)
      BY <1>2, <1>4, LenProperties
    <3>3. QED
      BY ONLY <1>4, <3>1, <3>2, ElementOfSeq
  <2>2. PICK port \in Nat : port = list[chosen] /\ port < WordMod
    BY <2>1, WordsAreMany, StartAssumption, SizeAssumption
  <2>3. port % WordMod = port
    BY <2>2, WordsAreMany, Fits
  <2>4. QED
    BY <1>4, <2>1, <2>2, <2>3
<1>11. PICK f : /\ f = BuildFrame(Loop!NextMac(chosen), port, opts.p, message, size, 6)
                /\ f = frame'
  BY <1>3, <1>9, <1>10 DEF FrameFor, HeaderBytes
<1>12. Accepted(f)
  <2>1. size \in 0 .. Len(message) /\ 6 \in 1 .. size /\ 6 % 2 = 0
    BY <1>4, <1>5, <1>9
  <2>2. \A k \in (6 + 1) .. size : message[k] = 0
    BY <1>4, <1>5, <1>9
  <2>3. Accepted(BuildFrame(Loop!NextMac(chosen), port, opts.p, message, size, 6))
    BY <1>4, <2>1, <2>2, FrameHolds
  <2>4. QED
    BY <1>11, <2>3
<1>13. /\ f.message = SubSeq(message, 1, size)
       /\ f.source = port
       /\ f.dest = opts.p % WordMod
  <2>1. PICK to \in Nat : to = opts.p
    BY <1>4
  <2>2. PICK mac : f = BuildFrame(mac, port, to, message, size, 6)
    BY <1>11, <2>1
  <2>3. f.message = SubSeq(message, 1, size)
    BY ONLY <2>2 DEF BuildFrame
  <2>4. f.source = port % WordMod /\ f.dest = to % WordMod
    BY ONLY <2>2 DEF BuildFrame
  <2>5. QED
    BY <1>10, <2>1, <2>3, <2>4
<1>14. /\ f.message \in Seq(Byte) /\ Len(f.message) = size
       /\ f.message[5] = c[1] /\ f.message[6] = c[2]
  <2>1. \A k \in 1 .. size : message[k] \in Byte
    <3>1. size <= Len(message) /\ Len(message) \in Nat /\ size \in Nat
      BY <1>4, <1>5, <1>9
    <3>2. QED
      BY ONLY <3>1, message \in Seq(Byte)
  <2>2. /\ SubSeq(message, 1, size) \in Seq(Byte)
        /\ Len(SubSeq(message, 1, size)) = IF 1 <= size THEN size - 1 + 1 ELSE 0
        /\ \A k \in 1 .. (size - 1 + 1) : SubSeq(message, 1, size)[k] = message[1 + k - 1]
    BY ONLY <1>5, <2>1, SubSeqProperties, 1 \in Int, size \in Int
  <2>3. QED
    BY <1>5, <1>9, <1>13, <2>2
<1>15. SubSeq(f.message, 5, 6) = c
  <2>1. PICK g \in Seq(Byte) : g = f.message /\ Len(g) = size /\ g[5] = c[1] /\ g[6] = c[2]
    BY <1>14
  <2>2. \A k \in 5 .. 6 : g[k] \in Byte
    BY <1>5, <2>1, ElementOfSeq
  <2>3. /\ SubSeq(g, 5, 6) \in Seq(Byte)
        /\ Len(SubSeq(g, 5, 6)) = IF 5 <= 6 THEN 6 - 5 + 1 ELSE 0
        /\ \A k \in 1 .. 6 - 5 + 1 : SubSeq(g, 5, 6)[k] = g[5 + k - 1]
    BY ONLY <2>2, SubSeqProperties, 5 \in Int, 6 \in Int
  <2>4. Len(SubSeq(g, 5, 6)) = 2 /\ SubSeq(g, 5, 6)[1] = g[5] /\ SubSeq(g, 5, 6)[2] = g[6]
    BY ONLY <2>3
  <2>5. \A k \in 1 .. Len(c) : SubSeq(g, 5, 6)[k] = c[k]
    BY ONLY <1>7, <2>1, <2>4
  <2>6. SubSeq(g, 5, 6) = c
    BY ONLY c \in Seq(Byte), <1>7, <2>3, <2>4, <2>5, SeqEqual
  <2>7. QED
    BY <2>1, <2>6
<1>16. opts.p < WordMod => f.dest = opts.p
  <2>1. PICK p \in Nat : p = opts.p
    BY <1>4
  <2>2. p < WordMod => p % WordMod = p
    BY WordsAreMany, Fits
  <2>3. QED
    BY <1>13, <2>1, <2>2
<1>17. /\ HeaderBytes <= Len(f.message) /\ Len(f.message) <= MaxBuf
       /\ SubSeq(f.message, HeaderBytes - 1, HeaderBytes) = Field(Len(f.message))
       /\ f.source \in DescribedPorts(opts)
  <2>1. HeaderBytes - 1 = 5 /\ HeaderBytes = 6
    BY DEF HeaderBytes
  <2>2. HeaderBytes <= Len(f.message) /\ Len(f.message) <= MaxBuf
    BY <1>5, <1>14, <2>1
  <2>3. SubSeq(f.message, HeaderBytes - 1, HeaderBytes) = Field(Len(f.message))
    BY ONLY <1>7, <1>14, <1>15, <2>1, Zenon
  <2>4. f.source \in DescribedPorts(opts)
    BY ONLY <1>10, <1>13, Zenon
  <2>5. QED
    BY ONLY <2>2, <2>3, <2>4
<1>18. f.message \in Seq(0 .. (ByteMod - 1))
  BY <1>14 DEF Byte
<1>19. FrameAccepted'
  BY ONLY <1>2, <1>11, <1>12, <1>16, <1>17, Zenon DEF FrameAccepted
<1>20. QED
  BY ONLY <1>11, <1>18, <1>19, Zenon DEF FrameSound

\* A step that hands sendto nothing leaves the last frame, or none
\* (clientsession.cc:180-214).
LEMMA FrameStays ==
  ASSUME FrameSound, opts' = opts, frame' = frame \/ frame' = NoFrame
  PROVE  FrameSound'
  BY DEF FrameSound, FrameAccepted

----------------------------------------------------------------------------
(* The theorems.                                                           *)

\* The invariant is kept, whatever the command line, the clock and the random
\* numbers (client.cc:35-98, clientsession.cc).
THEOREM ClientInvariant == Spec => []ClientInv
  BY InitClient, NextClient, PTL DEF Spec

\* The numbers of a session are consecutive over all its ids, whatever the number of
\* ports, the clock and the sends that fail (clientsession.cc:163-173).
THEOREM Numbering == Spec => []SequenceContinues
<1>1. ClientInv => SequenceContinues
  BY DEF ClientInv
<1>2. QED
  BY <1>1, ClientInvariant, PTL

\* Two pings of an id that a third follows were stamped in one period
\* (clientsession.cc:146-185).
THEOREM Periods == Spec => []OnlyLastStrays
<1>1. ClientInv => OnlyLastStrays
  BY DEF ClientInv
<1>2. QED
  BY <1>1, ClientInvariant, PTL

\* For every number of ports and of next hops, no path is ever two pings ahead of
\* another (clientsession.cc:114-121, maclist.cc:51-55).
THEOREM Balance == Spec => []PathsBalanced
<1>1. ClientInv => PathsBalanced
  <2> SUFFICES ASSUME ClientInv, Running,
                      NEW i \in DOMAIN list, NEW j \in DOMAIN list,
                      NEW m \in 1 .. NumMacs(opts), NEW n \in 1 .. NumMacs(opts)
               PROVE  Loop!Sends(i, m) <= Loop!Sends(j, n) + 1
    BY DEF PathsBalanced, Loop!PathsBalanced, Loop!Sessions
  <2>1. list # <<>>
    OBVIOUS
  <2>2. Listed /\ Balanced
    BY <2>1 DEF Running, Listed, ClientInv
  <2>3. NumMacs(opts) \in Nat
    BY <2>2, LoopNumbers
  <2>4. PICK r \in Int, h \in 1 .. NumMacs(opts) : Round(r, h)
    BY <2>2 DEF Balanced
  <2>5. PICK low \in Int :
          \A k \in DOMAIN list : \A l \in 1 .. NumMacs(opts) :
            Loop!Sends(k, l) = low \/ Loop!Sends(k, l) = low + 1
    <3>1. CASE h < NumMacs(opts)
      <4>1. \A k \in DOMAIN list : \A l \in 1 .. NumMacs(opts) :
              Loop!Sends(k, l) = r \/ Loop!Sends(k, l) = r + 1
        BY <2>3, <2>4, <3>1 DEF Round, AtHop, Carried
      <4>2. QED
        BY <4>1
    <3>2. CASE ~ (h < NumMacs(opts))
      <4>1. \A l \in 1 .. NumMacs(opts) :
              /\ Carried(r, h, l) = r + 1
              /\ Carried(r + 1, 1, l) = r + 1 \/ Carried(r + 1, 1, l) = (r + 1) + 1
        BY <2>3, <3>2 DEF Carried
      <4>2. \A k \in DOMAIN list : \A l \in 1 .. NumMacs(opts) :
              Loop!Sends(k, l) = r + 1 \/ Loop!Sends(k, l) = (r + 1) + 1
        BY <2>4, <3>2, <4>1 DEF Round, AtHop
      <4>3. r + 1 \in Int
        OBVIOUS
      <4>4. QED
        BY <4>2, <4>3
    <3>3. QED
      BY <3>1, <3>2
  <2>6. QED
    BY <2>5
<1>2. QED
  BY <1>1, ClientInvariant, PTL

\* The loop is ready for every command line the checks let through, and begins without
\* a session exactly when -s names no range (client.cc:35-86, clientsession.cc:69-102,
\* ifinfo.cc:44-52).
THEOREM Readiness == Spec => []LoopReady
<1>1. ClientInv => LoopReady
  <2> SUFFICES ASSUME ClientInv, Running PROVE LoopReady
    BY DEF LoopReady
  <2>1. /\ user = "nobody" /\ opts \in CommandLines /\ OptionsAccepted(opts)
        /\ list = PortList(opts) /\ list # Refused
        /\ \E entry \in Range(Interfaces) : entry.addr = opts.l /\ entry.index = ifIndex
    BY DEF ClientInv, Started, Running
  <2>2. opts.i \in 1 .. 900 /\ opts.m \in 1 .. MaxBuf /\ NumMacs(opts) \in Nat \ {0}
    BY <2>1, AcceptedNumbers
  <2>3. /\ list \in Seq(MinPort .. MaxPort) /\ Len(list) <= MaxSockets
        /\ Range(list) = DescribedPorts(opts)
        /\ (list = <<>>) <=> (opts.s.ranges = <<>>)
    BY <2>1, AcceptedPorts
  <2>4. Range(list) \subseteq MinPort .. MaxPort
    <3>1. DOMAIN list = 1 .. Len(list)
      BY <2>3, LenProperties
    <3>2. \A k \in DOMAIN list : list[k] \in MinPort .. MaxPort
      BY <2>3, <3>1, ElementOfSeq
    <3>3. QED
      BY ONLY <3>2 DEF Range
  <2>5. opts.i > 0 /\ opts.m > 0 /\ NumMacs(opts) > 0
    BY <2>2
  <2>6. QED
    BY <2>1, <2>3, <2>4, <2>5 DEF LoopReady
<1>2. QED
  BY <1>1, ClientInvariant, PTL

\* The last frame is sound in every state (clientsession.cc:180-214).
LEMMA FramesSound == Spec => []FrameSound
<1>1. Init => FrameSound
  BY DEF Init, FrameSound, FrameAccepted
<1>2. ClientInv /\ FrameSound /\ [Next]_vars => FrameSound'
  <2> SUFFICES ASSUME ClientInv, FrameSound, [Next]_vars PROVE FrameSound'
    OBVIOUS
  <2>1. CASE SendPingPacket
    BY <2>1, FrameSent
  <2>2. CASE ~ SendPingPacket
    <3>1. opts' = opts /\ (frame' = frame \/ frame' = NoFrame)
      BY <2>2 DEF Next, ReadOptions, MakeList, FollowsNull, DropRoot, GiveUp,
                  ChooseSession, NoSession, SendFails, Tick, start, vars
    <3>2. QED
      BY <3>1, FrameStays
  <2>3. QED
    BY <2>1, <2>2
<1>3. QED
  BY <1>1, <1>2, ClientInvariant, PTL DEF Spec

\* The receiver takes every frame that went out, of every size and contents
\* (protocol.cc:135-241, serversession.cc:128-133).
THEOREM Acceptance == Spec => []FrameAccepted
<1>1. FrameSound => FrameAccepted
  BY DEF FrameSound
<1>2. QED
  BY <1>1, FramesSound, PTL

\* Every variable keeps its type, the loop's from its first turn on
\* (client.cc, clientsession.h, protocol.h:43-61).
THEOREM Typing == Spec => []TypeOK
<1>1. ClientInv /\ FrameSound => TypeOK
  <2> SUFFICES ASSUME ClientInv, FrameSound PROVE TypeOK
    OBVIOUS
  <2>1. /\ opts \in CommandLines
        /\ user \in {"root", "other", "nobody"}
        /\ phase \in {"options", "list", "user", "choose", "send", "exited", "crashed"}
        /\ ifIndex \in {0} \cup {entry.index : entry \in Range(Interfaces)}
    BY DEF ClientInv, Started
  <2>2. ASSUME Running, list # <<>> PROVE Loop!TypeOK
    <3>1. Looping /\ Identified
      BY <2>2 DEF Running, Listed, ClientInv
    <3>2. QED
      BY <2>2, <3>1 DEF Looping, Identified, Loop!TypeOK, Loop!Sessions, Running
  <2>3. QED
    BY <2>1, <2>2 DEF TypeOK, FrameSound
<1>2. QED
  BY <1>1, ClientInvariant, FramesSound, PTL
=============================================================================
