------------------------------- MODULE Frame -------------------------------
(***************************************************************************)
(* The frame of a ping and its two checksums (src/src/protocol.cc:135-241, *)
(* src/include/protocol.h:52-61), and what the receiving kernel makes of   *)
(* it.  A byte is a number below ByteMod (256 in the code), a word is two  *)
(* bytes in network order; the code adds the words as the host loads them, *)
(* which gives the same sum with its bytes swapped.  Lengths are in bytes, *)
(* a message is a sequence of them.                                        *)
(***************************************************************************)
EXTENDS Integers, Sequences

CONSTANTS
  ByteMod,     \* values of a byte
  IpWords,     \* the words of the IP header that never change
  AddrWords    \* the words of the two IP addresses

WordMod == ByteMod * ByteMod
Word == 0 .. (WordMod - 1)

ASSUME FrameAssumption ==
  ByteMod \in Nat /\ ByteMod > 1 /\ IpWords \in Seq(Word) /\ AddrWords \in Seq(Word)

Ip4HdrLen == 20
UdpHdrLen == 8
UdpProto == 17 % ByteMod

\* A field of 16 bits in network order (htons): what does not fit is cut off.
Field(v) == <<(v \div ByteMod) % ByteMod, v % ByteMod>>

\* The sum of the first k of some words, for each k.
Sums(words) ==
  LET sums[k \in 0 .. Len(words)] == IF k = 0 THEN 0 ELSE sums[k - 1] + words[k]
  IN  sums

SumOf(words) == Sums(words)[Len(words)]

\* The whole words among the first len bytes.
WordsOf(bytes, len) ==
  [k \in 1 .. (len \div 2) |-> bytes[2 * k - 1] * ByteMod + bytes[2 * k]]

\* The carries added back until the sum is a word.
Folded[sum \in Nat] ==
  IF sum < WordMod THEN sum ELSE Folded[(sum % WordMod) + (sum \div WordMod)]

Complement(sum) == WordMod - 1 - Folded[sum]

\* checksum: of a header of whole words.
Checksum(words) == Complement(SumOf(words))

\* A plausible bug: the length counts once, as a field of the header only.
Udp4Checksum2LengthOnce(source, dest, length, payload, len) ==
  Complement(SumOf(AddrWords) + UdpProto + source + dest + length
             + SumOf(WordsOf(payload, len)))

\* udp4_checksum2: the pseudo header, the header and len bytes of the payload;
\* a byte left over is added at the wrong end of its word.
Udp4Checksum2(source, dest, length, payload, len) ==
  Complement(SumOf(AddrWords) + UdpProto + length + source + dest + length
             + SumOf(WordsOf(payload, len))
             + (IF len % 2 = 1 THEN payload[len] ELSE 0))

\* The words of the IP header, with the given checksum.
IpHeader(length, sum) == IpWords \o <<length, sum>> \o AddrWords

\* buildFrame; a checksumLength of zero stands for the whole message.
BuildFrame(dstMac, srcPort, dstPort, message, datalen, checksumLength) ==
  LET ipLen == Ip4HdrLen + UdpHdrLen + datalen
      udpLen == UdpHdrLen + datalen
      source == srcPort % WordMod
      dest == dstPort % WordMod
      summed == IF checksumLength = 0 THEN datalen ELSE checksumLength
  IN  [dstMac |-> dstMac,
       ipLen |-> ipLen,
       ipSum |-> Checksum(IpHeader(ipLen, 0)),
       source |-> source,
       dest |-> dest,
       udpLen |-> udpLen,
       check |-> Udp4Checksum2(source, dest, udpLen, message, summed),
       message |-> SubSeq(message, 1, datalen)]

----------------------------------------------------------------------------
(* The receiver (RFC 1071, RFC 768).                                       *)

\* The sum in one's complement arithmetic: modulo WordMod - 1, and zero only
\* of zeros.
OnesSum(words) ==
  LET sum == SumOf(words)
  IN  IF sum = 0 THEN 0 ELSE 1 + ((sum - 1) % (WordMod - 1))

\* The message's words, the last one completed by a zero byte.
Padded(bytes) == IF Len(bytes) % 2 = 1 THEN Append(bytes, 0) ELSE bytes

\* Both checksums hold and the lengths agree; a zero check is not looked at.
Accepted(f) ==
  /\ f.ipLen = Ip4HdrLen + f.udpLen
  /\ f.udpLen = UdpHdrLen + Len(f.message)
  /\ OnesSum(IpHeader(f.ipLen, f.ipSum)) = WordMod - 1
  /\ \/ f.check = 0
     \/ OnesSum(AddrWords \o <<UdpProto, f.udpLen, f.source, f.dest, f.udpLen, f.check>>
                \o WordsOf(Padded(f.message), Len(Padded(f.message)))) = WordMod - 1
=============================================================================
