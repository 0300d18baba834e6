-------------------------------- MODULE Frames --------------------------------
(***************************************************************************)
(* src/utils/net/pro_frame.c and the frame socket/example.c sends: how a   *)
(* TCP frame is answered and how its checksums are computed.               *)
(*                                                                         *)
(* A header is the sequence of 16-bit words that go over the wire, high    *)
(* byte first; a 32-bit field is two of them.  The program runs on a       *)
(* little-endian machine: a field it loads is the word with its bytes      *)
(* swapped.  A payload is a sequence of bytes.                             *)
(***************************************************************************)
EXTENDS Integers, SequencesExt

Byte == 0 .. 255
MaxWord == 65535
Word == 0 .. MaxWord
Long == Word \X Word

Swap(w) == (w % 256) * 256 + w \div 256

\* What of a captured TCP frame the answer is made from; len is its length.
Packets ==
    [id : Word, src : Long, dst : Long, sport : Word, dport : Word,
     seq : Long, ack : Long, len : Nat]

\* Lines 158-160: two halves and one more carry, complemented.
Folded_Once(s) == s \div 65536 + (s % 65536)
Folded(s) == LET t == s \div 65536 + (s % 65536) IN t + t \div 65536
Complement(s) == 65535 - (s % 65536)

\* cal_checksum of a buffer of an even number of bytes whose words add up to s.
cal_checksum(s) == Complement(Folded(s))

Total(words) == FoldLeft(LAMBDA s, w : s + w, 0, words)
Total10(w) ==
    w[1] + w[2] + w[3] + w[4] + w[5] + w[6] + w[7] + w[8] + w[9] + w[10]
-----------------------------------------------------------------------------
(* tcp_rep_frame: the fields, by the byte order of this machine.           *)

\* (bytes[4] | bytes[5] << 8) + 1
NextId(w) == Swap((Swap(w) + 1) % 65536)

\* (bytes[4] | ... | bytes[7] << 24) + n
AddLong(l, n) ==
    LET low == Swap(l[1]) + n
    IN  <<Swap(low % 65536), Swap((Swap(l[2]) + low \div 65536) % 65536)>>

\* 44 is the length of the headers of a loopback frame; of an Ethernet frame
\* it is 54.
Ack(p) == AddLong(p.seq, p.len - 44)

\* fill_ip_header and lines 32-34, with checksum c.
IpHeader(p, n, c) ==
    <<69 * 256, 40 + n, NextId(p.id), 64 * 256, 50 * 256 + 6, c,
      p.dst[1], p.dst[2], p.src[1], p.src[2]>>

\* fill_tcp_header and lines 36-39, 47, with checksum c.
TcpHeader(p, c) ==
    <<p.dport, p.sport>> \o p.ack \o Ack(p) \o <<80 * 256 + 24, 255, c, 0>>
-----------------------------------------------------------------------------
(* The buffers the checksums are computed over: words of this machine that *)
(* are equal to the words on the wire.                                     *)

\* The last byte of an odd payload in the low half of its word.
PayloadWords_LowByte(b) ==
    [i \in 1 .. (Len(b) + 1) \div 2 |->
        IF 2 * i <= Len(b) THEN 256 * b[2 * i - 1] + b[2 * i] ELSE b[2 * i - 1]]

\* Lines 116-124.
PayloadWords(b) ==
    [i \in 1 .. (Len(b) + 1) \div 2 |->
        256 * b[2 * i - 1] + (IF 2 * i <= Len(b) THEN b[2 * i] ELSE 0)]

PseudoHeader(p, n) == p.dst \o p.src \o <<6, n + 20>>

\* convert_byte_order, and >> 8 and & 0xff on a loaded field, swap it back.
TcpCheckBuffer(p, b) ==
    PseudoHeader(p, Len(b))
      \o <<p.dport, p.sport>> \o p.ack \o Ack(p) \o <<80 * 256 + 24, 255, 0, 0>>
      \o PayloadWords(b)

IpCheckBuffer(p, n) ==
    <<69 * 256, 40 + n, NextId(p.id), 64 * 256, 50 * 256 + 6, 0,
      p.dst[1], p.dst[2], p.src[1], p.src[2]>>

\* The answer: htons puts a checksum back into the order of the wire.
tcp_rep_frame(p, b) ==
    [ip  |-> IpHeader(p, Len(b), cal_checksum(Total10(IpCheckBuffer(p, Len(b))))),
     tcp |-> TcpHeader(p, cal_checksum(Total(TcpCheckBuffer(p, b)))),
     payload |-> b]
-----------------------------------------------------------------------------
(* example.c sums the header as this machine loads it, and stores the      *)
(* checksum as it is: neither the words nor the result are swapped.        *)

ExampleFields(p, n, c) ==
    <<69 * 256, 40 + n, 0, 0, 128 * 256 + 6, c>> \o p.src \o p.dst

ExampleHeader(p, n) ==
    LET loaded == [i \in 1 .. 10 |-> Swap(ExampleFields(p, n, 0)[i])]
    IN  ExampleFields(p, n, Swap(cal_checksum(Total10(loaded))))
-----------------------------------------------------------------------------
(* What a receiver does (RFC 1071): the one's complement sum of all words, *)
(* checksum included, is 65535.                                            *)

OnesComplementSum(s) == IF s = 0 THEN 0 ELSE 1 + ((s - 1) % 65535)

ByteTotal(b) == Total([i \in 1 .. Len(b) |-> (IF i % 2 = 1 THEN 256 ELSE 1) * b[i]])

\* The answer's checksums verify, over the bytes that are sent and not over the
\* buffers they were computed from: odd payloads, carries out of the folded sum
\* (lines 158-159) and sums built from byte-swapped fields included. The header
\* example.c sends verifies although it is summed in the other byte order.
Verifies(p, b) ==
    LET f == tcp_rep_frame(p, b) IN
    /\ OnesComplementSum(Total10(f.ip)) = 65535
    /\ OnesComplementSum(Total(PseudoHeader(p, Len(b))) + Total(f.tcp)
                           + ByteTotal(f.payload)) = 65535
    /\ OnesComplementSum(Total10(ExampleHeader(p, Len(b)))) = 65535
==============================================================================
