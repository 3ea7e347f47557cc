---------------------------- MODULE Broker_proofs ----------------------------
(***************************************************************************)
(* Proofs about the broker, for every request, address and response: it    *)
(* connects to public addresses only, a path that it lets through stays    *)
(* below the rule's prefix, and a response that it passes on holds no      *)
(* credential under the encodings it looks for.                            *)
(*                                                                         *)
(* The operators go through their sequences by folds.  FoldFacts gives the *)
(* run of a fold, the values after each element; what a fold computes is   *)
(* then shown by induction over the run.                                   *)
(***************************************************************************)
EXTENDS Algorithms, TLAPS

-----------------------------------------------------------------------------
(* Blocks.                                                                 *)

\* A part v of w bits agrees with b in its first bits.
Agrees(v, b, bits, w) ==
    LET rest == IF bits >= w THEN 1 ELSE 2^(w - bits)
    IN  bits > 0 => v \div rest = b \div rest

\* An address lies in a block if each of its octets agrees with the block.
LEMMA OctetsInBlock ==
  ASSUME NEW x, NEW y, NEW z, NEW b, b[2] \in Int
  PROVE  Broker!InBlock(<<x, y, z>>, b, 8)
         <=> /\ Agrees(x, b[1][1], b[2], 8)
             /\ Agrees(y, b[1][2], b[2] - 8, 8)
             /\ Agrees(z, b[1][3], b[2] - 16, 8)
<1> DEFINE parts == <<x, y, z>>
<1>1. Broker!InBlock(parts, b, 8)
      <=> \A i \in {1, 2, 3} : Agrees(parts[i], b[1][i], b[2] - 8 * (i - 1), 8)
  <2>1. DOMAIN parts = {1, 2, 3}
    OBVIOUS
  <2> HIDE DEF parts
  <2> QED
    BY <2>1, Zenon DEF Broker!InBlock, Agrees
<1>2. b[2] - 8 * (1 - 1) = b[2] /\ b[2] - 8 * (2 - 1) = b[2] - 8 /\ b[2] - 8 * (3 - 1) = b[2] - 16
  OBVIOUS
<1>3. parts[1] = x /\ parts[2] = y /\ parts[3] = z
  OBVIOUS
<1> HIDE DEF parts
<1> QED
  BY <1>1, <1>2, <1>3, Zenon DEF parts

\* The same of a block whose parts are known.
LEMMA OctetsOf ==
  ASSUME NEW x, NEW y, NEW z, NEW a, NEW b, NEW c, NEW n \in Int
  PROVE  Broker!InBlock(<<x, y, z>>, <<<<a, b, c>>, n>>, 8)
         <=> Agrees(x, a, n, 8) /\ Agrees(y, b, n - 8, 8) /\ Agrees(z, c, n - 16, 8)
<1> DEFINE d == <<<<a, b, c>>, n>>
<1>1. d[1][1] = a /\ d[1][2] = b /\ d[1][3] = c /\ d[2] = n
  OBVIOUS
<1> HIDE DEF d
<1>2. Broker!InBlock(<<x, y, z>>, d, 8)
         <=> /\ Agrees(x, d[1][1], d[2], 8)
             /\ Agrees(y, d[1][2], d[2] - 8, 8)
             /\ Agrees(z, d[1][3], d[2] - 16, 8)
  BY <1>1, OctetsInBlock, Zenon
<1> QED
  BY <1>1, <1>2, Zenon DEF d

\* So does an address of two segments.
LEMMA SegmentsInBlock ==
  ASSUME NEW x, NEW y, NEW b, b[2] \in Int
  PROVE  Broker!InBlock(<<x, y>>, b, 16)
         <=> Agrees(x, b[1][1], b[2], 16) /\ Agrees(y, b[1][2], b[2] - 16, 16)
<1> DEFINE parts == <<x, y>>
<1>1. Broker!InBlock(parts, b, 16)
      <=> \A i \in {1, 2} : Agrees(parts[i], b[1][i], b[2] - 16 * (i - 1), 16)
  <2>1. DOMAIN parts = {1, 2}
    OBVIOUS
  <2> HIDE DEF parts
  <2> QED
    BY <2>1, Zenon DEF Broker!InBlock, Agrees
<1>2. b[2] - 16 * (1 - 1) = b[2] /\ b[2] - 16 * (2 - 1) = b[2] - 16
  OBVIOUS
<1>3. parts[1] = x /\ parts[2] = y
  OBVIOUS
<1> HIDE DEF parts
<1> QED
  BY <1>1, <1>2, <1>3, Zenon DEF parts

\* The same of a block whose parts are known.
LEMMA SegmentsOf ==
  ASSUME NEW x, NEW y, NEW a, NEW b, NEW n \in Int
  PROVE  Broker!InBlock(<<x, y>>, <<<<a, b>>, n>>, 16)
         <=> Agrees(x, a, n, 16) /\ Agrees(y, b, n - 16, 16)
<1> DEFINE d == <<<<a, b>>, n>>
<1>1. d[1][1] = a /\ d[1][2] = b /\ d[2] = n
  OBVIOUS
<1> HIDE DEF d
<1>2. Broker!InBlock(<<x, y>>, d, 16)
      <=> Agrees(x, d[1][1], d[2], 16) /\ Agrees(y, d[1][2], d[2] - 16, 16)
  BY <1>1, SegmentsInBlock, Zenon
<1> QED
  BY <1>1, <1>2, Zenon DEF d

-----------------------------------------------------------------------------
(* IPv4.                                                                   *)

\* Blocks of one, two or three octets.
LEMMA OneOctet ==
  ASSUME NEW x \in Int, NEW y \in Int, NEW z \in Int, NEW a \in Int
  PROVE  Broker!InBlock(<<x, y, z>>, <<<<a, 0, 0>>, 8>>, 8) <=> x = a
<1>1. Broker!InBlock(<<x, y, z>>, <<<<a, 0, 0>>, 8>>, 8)
      <=> Agrees(x, a, 8, 8) /\ Agrees(y, 0, 8 - 8, 8) /\ Agrees(z, 0, 8 - 16, 8)
  BY OctetsOf, SMTT(10)
<1>2. Agrees(x, a, 8, 8) /\ Agrees(y, 0, 8 - 8, 8) /\ Agrees(z, 0, 8 - 16, 8)
      <=> x = a
  BY SMTT(10) DEF Agrees
<1> QED
  BY <1>1, <1>2, Zenon

\* The addresses of a block whose prefix ends with the second octet.
LEMMA TwoOctets ==
  ASSUME NEW x \in Int, NEW y \in Int, NEW z \in Int, NEW a \in Int, NEW b \in Int
  PROVE  Broker!InBlock(<<x, y, z>>, <<<<a, b, 0>>, 16>>, 8) <=> x = a /\ y = b
<1>1. Broker!InBlock(<<x, y, z>>, <<<<a, b, 0>>, 16>>, 8)
      <=> Agrees(x, a, 16, 8) /\ Agrees(y, b, 16 - 8, 8) /\ Agrees(z, 0, 16 - 16, 8)
  BY OctetsOf, SMTT(10)
<1>2. Agrees(x, a, 16, 8) /\ Agrees(y, b, 16 - 8, 8) /\ Agrees(z, 0, 16 - 16, 8)
      <=> x = a /\ y = b
  BY SMTT(10) DEF Agrees
<1> QED
  BY <1>1, <1>2, Zenon

\* The addresses of a block whose prefix ends with the third octet.
LEMMA ThreeOctets ==
  ASSUME NEW x \in Int, NEW y \in Int, NEW z \in Int, NEW a \in Int, NEW b \in Int, NEW c \in Int
  PROVE  Broker!InBlock(<<x, y, z>>, <<<<a, b, c>>, 24>>, 8) <=> x = a /\ y = b /\ z = c
<1>1. Broker!InBlock(<<x, y, z>>, <<<<a, b, c>>, 24>>, 8)
      <=> Agrees(x, a, 24, 8) /\ Agrees(y, b, 24 - 8, 8) /\ Agrees(z, c, 24 - 16, 8)
  BY OctetsOf, SMTT(10)
<1>2. Agrees(x, a, 24, 8) /\ Agrees(y, b, 24 - 8, 8) /\ Agrees(z, c, 24 - 16, 8)
      <=> x = a /\ y = b /\ z = c
  BY SMTT(10) DEF Agrees
<1> QED
  BY <1>1, <1>2, Zenon

\* Blocks that end inside an octet.
LEMMA PrefixOf ==
  ASSUME NEW x \in Int, NEW y \in Int, NEW z \in Int, NEW a \in Int, NEW b \in Int, NEW n \in Int
  PROVE  Broker!InBlock(<<x, y, z>>, <<<<a, b, 0>>, n>>, 8)
         <=> Agrees(x, a, n, 8) /\ Agrees(y, b, n - 8, 8) /\ Agrees(z, 0, n - 16, 8)
BY OctetsOf, Zenon

\* 100.64.0.0/10
LEMMA SharedBlock ==
  ASSUME NEW x \in Int, NEW y \in Int, NEW z \in Int
  PROVE  Broker!InBlock(<<x, y, z>>, <<<<100, 64, 0>>, 10>>, 8) <=> x = 100 /\ 64 <= y /\ y <= 127
<1>1. Broker!InBlock(<<x, y, z>>, <<<<100, 64, 0>>, 10>>, 8)
      <=> Agrees(x, 100, 10, 8) /\ Agrees(y, 64, 10 - 8, 8) /\ Agrees(z, 0, 10 - 16, 8)
  BY PrefixOf, SMTT(10)
<1>2. Agrees(x, 100, 10, 8) /\ Agrees(y, 64, 10 - 8, 8) /\ Agrees(z, 0, 10 - 16, 8)
      <=> x = 100 /\ 64 <= y /\ y <= 127
  BY SMTT(10) DEF Agrees
<1> QED
  BY <1>1, <1>2, Zenon

\* 172.16.0.0/12
LEMMA PrivateBlock ==
  ASSUME NEW x \in Int, NEW y \in Int, NEW z \in Int
  PROVE  Broker!InBlock(<<x, y, z>>, <<<<172, 16, 0>>, 12>>, 8) <=> x = 172 /\ 16 <= y /\ y <= 31
<1>1. Broker!InBlock(<<x, y, z>>, <<<<172, 16, 0>>, 12>>, 8)
      <=> Agrees(x, 172, 12, 8) /\ Agrees(y, 16, 12 - 8, 8) /\ Agrees(z, 0, 12 - 16, 8)
  BY PrefixOf, SMTT(10)
<1>2. Agrees(x, 172, 12, 8) /\ Agrees(y, 16, 12 - 8, 8) /\ Agrees(z, 0, 12 - 16, 8)
      <=> x = 172 /\ 16 <= y /\ y <= 31
  BY SMTT(10) DEF Agrees
<1> QED
  BY <1>1, <1>2, Zenon

\* 198.18.0.0/15
LEMMA BenchmarkBlock ==
  ASSUME NEW x \in Int, NEW y \in Int, NEW z \in Int
  PROVE  Broker!InBlock(<<x, y, z>>, <<<<198, 18, 0>>, 15>>, 8) <=> x = 198 /\ 18 <= y /\ y <= 19
<1>1. Broker!InBlock(<<x, y, z>>, <<<<198, 18, 0>>, 15>>, 8)
      <=> Agrees(x, 198, 15, 8) /\ Agrees(y, 18, 15 - 8, 8) /\ Agrees(z, 0, 15 - 16, 8)
  BY PrefixOf, SMTT(10)
<1>2. Agrees(x, 198, 15, 8) /\ Agrees(y, 18, 15 - 8, 8) /\ Agrees(z, 0, 15 - 16, 8)
      <=> x = 198 /\ 18 <= y /\ y <= 19
  BY SMTT(10) DEF Agrees
<1> QED
  BY <1>1, <1>2, Zenon

\* 224.0.0.0/3, which is multicast and what lies above it.
LEMMA MulticastBlock ==
  ASSUME NEW x \in Int, NEW y \in Int, NEW z \in Int
  PROVE  Broker!InBlock(<<x, y, z>>, <<<<224, 0, 0>>, 3>>, 8) <=> 224 <= x /\ x <= 255
<1>1. Broker!InBlock(<<x, y, z>>, <<<<224, 0, 0>>, 3>>, 8)
      <=> Agrees(x, 224, 3, 8) /\ Agrees(y, 0, 3 - 8, 8) /\ Agrees(z, 0, 3 - 16, 8)
  BY PrefixOf, SMTT(10)
<1>2. Agrees(x, 224, 3, 8) /\ Agrees(y, 0, 3 - 8, 8) /\ Agrees(z, 0, 3 - 16, 8)
      <=> 224 <= x /\ x <= 255
  BY SMTT(10) DEF Agrees
<1> QED
  BY <1>1, <1>2, SMTT(10)

\* The block of the addresses that begin with the first n bits of p.q.r.
Block(p, q, r, n) == <<<<p, q, r>>, n>>

\* The special-purpose blocks, by where they end.
Ipv4Blocks ==
    [one |-> {Block(0, 0, 0, 8), Block(10, 0, 0, 8), Block(127, 0, 0, 8)},
     two |-> {Block(169, 254, 0, 16), Block(192, 168, 0, 16)},
     three |-> {Block(192, 0, 0, 24), Block(192, 0, 2, 24), Block(192, 88, 99, 24),
                Block(198, 51, 100, 24), Block(203, 0, 113, 24)},
     inside |-> {Block(100, 64, 0, 10), Block(172, 16, 0, 12), Block(198, 18, 0, 15),
                 Block(224, 0, 0, 3)}]

\* The blocks by the length of their prefixes.
LEMMA EveryIpv4Block ==
  Broker!SpecialIpv4 =
      Ipv4Blocks.one \cup Ipv4Blocks.two \cup Ipv4Blocks.three \cup Ipv4Blocks.inside
<1> DEFINE one == Ipv4Blocks.one
           two == Ipv4Blocks.two
           three == Ipv4Blocks.three
           inside == Ipv4Blocks.inside
<1>1. one \cup two \cup three \cup inside =
          {Block(0, 0, 0, 8), Block(10, 0, 0, 8), Block(100, 64, 0, 10), Block(127, 0, 0, 8),
           Block(169, 254, 0, 16), Block(172, 16, 0, 12), Block(192, 0, 0, 24),
           Block(192, 0, 2, 24), Block(192, 88, 99, 24), Block(192, 168, 0, 16),
           Block(198, 18, 0, 15), Block(198, 51, 100, 24), Block(203, 0, 113, 24),
           Block(224, 0, 0, 3)}
  BY SMTT(20) DEF Ipv4Blocks
<1>2. Broker!SpecialIpv4 =
          {Block(0, 0, 0, 8), Block(10, 0, 0, 8), Block(100, 64, 0, 10), Block(127, 0, 0, 8),
           Block(169, 254, 0, 16), Block(172, 16, 0, 12), Block(192, 0, 0, 24),
           Block(192, 0, 2, 24), Block(192, 88, 99, 24), Block(192, 168, 0, 16),
           Block(198, 18, 0, 15), Block(198, 51, 100, 24), Block(203, 0, 113, 24),
           Block(224, 0, 0, 3)}
  BY Zenon DEF Broker!SpecialIpv4, Block
<1> QED
  BY <1>1, <1>2

\* is_public_ipv4 refuses the special-purpose blocks and nothing else.
LEMMA PublicIpv4 ==
  ASSUME NEW x \in Int, NEW y \in Int, NEW z \in Int
  PROVE  Broker!IsPublicIpv4(<<x, y, z>>)
         <=> ~ \E b \in Broker!SpecialIpv4 : Broker!InBlock(<<x, y, z>>, b, 8)
<1> DEFINE Lies(b) == Broker!InBlock(<<x, y, z>>, b, 8)
           one == x = 0 \/ x = 10 \/ x = 127
           two == (x = 169 /\ y = 254) \/ (x = 192 /\ y = 168)
           three == \/ x = 192 /\ y = 0 /\ (z = 0 \/ z = 2)
                    \/ x = 192 /\ y = 88 /\ z = 99
                    \/ x = 198 /\ y = 51 /\ z = 100
                    \/ x = 203 /\ y = 0 /\ z = 113
           inside == \/ x = 100 /\ 64 <= y /\ y <= 127
                     \/ x = 172 /\ 16 <= y /\ y <= 31
                     \/ x = 198 /\ 18 <= y /\ y <= 19
                     \/ 224 <= x /\ x <= 255
<1>1. (\E b \in Ipv4Blocks.one : Lies(b)) <=> one
  <2>1. /\ Lies(Block(0, 0, 0, 8)) <=> x = 0
        /\ Lies(Block(10, 0, 0, 8)) <=> x = 10
        /\ Lies(Block(127, 0, 0, 8)) <=> x = 127
    BY OneOctet, SMTT(10) DEF Block
  <2> HIDE DEF Lies
  <2> QED
    BY <2>1, SMTT(10) DEF Ipv4Blocks
<1>2. (\E b \in Ipv4Blocks.two : Lies(b)) <=> two
  <2>1. /\ Lies(Block(169, 254, 0, 16)) <=> x = 169 /\ y = 254
        /\ Lies(Block(192, 168, 0, 16)) <=> x = 192 /\ y = 168
    BY TwoOctets, SMTT(10) DEF Block
  <2> HIDE DEF Lies
  <2> QED
    BY <2>1, SMTT(10) DEF Ipv4Blocks
<1>3. (\E b \in Ipv4Blocks.three : Lies(b)) <=> three
  <2>1. /\ Lies(Block(192, 0, 0, 24)) <=> x = 192 /\ y = 0 /\ z = 0
        /\ Lies(Block(192, 0, 2, 24)) <=> x = 192 /\ y = 0 /\ z = 2
    BY ThreeOctets, SMTT(10) DEF Block
  <2>2. /\ Lies(Block(192, 88, 99, 24)) <=> x = 192 /\ y = 88 /\ z = 99
        /\ Lies(Block(198, 51, 100, 24)) <=> x = 198 /\ y = 51 /\ z = 100
        /\ Lies(Block(203, 0, 113, 24)) <=> x = 203 /\ y = 0 /\ z = 113
    BY ThreeOctets, SMTT(10) DEF Block
  <2> HIDE DEF Lies
  <2> QED
    BY <2>1, <2>2, SMTT(10) DEF Ipv4Blocks
<1>4. (\E b \in Ipv4Blocks.inside : Lies(b)) <=> inside
  <2>1. /\ Lies(Block(100, 64, 0, 10)) <=> x = 100 /\ 64 <= y /\ y <= 127
        /\ Lies(Block(172, 16, 0, 12)) <=> x = 172 /\ 16 <= y /\ y <= 31
    BY SharedBlock, PrivateBlock DEF Block
  <2>2. /\ Lies(Block(198, 18, 0, 15)) <=> x = 198 /\ 18 <= y /\ y <= 19
        /\ Lies(Block(224, 0, 0, 3)) <=> 224 <= x /\ x <= 255
    BY BenchmarkBlock, MulticastBlock DEF Block
  <2> HIDE DEF Lies
  <2> QED
    BY <2>1, <2>2, SMTT(10) DEF Ipv4Blocks
<1>5. (\E b \in Broker!SpecialIpv4 : Lies(b))
      <=> \/ \E b \in Ipv4Blocks.one : Lies(b)
          \/ \E b \in Ipv4Blocks.two : Lies(b)
          \/ \E b \in Ipv4Blocks.three : Lies(b)
          \/ \E b \in Ipv4Blocks.inside : Lies(b)
  BY EveryIpv4Block, Zenon
<1>6. Broker!IsPublicIpv4(<<x, y, z>>) <=> ~(one \/ two \/ three \/ inside)
  BY SMTT(10) DEF Broker!IsPublicIpv4
<1> HIDE DEF one, two, three, inside, Lies
<1>7. (\E b \in Broker!SpecialIpv4 : Lies(b)) <=> one \/ two \/ three \/ inside
  BY <1>1, <1>2, <1>3, <1>4, <1>5, Zenon
<1> QED
  BY <1>6, <1>7, Zenon DEF Lies
-----------------------------------------------------------------------------
(* IPv6.                                                                   *)

\* What the masks of is_public_ipv6 look at.
LEMMA SegmentParts ==
  ASSUME NEW v \in Int
  PROVE  /\ Agrees(v, 64512, 7, 16) <=> Broker!Masked(v, 9, 64512)
         /\ Agrees(v, 65152, 10, 16) <=> Broker!Masked(v, 6, 65152)
         /\ Agrees(v, 65216, 10, 16) <=> Broker!Masked(v, 6, 65216)
         /\ Agrees(v, 8192, 3, 16) <=> Broker!Masked(v, 13, 8192)
         /\ Agrees(v, 0, 7, 16) <=> Broker!Masked(v, 9, 0)
         /\ Agrees(v, 0, 4, 16) <=> Broker!Masked(v, 12, 0)
BY SMTT(10) DEF Agrees, Broker!Masked

\* A block of at most sixteen bits lies in the first segment.
LEMMA ShortPrefix ==
  ASSUME NEW x \in Int, NEW y \in Int, NEW a \in Int, NEW n \in Int, n <= 16
  PROVE  Broker!InBlock(<<x, y>>, <<<<a, 0>>, n>>, 16) <=> Agrees(x, a, n, 16)
<1>1. Broker!InBlock(<<x, y>>, <<<<a, 0>>, n>>, 16)
      <=> Agrees(x, a, n, 16) /\ Agrees(y, 0, n - 16, 16)
  BY SegmentsOf, Zenon
<1>2. Agrees(y, 0, n - 16, 16)
  BY SMTT(10) DEF Agrees
<1> QED
  BY <1>1, <1>2, Zenon

\* Blocks inside the first segment, and multicast, which is not global unicast.
LEMMA FirstSegment ==
  ASSUME NEW x \in Int, NEW y \in Int
  PROVE  /\ Broker!InBlock(<<x, y>>, <<<<64512, 0>>, 7>>, 16) <=> Broker!Masked(x, 9, 64512)
         /\ Broker!InBlock(<<x, y>>, <<<<65152, 0>>, 10>>, 16) <=> Broker!Masked(x, 6, 65152)
         /\ Broker!InBlock(<<x, y>>, <<<<65216, 0>>, 10>>, 16) <=> Broker!Masked(x, 6, 65216)
         /\ Broker!InBlock(<<x, y>>, <<<<8192, 0>>, 3>>, 16) <=> Broker!Masked(x, 13, 8192)
         /\ Broker!InBlock(<<x, y>>, <<<<65280, 0>>, 8>>, 16) => ~Broker!Masked(x, 13, 8192)
<1>1. Broker!InBlock(<<x, y>>, <<<<64512, 0>>, 7>>, 16) <=> Agrees(x, 64512, 7, 16)
  BY ShortPrefix, SMTT(10)
<1>2. Broker!InBlock(<<x, y>>, <<<<65152, 0>>, 10>>, 16) <=> Agrees(x, 65152, 10, 16)
  BY ShortPrefix, SMTT(10)
<1>3. Broker!InBlock(<<x, y>>, <<<<65216, 0>>, 10>>, 16) <=> Agrees(x, 65216, 10, 16)
  BY ShortPrefix, SMTT(10)
<1>4. Broker!InBlock(<<x, y>>, <<<<8192, 0>>, 3>>, 16) <=> Agrees(x, 8192, 3, 16)
  BY ShortPrefix, SMTT(10)
<1>5. Broker!InBlock(<<x, y>>, <<<<65280, 0>>, 8>>, 16) <=> Agrees(x, 65280, 8, 16)
  BY ShortPrefix, SMTT(10)
<1>6. Agrees(x, 65280, 8, 16) => ~Broker!Masked(x, 13, 8192)
  BY SMTT(10) DEF Agrees, Broker!Masked
<1> QED
  BY <1>1, <1>2, <1>3, <1>4, <1>5, <1>6, SegmentParts, SMTT(10)

\* Blocks that end inside the second segment or with one of the two.
LEMMA SecondSegment ==
  ASSUME NEW x \in Int, NEW y \in Int
  PROVE  /\ Broker!InBlock(<<x, y>>, <<<<8193, 0>>, 23>>, 16) <=> x = 8193 /\ Broker!Masked(y, 9, 0)
         /\ Broker!InBlock(<<x, y>>, <<<<8193, 3512>>, 32>>, 16) <=> x = 8193 /\ y = 3512
         /\ Broker!InBlock(<<x, y>>, <<<<8194, 0>>, 16>>, 16) <=> x = 8194
         /\ Broker!InBlock(<<x, y>>, <<<<16383, 0>>, 20>>, 16) <=> x = 16383 /\ Broker!Masked(y, 12, 0)
<1>1. Broker!InBlock(<<x, y>>, <<<<8193, 0>>, 23>>, 16) <=> x = 8193 /\ Broker!Masked(y, 9, 0)
  <2>1. Broker!InBlock(<<x, y>>, <<<<8193, 0>>, 23>>, 16)
        <=> Agrees(x, 8193, 23, 16) /\ Agrees(y, 0, 23 - 16, 16)
    BY SegmentsOf, SMTT(10)
  <2> QED
    BY <2>1, SMTT(10) DEF Agrees, Broker!Masked
<1>2. Broker!InBlock(<<x, y>>, <<<<8193, 3512>>, 32>>, 16) <=> x = 8193 /\ y = 3512
  <2>1. Broker!InBlock(<<x, y>>, <<<<8193, 3512>>, 32>>, 16)
        <=> Agrees(x, 8193, 32, 16) /\ Agrees(y, 3512, 32 - 16, 16)
    BY SegmentsOf, SMTT(10)
  <2> QED
    BY <2>1, SMTT(10) DEF Agrees
<1>3. Broker!InBlock(<<x, y>>, <<<<8194, 0>>, 16>>, 16) <=> x = 8194
  <2>1. Broker!InBlock(<<x, y>>, <<<<8194, 0>>, 16>>, 16)
        <=> Agrees(x, 8194, 16, 16) /\ Agrees(y, 0, 16 - 16, 16)
    BY SegmentsOf, SMTT(10)
  <2> QED
    BY <2>1, SMTT(10) DEF Agrees
<1>4. Broker!InBlock(<<x, y>>, <<<<16383, 0>>, 20>>, 16) <=> x = 16383 /\ Broker!Masked(y, 12, 0)
  <2>1. Broker!InBlock(<<x, y>>, <<<<16383, 0>>, 20>>, 16)
        <=> Agrees(x, 16383, 20, 16) /\ Agrees(y, 0, 20 - 16, 16)
    BY SegmentsOf, SMTT(10)
  <2> QED
    BY <2>1, SMTT(10) DEF Agrees, Broker!Masked
<1> QED
  BY <1>1, <1>2, <1>3, <1>4

\* The addresses that begin with the first n bits of a:c.
Segments(a, c, n) == <<<<a, c>>, n>>

Ipv6Blocks ==
    [first |-> {Segments(64512, 0, 7), Segments(65152, 0, 10), Segments(65216, 0, 10),
                Segments(65280, 0, 8)},
     second |-> {Segments(8193, 0, 23), Segments(8193, 3512, 32), Segments(8194, 0, 16),
                 Segments(16383, 0, 20)}]

\* The blocks by the number of segments that decide.
LEMMA EveryIpv6Block == Broker!SpecialIpv6 = Ipv6Blocks.first \cup Ipv6Blocks.second
<1>1. Ipv6Blocks.first \cup Ipv6Blocks.second =
          {Segments(64512, 0, 7), Segments(65152, 0, 10), Segments(65216, 0, 10),
           Segments(65280, 0, 8), Segments(8193, 0, 23), Segments(8193, 3512, 32),
           Segments(8194, 0, 16), Segments(16383, 0, 20)}
  BY SMTT(20) DEF Ipv6Blocks
<1>2. Broker!SpecialIpv6 =
          {Segments(64512, 0, 7), Segments(65152, 0, 10), Segments(65216, 0, 10),
           Segments(65280, 0, 8), Segments(8193, 0, 23), Segments(8193, 3512, 32),
           Segments(8194, 0, 16), Segments(16383, 0, 20)}
  BY SMTT(20) DEF Broker!SpecialIpv6, Segments
<1> QED
  BY <1>1, <1>2

\* is_public_ipv6 allows what lies in 2000::/3 and in none of the special-purpose blocks.
LEMMA PublicIpv6 ==
  ASSUME NEW x \in Int, NEW y \in Int
  PROVE  Broker!IsPublicIpv6(<<x, y>>)
         <=> /\ ~ \E b \in Broker!SpecialIpv6 : Broker!InBlock(<<x, y>>, b, 16)
             /\ Broker!InBlock(<<x, y>>, <<<<8192, 0>>, 3>>, 16)
<1> DEFINE Lies(b) == Broker!InBlock(<<x, y>>, b, 16)
           unicast == Broker!Masked(x, 13, 8192)
           multicast == Lies(Segments(65280, 0, 8))
<1>1. (\E b \in Ipv6Blocks.first : Lies(b))
      <=> \/ Broker!Masked(x, 9, 64512)
          \/ Broker!Masked(x, 6, 65152)
          \/ Broker!Masked(x, 6, 65216)
          \/ multicast
  <2>1. /\ Lies(Segments(64512, 0, 7)) <=> Broker!Masked(x, 9, 64512)
        /\ Lies(Segments(65152, 0, 10)) <=> Broker!Masked(x, 6, 65152)
        /\ Lies(Segments(65216, 0, 10)) <=> Broker!Masked(x, 6, 65216)
    BY FirstSegment, SMTT(10) DEF Segments
  <2> HIDE DEF Lies
  <2> QED
    BY <2>1, SMTT(10) DEF Ipv6Blocks
<1>2. (\E b \in Ipv6Blocks.second : Lies(b))
      <=> \/ x = 8193 /\ Broker!Masked(y, 9, 0)
          \/ x = 8193 /\ y = 3512
          \/ x = 8194
          \/ x = 16383 /\ Broker!Masked(y, 12, 0)
  <2>1. /\ Lies(Segments(8193, 0, 23)) <=> x = 8193 /\ Broker!Masked(y, 9, 0)
        /\ Lies(Segments(8193, 3512, 32)) <=> x = 8193 /\ y = 3512
        /\ Lies(Segments(8194, 0, 16)) <=> x = 8194
        /\ Lies(Segments(16383, 0, 20)) <=> x = 16383 /\ Broker!Masked(y, 12, 0)
    BY SecondSegment, SMTT(10) DEF Segments
  <2> HIDE DEF Lies
  <2> QED
    BY <2>1, SMTT(10) DEF Ipv6Blocks
<1>3. (\E b \in Broker!SpecialIpv6 : Lies(b))
      <=> (\E b \in Ipv6Blocks.first : Lies(b)) \/ (\E b \in Ipv6Blocks.second : Lies(b))
  BY EveryIpv6Block, Zenon
<1>4. Broker!IsPublicIpv6(<<x, y>>)
      <=> /\ ~ \/ Broker!Masked(x, 9, 64512)
               \/ Broker!Masked(x, 6, 65152)
               \/ Broker!Masked(x, 6, 65216)
               \/ x = 8193 /\ Broker!Masked(y, 9, 0)
               \/ x = 8193 /\ y = 3512
               \/ x = 8194
               \/ x = 16383 /\ Broker!Masked(y, 12, 0)
          /\ unicast
  BY SMTT(10) DEF Broker!IsPublicIpv6, Broker!GlobalUnicast
<1>5. multicast => ~unicast
  BY FirstSegment, SMTT(10) DEF Segments
<1>6. Broker!InBlock(<<x, y>>, <<<<8192, 0>>, 3>>, 16) <=> unicast
  BY FirstSegment, SMTT(10)
<1> HIDE DEF unicast, multicast
<1> QED
  BY <1>1, <1>2, <1>3, <1>4, <1>5, <1>6, SMTT(10)

\* Segments are integers.
LEMMA SegmentsAreIntegers == Segment \subseteq Int
<1>1. \A m \in Int : 0 .. m \subseteq Int
  OBVIOUS
<1> QED
  BY <1>1, SMTT(10) DEF Segment

\* The parts of an address.
LEMMA Pair ==
  ASSUME NEW S, NEW a \in S \X S
  PROVE  \E x \in S, y \in S : a = <<x, y>>
<1>1. a[1] \in S /\ a[2] \in S /\ a = <<a[1], a[2]>>
  BY SMTT(10)
<1> QED
  BY <1>1, Zenon

\* The elements of an IPv4 address.
LEMMA Triple ==
  ASSUME NEW S, NEW a \in S \X S \X S
  PROVE  \E x \in S, y \in S, z \in S : a = <<x, y, z>>
<1>1. a[1] \in S /\ a[2] \in S /\ a[3] \in S /\ a = <<a[1], a[2], a[3]>>
  BY SMTT(30)
<1> QED
  BY <1>1, Zenon

\* The addresses of a family that the code refuses are the special ones.
Special(a, family) ==
    IF family = "v4" THEN \E b \in Broker!SpecialIpv4 : Broker!InBlock(a, b, 8)
    ELSE \/ \E b \in Broker!SpecialIpv6 : Broker!InBlock(a, b, 16)
         \/ ~Broker!InBlock(a, <<<<8192, 0>>, 3>>, 16)

\* The IPv4 addresses that are refused are those of the blocks.
LEMMA RefusedIpv4 ==
  ASSUME NEW a \in Ipv4Address
  PROVE  Broker!IsPublicIpv4(a) <=> ~Special(a, "v4")
<1>1. PICK x \in Octet, y \in Octet, z \in Octet : a = <<x, y, z>>
  BY Triple, SMTT(10) DEF Ipv4Address
<1>2. x \in Int /\ y \in Int /\ z \in Int
  BY SMTT(10) DEF Octet
<1>3. Broker!IsPublicIpv4(<<x, y, z>>)
      <=> ~ \E b \in Broker!SpecialIpv4 : Broker!InBlock(<<x, y, z>>, b, 8)
  BY <1>2, PublicIpv4, Zenon
<1> QED
  BY <1>1, <1>3, Zenon DEF Special

\* The IPv6 addresses that are refused are those of the blocks, and all outside 2000::/3.
LEMMA RefusedIpv6 ==
  ASSUME NEW a \in Ipv6Address
  PROVE  Broker!IsPublicIpv6(a) <=> ~Special(a, "v6")
<1>1. PICK x \in Segment, y \in Segment : a = <<x, y>>
  BY Pair, Zenon DEF Ipv6Address
<1>2. x \in Int /\ y \in Int
  BY SegmentsAreIntegers, Zenon
<1>3. Broker!IsPublicIpv6(<<x, y>>)
      <=> /\ ~ \E b \in Broker!SpecialIpv6 : Broker!InBlock(<<x, y>>, b, 16)
          /\ Broker!InBlock(<<x, y>>, <<<<8192, 0>>, 3>>, 16)
  BY <1>2, PublicIpv6, SMTT(10)
<1> QED
  BY <1>1, <1>3, SMTT(10) DEF Special

-----------------------------------------------------------------------------
(* Paths.                                                                  *)

Splitting == INSTANCE FoldFacts WITH Op <- Broker!SplitAt
Walking == INSTANCE FoldFacts WITH Op <- Broker!WalkInto

Splits(path, h) == Splitting!IsRun(<< <<>> >>, path, h)
Walks(segments, w) == Walking!IsRun(<<>>, segments, w)

\* Splitting a path goes through its tokens.
LEMMA SplitRuns ==
  ASSUME NEW T, NEW path \in Seq(T)
  PROVE  \E h : Splits(path, h) /\ h[Len(path)] = Broker!Split(path)
<1>1. Splitting!Fold(<< <<>> >>, path) = Broker!Split(path)
  BY Zenon DEF Splitting!Fold, Splitting!FoldLeft, Splitting!MapThenFoldSet, Splitting!Max,
     Broker!Split, Broker!FoldLeft, Broker!MapThenFoldSet, Broker!Max
<1> QED
  BY <1>1, Splitting!FoldRuns, Zenon DEF Splits

\* Walking a path goes through its segments.
LEMMA WalkRuns ==
  ASSUME NEW T, NEW segments \in Seq(T)
  PROVE  \E w : Walks(segments, w) /\ w[Len(segments)] = Broker!FoldLeft(Broker!WalkInto, <<>>, segments)
<1>1. Walking!Fold(<<>>, segments) = Broker!FoldLeft(Broker!WalkInto, <<>>, segments)
  BY Zenon DEF Walking!Fold, Walking!FoldLeft, Walking!MapThenFoldSet, Walking!Max,
     Broker!FoldLeft, Broker!MapThenFoldSet, Broker!Max
<1> QED
  BY <1>1, Walking!FoldRuns, Zenon DEF Walks

\* The length of a sequence.
LEMMA Length ==
  ASSUME NEW T, NEW s \in Seq(T)
  PROVE  Len(s) \in Nat /\ DOMAIN s = 1 .. Len(s) /\ \A i \in 1 .. Len(s) : s[i] \in T
OBVIOUS

\* A token ends the last segment or is added to it; the segments before stay.
Continues(T, segments, t, r) ==
    /\ r \in Seq(Seq(T)) /\ Len(r) > 0 /\ Len(r) >= Len(segments)
    /\ \A i \in 1 .. Len(segments) - 1 : r[i] = segments[i]
    /\ t = "/" => /\ Len(r) = Len(segments) + 1
                  /\ r[Len(segments)] = segments[Len(segments)]
                  /\ r[Len(r)] = <<>>
    /\ t # "/" => /\ Len(r) = Len(segments)
                  /\ r[Len(r)] = Append(segments[Len(segments)], t)

\* A token continues the last segment, or opens the next one.
LEMMA OneToken ==
  ASSUME NEW T, NEW segments \in Seq(Seq(T)), Len(segments) > 0, NEW t \in T
  PROVE  Continues(T, segments, t, Broker!SplitAt(segments, t))
<1> DEFINE n == Len(segments)
           r == Broker!SplitAt(segments, t)
<1>0. n \in Nat /\ n > 0 /\ n \in 1 .. n /\ segments[n] \in Seq(T) /\ DOMAIN segments = 1 .. n
  OBVIOUS
<1>1. CASE t = "/"
  <2>1. r = Append(segments, <<>>)
    BY <1>1, Zenon DEF Broker!SplitAt
  <2>2. <<>> \in Seq(T)
    OBVIOUS
  <2> HIDE DEF r
  <2>3. /\ r \in Seq(Seq(T)) /\ Len(r) = n + 1 /\ r[n + 1] = <<>>
        /\ \A i \in 1 .. n : r[i] = segments[i]
    BY <2>1, <2>2
  <2> HIDE DEF n
  <2>4. Len(r) >= n /\ Len(r) > 0 /\ r[n] = segments[n] /\ 1 .. n - 1 \subseteq 1 .. n
    BY <1>0, <2>3
  <2>5. r[Len(r)] = <<>>
    BY <2>3, Zenon
  <2>6. \A i \in 1 .. n - 1 : r[i] = segments[i]
    BY <2>3, <2>4, Zenon
  <2> QED
    BY <1>1, <2>3, <2>4, <2>5, <2>6, Zenon DEF n, r, Continues
<1>2. CASE t # "/"
  <2> DEFINE new == Append(segments[n], t)
  <2>1. r = [segments EXCEPT ![n] = new]
    BY <1>2, Zenon DEF Broker!SplitAt
  <2>3. new \in Seq(T)
    BY <1>0
  <2> HIDE DEF new, r
  <2>4. r \in Seq(Seq(T)) /\ Len(r) = n
    BY <1>0, <2>1, <2>3
  <2>5. r[n] = new /\ \A i \in 1 .. n - 1 : r[i] = segments[i]
    <3>1. \A i \in DOMAIN segments : r[i] = IF i = n THEN new ELSE segments[i]
      BY <2>1, Zenon
    <3> HIDE DEF n
    <3>2. n \in DOMAIN segments /\ \A i \in 1 .. n - 1 : i \in DOMAIN segments /\ i # n
      BY <1>0
    <3> QED
      BY <3>1, <3>2, Zenon
  <2>6. r[Len(r)] = new /\ Len(r) >= n /\ Len(r) > 0
    BY <1>0, <2>4, <2>5
  <2> HIDE DEF n
  <2> QED
    BY <1>2, <2>4, <2>5, <2>6, Zenon DEF new, n, r, Continues
<1> QED
  BY <1>1, <1>2, Zenon

\* On the way there is at least one segment, and each token continues them.
LEMMA SplitTyped ==
  ASSUME NEW T, NEW path \in Seq(T), NEW h, Splits(path, h)
  PROVE  /\ \A k \in 0 .. Len(path) : h[k] \in Seq(Seq(T)) /\ Len(h[k]) > 0
         /\ \A k \in 0 .. Len(path) - 1 : Continues(T, h[k], path[k + 1], h[k + 1])
<1> DEFINE fine(k) == h[k] \in Seq(Seq(T)) /\ Len(h[k]) > 0
           good == {k \in 0 .. Len(path) : fine(k)}
<1>0. Len(path) \in Nat /\ 0 \in 0 .. Len(path)
  OBVIOUS
<1>1. 0 \in good
  <2>1. h[0] = << <<>> >>
    BY Zenon DEF Splits, Splitting!IsRun
  <2>2. << <<>> >> \in Seq(Seq(T)) /\ Len(<< <<>> >>) > 0
    OBVIOUS
  <2>3. h[0] \in Seq(Seq(T)) /\ Len(h[0]) > 0
    BY <2>1, <2>2, Zenon
  <2> QED
    BY <1>0, <2>3, Zenon
<1>2. ASSUME NEW k \in 0 .. Len(path) - 1, fine(k)
      PROVE  Continues(T, h[k], path[k + 1], h[k + 1])
  <2>1. path[k + 1] \in T /\ k + 1 \in 0 .. Len(path)
    OBVIOUS
  <2>2. h[k + 1] = Broker!SplitAt(h[k], path[k + 1])
    BY Zenon DEF Splits, Splitting!IsRun
  <2>3. Continues(T, h[k], path[k + 1], Broker!SplitAt(h[k], path[k + 1]))
    BY <1>2, <2>1, OneToken, Zenon
  <2> QED
    BY <2>2, <2>3, Zenon
<1>3. ASSUME NEW k \in 0 .. Len(path) - 1, k \in good
      PROVE  k + 1 \in good
  <2>1. k + 1 \in 0 .. Len(path)
    OBVIOUS
  <2>2. fine(k + 1)
    BY <1>2, <1>3, Zenon DEF Continues
  <2> QED
    BY <2>1, <2>2, Zenon
<1> HIDE DEF good
<1>4. \A k \in 0 .. Len(path) : k \in good
  BY <1>0, <1>1, <1>3, Splitting!Induction, Zenon
<1>5. \A k \in 0 .. Len(path) : fine(k)
  BY <1>4, Zenon DEF good
<1> HIDE DEF fine
<1>6. ASSUME NEW k \in 0 .. Len(path) - 1
      PROVE  Continues(T, h[k], path[k + 1], h[k + 1])
  <2>1. k \in 0 .. Len(path)
    OBVIOUS
  <2> QED
    BY <1>2, <1>5, <2>1, Zenon
<1> QED
  BY <1>5, <1>6, Zenon DEF fine

\* What is split off before some point stays; a segment that ends there is complete.
Stays(path, h, m, k) ==
    /\ Len(h[k]) >= Len(h[m])
    /\ \A i \in 1 .. Len(h[m]) - 1 : h[k][i] = h[m][i]
    /\ k > m /\ path[m + 1] = "/" => /\ Len(h[k]) > Len(h[m])
                                     /\ h[k][Len(h[m])] = h[m][Len(h[m])]

\* Segments that are closed stay as they are.
LEMMA SegmentsStay ==
  ASSUME NEW T, NEW path \in Seq(T), NEW h, Splits(path, h), NEW m \in 0 .. Len(path)
  PROVE  \A k \in m .. Len(path) : Stays(path, h, m, k)
<1> DEFINE good == {d \in 0 .. Len(path) - m : Stays(path, h, m, m + d)}
<1>1. \A k \in 0 .. Len(path) : h[k] \in Seq(Seq(T)) /\ Len(h[k]) > 0
  BY SplitTyped, Zenon
<1>2. 0 \in good
  <2>1. h[m] \in Seq(Seq(T))
    BY <1>1, Zenon
  <2>2. Len(h[m]) \in Nat /\ m + 0 = m /\ 0 \in 0 .. Len(path) - m
    BY <2>1
  <2>3. Stays(path, h, m, m)
    BY <2>2 DEF Stays
  <2> QED
    BY <2>2, <2>3
<1>3. ASSUME NEW d \in 0 .. (Len(path) - m) - 1, d \in good
      PROVE  d + 1 \in good
  <2> DEFINE k == m + d
  <2>1. /\ k \in 0 .. Len(path) - 1 /\ k + 1 \in 0 .. Len(path) /\ k \in 0 .. Len(path)
        /\ m + (d + 1) = k + 1 /\ d + 1 \in 0 .. Len(path) - m /\ k >= m /\ k \in Int
    OBVIOUS
  <2>2. Stays(path, h, m, k)
    BY <1>3
  <2> HIDE DEF k
  <2>3. h[k] \in Seq(Seq(T)) /\ h[m] \in Seq(Seq(T)) /\ Len(h[m]) > 0
    BY <1>1, <2>1, Zenon
  <2>4. Continues(T, h[k], path[k + 1], h[k + 1])
    BY <2>1, SplitTyped, Zenon
  <2>5. h[k + 1] \in Seq(Seq(T))
    BY <2>4, Zenon DEF Continues
  <2> DEFINE a == Len(h[m])
             b == Len(h[k])
             c == Len(h[k + 1])
  <2>6. a \in Nat /\ b \in Nat /\ c \in Nat /\ a > 0
    BY <2>3, <2>5, Length, Zenon
  <2>7. b >= a /\ c >= b
    BY <2>2, <2>4, Zenon DEF Stays, Continues
  <2>8. \A i \in 1 .. a - 1 : h[k + 1][i] = h[m][i]
    <3>1. 1 .. a - 1 \subseteq 1 .. b - 1
      <4> HIDE DEF a, b, c
      <4> QED
        BY <2>6, <2>7
    <3>2. \A i \in 1 .. b - 1 : h[k + 1][i] = h[k][i]
      BY <2>4, Zenon DEF Continues
    <3>3. \A i \in 1 .. a - 1 : h[k][i] = h[m][i]
      BY <2>2, Zenon DEF Stays
    <3> HIDE DEF a, b, c
    <3> QED
      BY <3>1, <3>2, <3>3, Zenon
  <2>9. ASSUME path[m + 1] = "/" PROVE c > a /\ h[k + 1][a] = h[m][a]
    <3>1. CASE k = m
      <4>1. c = a + 1 /\ h[k + 1][a] = h[m][a]
        BY <2>4, <2>9, <3>1, Zenon DEF Continues
      <4> HIDE DEF a, b, c
      <4> QED
        BY <4>1, <2>6
    <3>2. CASE k > m
      <4>1. b > a /\ h[k][a] = h[m][a]
        BY <2>2, <2>9, <3>2, Zenon DEF Stays
      <4>2. \A i \in 1 .. b - 1 : h[k + 1][i] = h[k][i]
        BY <2>4, Zenon DEF Continues
      <4> HIDE DEF a, b, c
      <4>3. a \in 1 .. b - 1 /\ c > a
        BY <2>6, <2>7, <4>1
      <4> QED
        BY <4>1, <4>2, <4>3, Zenon
    <3> QED
      BY <3>1, <3>2, <2>1
  <2>10. Stays(path, h, m, k + 1)
    <3>1. c >= a
      <4> HIDE DEF a, b, c
      <4> QED
        BY <2>6, <2>7
    <3> QED
      BY <2>8, <2>9, <3>1, Zenon DEF Stays
  <2> QED
    BY <2>1, <2>10
<1>4. Len(path) - m \in Nat
  OBVIOUS
<1> HIDE DEF good
<1>5. \A d \in 0 .. Len(path) - m : d \in good
  BY <1>2, <1>3, <1>4, Splitting!Induction, Zenon
<1>6. \A d \in 0 .. Len(path) - m : Stays(path, h, m, m + d)
  BY <1>5, Zenon DEF good
<1>7. ASSUME NEW k \in m .. Len(path) PROVE Stays(path, h, m, k)
  <2>1. k - m \in 0 .. Len(path) - m /\ m + (k - m) = k
    OBVIOUS
  <2> QED
    BY <1>6, <2>1, Zenon
<1> QED
  BY <1>7, Zenon

\* A slash leaves an empty segment behind it.
LEMMA SlashOpens ==
  ASSUME NEW T, NEW path \in Seq(T), NEW h, Splits(path, h), NEW k \in 1 .. Len(path), path[k] = "/"
  PROVE  h[k][Len(h[k])] = <<>>
<1>1. k - 1 \in 0 .. Len(path) - 1 /\ (k - 1) + 1 = k
  OBVIOUS
<1>2. Continues(T, h[k - 1], path[(k - 1) + 1], h[(k - 1) + 1])
  BY <1>1, SplitTyped, Zenon
<1>3. Continues(T, h[k - 1], path[k], h[k])
  BY <1>1, <1>2, Zenon
<1> QED
  BY <1>3, Zenon DEF Continues

\* No token but the slash is lost.
Holds(segments, c) == \E i \in 1 .. Len(segments) : c \in {segments[i][x] : x \in DOMAIN segments[i]}

\* A token that is no separator ends up in a segment.
LEMMA TokensKept ==
  ASSUME NEW T, NEW path \in Seq(T), NEW h, Splits(path, h), NEW c, c # "/",
         NEW j \in 1 .. Len(path), path[j] = c
  PROVE  Holds(h[Len(path)], c)
<1> DEFINE holds(k) == Holds(h[k], c)
           good == {d \in 0 .. Len(path) - j : holds(j + d)}
<1>1. \A k \in 0 .. Len(path) : h[k] \in Seq(Seq(T)) /\ Len(h[k]) > 0
  BY SplitTyped, Zenon
<1>2. ASSUME NEW k \in 0 .. Len(path) - 1
      PROVE  /\ path[k + 1] = c => holds(k + 1)
             /\ holds(k) => holds(k + 1)
  <2>0. k \in 0 .. Len(path) /\ path[k + 1] \in T
    OBVIOUS
  <2>1. Continues(T, h[k], path[k + 1], h[k + 1]) /\ h[k] \in Seq(Seq(T)) /\ Len(h[k]) > 0
    BY <2>0, <1>1, SplitTyped, Zenon
  <2> DEFINE n == Len(h[k])
             old == h[k][n]
  <2>2. h[k + 1] \in Seq(Seq(T))
    BY <2>1, Zenon DEF Continues
  <2>3. /\ Len(h[k + 1]) >= n
        /\ \A i \in 1 .. n - 1 : h[k + 1][i] = h[k][i]
        /\ path[k + 1] = "/" => h[k + 1][n] = h[k][n]
        /\ path[k + 1] # "/" => h[k + 1][n] = Append(old, path[k + 1])
    BY <2>1, Zenon DEF Continues
  <2>4. n \in Nat /\ n > 0 /\ Len(h[k + 1]) \in Nat /\ \A i \in 1 .. n : h[k][i] \in Seq(T)
    BY <2>1, <2>2, Length, Zenon
  <2> DEFINE longer == Append(old, path[k + 1])
  <2> HIDE DEF n, holds
  <2>8. n \in 1 .. n /\ n \in 1 .. Len(h[k + 1]) /\ 1 .. n \subseteq 1 .. Len(h[k + 1])
        /\ \A i \in 1 .. n : i # n => i \in 1 .. n - 1
    BY <2>3, <2>4
  <2>9. old \in Seq(T)
    BY <2>4, <2>8, Zenon
  <2> HIDE DEF old
  <2>5. /\ DOMAIN longer = 1 .. Len(old) + 1 /\ DOMAIN old = 1 .. Len(old)
        /\ longer[Len(old) + 1] = path[k + 1] /\ Len(old) \in Nat
        /\ \A x \in 1 .. Len(old) : longer[x] = old[x]
    BY <2>0, <2>9
  <2> HIDE DEF longer
  <2>6. ASSUME path[k + 1] = c PROVE holds(k + 1)
    <3>1. h[k + 1][n] = longer
      BY <2>3, <2>6, Zenon DEF longer
    <3>2. Len(old) + 1 \in DOMAIN longer /\ longer[Len(old) + 1] = c
      BY <2>5, <2>6
    <3> QED
      BY <3>1, <3>2, <2>8, Zenon DEF holds, Holds
  <2>7. ASSUME holds(k) PROVE holds(k + 1)
    <3>1. PICK i \in 1 .. n : c \in {h[k][i][x] : x \in DOMAIN h[k][i]}
      BY <2>7, Zenon DEF holds, Holds, n
    <3>2. PICK x \in DOMAIN h[k][i] : h[k][i][x] = c
      BY <3>1, Zenon
    <3>3. i \in 1 .. Len(h[k + 1])
      BY <2>8, Zenon
    <3>4. x \in DOMAIN h[k + 1][i] /\ h[k + 1][i][x] = c
      <4>1. CASE i # n
        BY <4>1, <2>8, <2>3, <3>2, Zenon
      <4>2. CASE i = n /\ path[k + 1] = "/"
        BY <4>2, <3>2, <2>3, Zenon
      <4>3. CASE i = n /\ path[k + 1] # "/"
        <5>1. h[k + 1][i] = longer /\ h[k][i] = old
          BY <4>3, <2>3, Zenon DEF longer, old
        <5>2. x \in 1 .. Len(old) /\ old[x] = c
          BY <5>1, <2>5, <3>2, Zenon
        <5>3. x \in DOMAIN longer
          BY <5>2, <2>5
        <5> QED
          BY <5>1, <5>2, <5>3, <2>5, Zenon
      <4> QED
        BY <4>1, <4>2, <4>3, Zenon
    <3> QED
      BY <3>3, <3>4, Zenon DEF holds, Holds
  <2> QED
    BY <2>6, <2>7
<1> HIDE DEF holds
<1>3. 0 \in good
  <2>1. j - 1 \in 0 .. Len(path) - 1 /\ (j - 1) + 1 = j /\ j + 0 = j /\ 0 \in 0 .. Len(path) - j
    OBVIOUS
  <2>2. path[(j - 1) + 1] = c
    BY <2>1
  <2>3. holds((j - 1) + 1)
    BY <1>2, <2>1, <2>2, Zenon
  <2> QED
    BY <2>1, <2>3
<1>4. ASSUME NEW d \in 0 .. (Len(path) - j) - 1, d \in good
      PROVE  d + 1 \in good
  <2>1. j + d \in 0 .. Len(path) - 1 /\ (j + d) + 1 = j + (d + 1) /\ d + 1 \in 0 .. Len(path) - j
    OBVIOUS
  <2>2. holds(j + d)
    BY <1>4
  <2>3. holds((j + d) + 1)
    BY <1>2, <2>1, <2>2, Zenon
  <2> QED
    BY <2>1, <2>3
<1>5. Len(path) - j \in Nat /\ Len(path) - j \in 0 .. Len(path) - j /\ j + (Len(path) - j) = Len(path)
  OBVIOUS
<1> HIDE DEF good
<1>6. \A d \in 0 .. Len(path) - j : d \in good
  BY <1>3, <1>4, <1>5, Splitting!Induction, Zenon
<1>7. holds(j + (Len(path) - j))
  BY <1>5, <1>6, Zenon DEF good
<1> QED
  BY <1>5, <1>7, Zenon DEF holds

\* The characters of a path; those that decoding yields are named.
Char == STRING \cup {"/", "."}

\* Decoding does not tell where a path is split, unless a slash is encoded.
LEMMA DecodedToken ==
  ASSUME NEW t \in Char
  PROVE  /\ Broker!Decoded(t) \in Char
         /\ t # "%2f" => (Broker!Decoded(t) = "/" <=> t = "/")
         /\ t = "%2f" => Broker!Decoded(t) = "/"
         /\ t \notin {"%2f", "%2e"} => Broker!Decoded(t) = t
<1>1. CASE t = "%2f"
  <2>1. Broker!Decoded(t) = "/"
    BY <1>1, Zenon DEF Broker!Decoded
  <2> QED
    BY <1>1, <2>1, Zenon DEF Char
<1>2. CASE t = "%2e"
  <2>1. t # "%2f"
    BY <1>2
  <2>2. Broker!Decoded(t) = "."
    BY <1>2, <2>1, Zenon DEF Broker!Decoded
  <2> QED
    BY <1>2, <2>2, Zenon DEF Char
<1>3. CASE t \notin {"%2f", "%2e"}
  <2>1. Broker!Decoded(t) = t
    BY <1>3, Zenon DEF Broker!Decoded
  <2> QED
    BY <1>3, <2>1
<1> QED
  BY <1>1, <1>2, <1>3, Zenon

\* A sequence with one more element.
Extends(T, s, t, r) ==
    /\ r \in Seq(T) /\ Len(r) = Len(s) + 1
    /\ r[Len(s) + 1] = t
    /\ \A i \in 1 .. Len(s) : r[i] = s[i]

\* An appended sequence extends it by its last element.
LEMMA Appended ==
  ASSUME NEW T, NEW s \in Seq(T), NEW t \in T
  PROVE  Extends(T, s, t, Append(s, t))
<1>1. Append(s, t) \in Seq(T) /\ Len(Append(s, t)) = Len(s) + 1
  OBVIOUS
<1>2. Append(s, t)[Len(s) + 1] = t
  OBVIOUS
<1>3. \A i \in 1 .. Len(s) : Append(s, t)[i] = s[i]
  OBVIOUS
<1> QED
  BY <1>1, <1>2, <1>3, Zenon DEF Extends

\* Decoding keeps the length and goes token by token.
LEMMA DecodeTyped ==
  ASSUME NEW s \in Seq(Char)
  PROVE  /\ Broker!Decode(s) \in Seq(Char) /\ Len(Broker!Decode(s)) = Len(s)
         /\ \A i \in 1 .. Len(s) : Broker!Decode(s)[i] = Broker!Decoded(s[i])
<1>0. \A i \in DOMAIN s : s[i] \in Char
  OBVIOUS
<1>1. \A i \in DOMAIN s : Broker!Decoded(s[i]) \in Char
  BY <1>0, DecodedToken, Zenon
<1>2. Len(s) \in Nat /\ DOMAIN s = 1 .. Len(s)
  OBVIOUS
<1> DEFINE D(t) == Broker!Decoded(t)
           d == [i \in 1 .. Len(s) |-> D(s[i])]
<1>3. Broker!Decode(s) = d
  BY <1>2, Zenon DEF Broker!Decode
<1> HIDE DEF D
<1>4. \A i \in 1 .. Len(s) : D(s[i]) \in Char
  BY <1>1, <1>2, Zenon DEF D
<1>5. d \in Seq(Char) /\ Len(d) = Len(s)
  BY <1>2, <1>4
<1>6. \A i \in 1 .. Len(s) : d[i] = D(s[i])
  OBVIOUS
<1> HIDE DEF d
<1> QED
  BY <1>3, <1>5, <1>6, Zenon DEF D

\* Decoding of an appended sequence.
LEMMA DecodeAppend ==
  ASSUME NEW s \in Seq(Char), NEW t \in Char
  PROVE  Broker!Decode(Append(s, t)) = Append(Broker!Decode(s), Broker!Decoded(t))
<1> DEFINE a == Broker!Decode(Append(s, t))
           b == Append(Broker!Decode(s), Broker!Decoded(t))
           n == Len(s)
<1>1. Append(s, t) \in Seq(Char) /\ Len(Append(s, t)) = n + 1 /\ n \in Nat
      /\ Append(s, t)[n + 1] = t /\ \A i \in 1 .. n : Append(s, t)[i] = s[i]
  <2>1. Extends(Char, s, t, Append(s, t))
    BY Appended
  <2>2. n \in Nat
    OBVIOUS
  <2> QED
    BY <2>1, <2>2, Zenon DEF Extends
<1>2. /\ a \in Seq(Char) /\ Len(a) = n + 1
      /\ \A i \in 1 .. n + 1 : a[i] = Broker!Decoded(Append(s, t)[i])
  BY <1>1, DecodeTyped, Zenon
<1>3. /\ Broker!Decode(s) \in Seq(Char) /\ Len(Broker!Decode(s)) = n
      /\ \A i \in 1 .. n : Broker!Decode(s)[i] = Broker!Decoded(s[i])
  BY DecodeTyped, Zenon
<1>4. Broker!Decoded(t) \in Char
  BY DecodedToken
<1>5. /\ b \in Seq(Char) /\ Len(b) = n + 1 /\ b[n + 1] = Broker!Decoded(t)
      /\ \A i \in 1 .. n : b[i] = Broker!Decode(s)[i]
  <2>1. Extends(Char, Broker!Decode(s), Broker!Decoded(t), b)
    BY <1>3, <1>4, Appended
  <2> QED
    BY <1>3, <2>1, Zenon DEF Extends
<1> HIDE DEF a, b, n
<1>6. \A i \in 1 .. n + 1 : a[i] = b[i]
  <2> TAKE i \in 1 .. n + 1
  <2>1. CASE i = n + 1
    BY <2>1, <1>1, <1>2, <1>5, Zenon
  <2>2. CASE i # n + 1
    <3>1. i \in 1 .. n
      BY <2>2, <1>1
    <3> QED
      BY <3>1, <1>1, <1>2, <1>3, <1>5, Zenon
  <2> QED
    BY <2>1, <2>2
<1> QED
  BY <1>2, <1>5, <1>6, Splitting!SameSequence, Zenon DEF a, b

\* The decoded segments are those of the decoded path.
Decodes(s, d) == Len(d) = Len(s) /\ \A i \in 1 .. Len(s) : d[i] = Broker!Decode(s[i])

\* Splitting and decoding commute for one token, if no separator is hidden.
LEMMA OneTokenDecoded ==
  ASSUME NEW s \in Seq(Seq(Char)), NEW d \in Seq(Seq(Char)), Len(s) > 0, Decodes(s, d),
         NEW t \in Char, t # "%2f"
  PROVE  Decodes(Broker!SplitAt(s, t), Broker!SplitAt(d, Broker!Decoded(t)))
<1> DEFINE r == Broker!SplitAt(s, t)
           e == Broker!SplitAt(d, Broker!Decoded(t))
           n == Len(s)
<1>1. Broker!Decoded(t) \in Char /\ (Broker!Decoded(t) = "/" <=> t = "/")
  BY DecodedToken
<1>2. Continues(Char, s, t, r)
  BY OneToken, Zenon
<1>3. Continues(Char, d, Broker!Decoded(t), e)
  <2>1. Len(d) > 0
    BY DEF Decodes
  <2> QED
    BY <1>1, <2>1, OneToken, Zenon
<1> HIDE DEF r, e
<1>4. n \in Nat /\ n > 0 /\ Len(d) = n /\ \A i \in 1 .. n : s[i] \in Seq(Char) /\ d[i] = Broker!Decode(s[i])
  BY DEF Decodes
<1> HIDE DEF n
<1>5. CASE t = "/"
  <2>1. Len(r) = n + 1 /\ r[n] = s[n] /\ r[n + 1] = <<>> /\ \A i \in 1 .. n - 1 : r[i] = s[i]
    BY <1>2, <1>5, Zenon DEF Continues, n
  <2>2. Len(e) = n + 1 /\ e[n] = d[n] /\ e[n + 1] = <<>> /\ \A i \in 1 .. n - 1 : e[i] = d[i]
    BY <1>1, <1>3, <1>4, <1>5, Zenon DEF Continues, n
  <2>3. Broker!Decode(<<>>) = <<>>
    BY DEF Broker!Decode
  <2>4. ASSUME NEW i \in 1 .. n + 1 PROVE e[i] = Broker!Decode(r[i])
    <3>1. n \in 1 .. n /\ (i = n + 1 \/ i = n \/ (i \in 1 .. n - 1 /\ i \in 1 .. n))
      BY <1>4
    <3> QED
      BY <1>4, <2>1, <2>2, <2>3, <3>1, Zenon
  <2> QED
    BY <2>1, <2>2, <2>4, Zenon DEF Decodes, r, e
<1>6. CASE t # "/"
  <2>1. Len(r) = n /\ r[n] = Append(s[n], t) /\ \A i \in 1 .. n - 1 : r[i] = s[i]
    BY <1>2, <1>6, Zenon DEF Continues, n
  <2>2. Len(e) = n /\ e[n] = Append(d[n], Broker!Decoded(t)) /\ \A i \in 1 .. n - 1 : e[i] = d[i]
    BY <1>1, <1>3, <1>4, <1>6, Zenon DEF Continues, n
  <2>3. n \in 1 .. n
    BY <1>4
  <2>4. Broker!Decode(Append(s[n], t)) = Append(d[n], Broker!Decoded(t))
    BY <1>4, <2>3, DecodeAppend, Zenon
  <2>5. ASSUME NEW i \in 1 .. n PROVE e[i] = Broker!Decode(r[i])
    <3>1. i = n \/ i \in 1 .. n - 1
      BY <1>4
    <3> QED
      BY <1>4, <2>1, <2>2, <2>4, <3>1, Zenon
  <2> QED
    BY <2>1, <2>2, <2>5, Zenon DEF Decodes, r, e
<1> QED
  BY <1>5, <1>6

\* Without a hidden separator, the segments of the decoded path are the decoded segments.
LEMMA SplitDecoded ==
  ASSUME NEW path \in Seq(Char), \A i \in 1 .. Len(path) : path[i] # "%2f"
  PROVE  Decodes(Broker!Split(path), Broker!Split(Broker!Decode(path)))
<1> DEFINE n == Len(path)
           d == Broker!Decode(path)
<1>1. n \in Nat /\ d \in Seq(Char) /\ Len(d) = n /\ \A i \in 1 .. n : path[i] \in Char /\ d[i] = Broker!Decoded(path[i])
  BY DecodeTyped
<1>2. PICK h : Splits(path, h) /\ h[n] = Broker!Split(path)
  BY SplitRuns, Zenon
<1>3. PICK g : Splits(d, g) /\ g[n] = Broker!Split(d)
  <2>1. \E g : Splits(d, g) /\ g[Len(d)] = Broker!Split(d)
    <3> HIDE DEF d
    <3> QED
      BY <1>1, SplitRuns, Zenon
  <2> QED
    BY <1>1, <2>1, Zenon
<1> HIDE DEF d
<1>4. \A k \in 0 .. n : h[k] \in Seq(Seq(Char)) /\ Len(h[k]) > 0
  BY <1>2, SplitTyped, Zenon
<1>5. \A k \in 0 .. n : g[k] \in Seq(Seq(Char))
  BY <1>1, <1>3, SplitTyped, Zenon
<1> DEFINE good == {k \in 0 .. n : Decodes(h[k], g[k])}
<1>6. 0 \in good
  <2>1. h[0] = << <<>> >> /\ g[0] = << <<>> >>
    BY <1>2, <1>3, Zenon DEF Splits, Splitting!IsRun
  <2>2. Decodes(<< <<>> >>, << <<>> >>)
    BY DEF Decodes, Broker!Decode
  <2>3. 0 \in 0 .. n
    BY <1>1
  <2> QED
    BY <2>1, <2>2, <2>3, Zenon
<1>7. ASSUME NEW k \in 0 .. n - 1, k \in good
      PROVE  k + 1 \in good
  <2>1. k \in 0 .. n /\ k + 1 \in 0 .. n /\ k + 1 \in 1 .. n
    BY <1>1
  <2>2. Decodes(h[k], g[k])
    BY <1>7, Zenon
  <2>3. Decodes(Broker!SplitAt(h[k], path[k + 1]), Broker!SplitAt(g[k], Broker!Decoded(path[k + 1])))
    BY <1>1, <1>4, <1>5, <2>1, <2>2, OneTokenDecoded, Zenon
  <2>4. h[k + 1] = Broker!SplitAt(h[k], path[k + 1])
    BY <1>2, <2>1, Zenon DEF Splits, Splitting!IsRun
  <2>5. g[k + 1] = Broker!SplitAt(g[k], d[k + 1])
    BY <1>1, <1>3, <2>1, Zenon DEF Splits, Splitting!IsRun
  <2>6. Decodes(h[k + 1], g[k + 1])
    BY <1>1, <2>1, <2>3, <2>4, <2>5, Zenon
  <2> QED
    BY <2>1, <2>6, Zenon
<1> HIDE DEF good
<1>8. \A k \in 0 .. n : k \in good
  BY <1>1, <1>6, <1>7, Splitting!Induction, Zenon
<1>9. n \in 0 .. n
  BY <1>1
<1>10. Decodes(h[n], g[n])
  BY <1>8, <1>9, Zenon DEF good
<1> QED
  BY <1>2, <1>3, <1>10, Zenon DEF d

\* A path that has no encoded characters is not changed by decoding.
LEMMA DecodeSame ==
  ASSUME NEW path \in Seq(Char), Broker!Range(path) \cap {"%2f", "%2e"} = {}
  PROVE  Broker!Decode(path) = path
<1>1. \A i \in DOMAIN path : path[i] \in Char /\ path[i] \notin {"%2f", "%2e"}
  BY DEF Broker!Range
<1>2. \A i \in DOMAIN path : Broker!Decoded(path[i]) = path[i]
  BY <1>1, DecodedToken, Zenon
<1>3. path = [i \in DOMAIN path |-> path[i]]
  OBVIOUS
<1> QED
  BY <1>2, <1>3, Zenon DEF Broker!Decode

\* IsPrefix, element by element.
LEMMA PrefixElements ==
  ASSUME NEW T, NEW s \in Seq(T), NEW t \in Seq(T)
  PROVE  Broker!IsPrefix(s, t) <=> Len(s) <= Len(t) /\ \A i \in 1 .. Len(s) : s[i] = t[i]
<1> DEFINE n == Len(s)
<1>1. n \in Nat /\ Len(t) \in Nat
  BY Length
<1>2. Broker!IsPrefix(s, t) <=> n <= Len(t) /\ SubSeq(s, 1, n) = SubSeq(t, 1, n)
  BY Zenon DEF Broker!IsPrefix
<1>3. ASSUME n <= Len(t)
      PROVE  SubSeq(s, 1, n) = SubSeq(t, 1, n) <=> \A i \in 1 .. n : s[i] = t[i]
  <2> DEFINE a == SubSeq(s, 1, n)
             b == SubSeq(t, 1, n)
  <2>1. a \in Seq(T) /\ Len(a) = n /\ \A i \in 1 .. n : a[i] = s[i]
    BY <1>1
  <2>2. b \in Seq(T) /\ Len(b) = n /\ \A i \in 1 .. n : b[i] = t[i]
    BY <1>1, <1>3
  <2>3. ASSUME \A i \in 1 .. n : s[i] = t[i]
        PROVE  a = b
    <3> HIDE DEF a, b, n
    <3>1. \A i \in 1 .. n : a[i] = b[i]
      BY <2>1, <2>2, <2>3, Zenon
    <3> QED
      BY <2>1, <2>2, <3>1, Splitting!SameSequence, Zenon
  <2>4. ASSUME a = b, NEW i \in 1 .. n
        PROVE  s[i] = t[i]
    <3> HIDE DEF a, b, n
    <3> QED
      BY <2>1, <2>2, <2>4, Zenon
  <2> QED
    BY <2>3, <2>4, Zenon
<1> QED
  BY <1>2, <1>3, Zenon

\* A walk that meets no dot segments never steps back.
Plain(segments) == \A i \in 1 .. Len(segments) : segments[i] \notin Broker!DotSegments

\* A segment that is no dot segment leads to where one is or below.
LEMMA OneStep ==
  ASSUME NEW T, NEW at \in Seq(T), NEW s \in T, s \notin Broker!DotSegments
  PROVE  /\ Broker!WalkInto(at, s) \in Seq(T)
         /\ Broker!IsPrefix(at, Broker!WalkInto(at, s))
<1> DEFINE r == Broker!WalkInto(at, s)
<1>1. s # <<".">> /\ s # <<".", ".">>
  BY Zenon DEF Broker!DotSegments
<1>2. CASE s = <<>>
  <2>1. r = at
    BY <1>2, Zenon DEF Broker!WalkInto
  <2>2. Broker!IsPrefix(at, at)
    <3>1. Len(at) <= Len(at)
      OBVIOUS
    <3> QED
      BY <3>1, Zenon DEF Broker!IsPrefix
  <2> QED
    BY <2>1, <2>2, Zenon
<1>3. CASE s # <<>>
  <2>1. r = Append(at, s)
    BY <1>1, <1>3, Zenon DEF Broker!WalkInto
  <2> HIDE DEF r
  <2>2. Extends(T, at, s, Append(at, s))
    BY Appended
  <2>3. r \in Seq(T) /\ Len(r) = Len(at) + 1 /\ \A i \in 1 .. Len(at) : at[i] = r[i]
    BY <2>1, <2>2, Zenon DEF Extends
  <2>4. Len(at) <= Len(r)
    BY <2>3
  <2>5. Broker!IsPrefix(at, r)
    BY <2>3, <2>4, PrefixElements, Zenon
  <2> QED
    BY <2>3, <2>5, Zenon DEF r
<1> QED
  BY <1>2, <1>3

\* A walk without dot segments stays a sequence of segments.
LEMMA WalkTyped ==
  ASSUME NEW T, NEW segments \in Seq(T), Plain(segments), NEW w, Walks(segments, w)
  PROVE  \A k \in 0 .. Len(segments) : w[k] \in Seq(T)
<1> DEFINE good == {k \in 0 .. Len(segments) : w[k] \in Seq(T)}
<1>0. Len(segments) \in Nat /\ 0 \in 0 .. Len(segments) /\ <<>> \in Seq(T)
  OBVIOUS
<1>1. 0 \in good
  <2>1. w[0] = <<>>
    BY Zenon DEF Walks, Walking!IsRun
  <2> QED
    BY <1>0, <2>1, Zenon
<1>2. ASSUME NEW k \in 0 .. Len(segments) - 1, k \in good
      PROVE  k + 1 \in good
  <2>1. segments[k + 1] \in T /\ k + 1 \in 0 .. Len(segments) /\ k + 1 \in 1 .. Len(segments)
    OBVIOUS
  <2>2. w[k + 1] = Broker!WalkInto(w[k], segments[k + 1])
    BY Zenon DEF Walks, Walking!IsRun
  <2>3. segments[k + 1] \notin Broker!DotSegments
    BY <2>1, Zenon DEF Plain
  <2>4. w[k] \in Seq(T)
    BY <1>2, Zenon
  <2>5. Broker!WalkInto(w[k], segments[k + 1]) \in Seq(T)
    BY <2>1, <2>3, <2>4, OneStep, Zenon
  <2> QED
    BY <2>1, <2>2, <2>5, Zenon
<1> HIDE DEF good
<1>3. \A k \in 0 .. Len(segments) : k \in good
  BY <1>0, <1>1, <1>2, Splitting!Induction, Zenon
<1> QED
  BY <1>3, Zenon DEF good

\* Prefixes are transitive.
LEMMA PrefixGrows ==
  ASSUME NEW T, NEW a \in Seq(T), NEW b \in Seq(T), NEW c \in Seq(T),
         Broker!IsPrefix(a, b), Broker!IsPrefix(b, c)
  PROVE  Broker!IsPrefix(a, c)
<1>1. Len(a) <= Len(b) /\ \A i \in 1 .. Len(a) : a[i] = b[i]
  BY PrefixElements
<1>2. Len(b) <= Len(c) /\ \A i \in 1 .. Len(b) : b[i] = c[i]
  BY PrefixElements
<1>3. Len(a) \in Nat /\ Len(b) \in Nat /\ Len(c) \in Nat
  BY Length, Zenon
<1>4. Len(a) <= Len(c) /\ \A i \in 1 .. Len(a) : i \in 1 .. Len(b)
  BY <1>1, <1>2, <1>3
<1>5. \A i \in 1 .. Len(a) : a[i] = c[i]
  BY <1>1, <1>2, <1>4, Zenon
<1> QED
  BY <1>4, <1>5, PrefixElements, Zenon

\* A walk without dot segments never leaves where it has been.
LEMMA WalkGrows ==
  ASSUME NEW T, NEW segments \in Seq(T), Plain(segments), NEW w, Walks(segments, w),
         NEW m \in 0 .. Len(segments)
  PROVE  Broker!IsPrefix(w[m], w[Len(segments)])
<1> DEFINE n == Len(segments)
           good == {d \in 0 .. n - m : Broker!IsPrefix(w[m], w[m + d])}
<1>0. n \in Nat /\ n - m \in Nat /\ m + 0 = m /\ m + (n - m) = n /\ 0 \in 0 .. n - m /\ n - m \in 0 .. n - m
  OBVIOUS
<1>1. \A k \in 0 .. n : w[k] \in Seq(T)
  BY WalkTyped, Zenon
<1>2. 0 \in good
  <2>1. w[m] \in Seq(T)
    BY <1>1, Zenon
  <2>2. Len(w[m]) <= Len(w[m])
    BY <2>1
  <2>3. Broker!IsPrefix(w[m], w[m])
    BY <2>2, Zenon DEF Broker!IsPrefix
  <2> QED
    BY <1>0, <2>3, Zenon
<1>3. ASSUME NEW d \in 0 .. (n - m) - 1, d \in good
      PROVE  d + 1 \in good
  <2>1. /\ m + d \in 0 .. n - 1 /\ m + d \in 0 .. n /\ m + (d + 1) = (m + d) + 1
        /\ d + 1 \in 0 .. n - m /\ (m + d) + 1 \in 1 .. n /\ (m + d) + 1 \in 0 .. n
    BY <1>0
  <2>2. w[(m + d) + 1] = Broker!WalkInto(w[m + d], segments[(m + d) + 1])
    BY <2>1, Zenon DEF Walks, Walking!IsRun
  <2>3. segments[(m + d) + 1] \in T /\ segments[(m + d) + 1] \notin Broker!DotSegments
    BY <2>1, Length, Zenon DEF Plain
  <2>4. w[m + d] \in Seq(T) /\ w[m] \in Seq(T) /\ w[(m + d) + 1] \in Seq(T)
    BY <1>1, <2>1, Zenon
  <2>5. Broker!IsPrefix(w[m + d], w[(m + d) + 1])
    BY <2>2, <2>3, <2>4, OneStep, Zenon
  <2>6. Broker!IsPrefix(w[m], w[m + d])
    BY <1>3, Zenon
  <2>7. Broker!IsPrefix(w[m], w[(m + d) + 1])
    BY <2>4, <2>5, <2>6, PrefixGrows, Zenon
  <2> QED
    BY <2>1, <2>7, Zenon
<1> HIDE DEF good
<1>4. \A d \in 0 .. n - m : d \in good
  <2> HIDE DEF n
  <2> QED
    BY <1>0, <1>2, <1>3, Splitting!Induction, Zenon
<1>5. Broker!IsPrefix(w[m], w[m + (n - m)])
  BY <1>0, <1>4, Zenon DEF good
<1> QED
  BY <1>0, <1>5, Zenon

\* x has the segments of q, up to an empty last one.
Shares(x, q) ==
    \E m \in Nat :
        /\ m <= Len(x) /\ m <= Len(q)
        /\ \A i \in 1 .. m : x[i] = q[i]
        /\ m = Len(q) \/ (m + 1 = Len(q) /\ q[Len(q)] = <<>>)

\* What a provider sees of a path begins with what it sees of the segments that
\* the path and its prefix share; the prefix adds at most an empty segment.
LEMMA SharedSegments ==
  ASSUME NEW T, NEW x \in Seq(T), NEW q \in Seq(T), Plain(x), Plain(q), Shares(x, q)
  PROVE  Broker!IsPrefix(Broker!FoldLeft(Broker!WalkInto, <<>>, q),
                         Broker!FoldLeft(Broker!WalkInto, <<>>, x))
<1>0. PICK m \in Nat : /\ m <= Len(x) /\ m <= Len(q)
                       /\ \A i \in 1 .. m : x[i] = q[i]
                       /\ m = Len(q) \/ (m + 1 = Len(q) /\ q[Len(q)] = <<>>)
  BY Zenon DEF Shares
<1>1. PICK w : Walks(x, w) /\ w[Len(x)] = Broker!FoldLeft(Broker!WalkInto, <<>>, x)
  BY WalkRuns, Zenon
<1>2. PICK v : Walks(q, v) /\ v[Len(q)] = Broker!FoldLeft(Broker!WalkInto, <<>>, q)
  BY WalkRuns, Zenon
<1>3. Len(x) \in Nat /\ Len(q) \in Nat
  BY Length, Zenon
<1>4. m \in 0 .. m /\ m \in 0 .. Len(x)
  BY <1>0, <1>3
<1>5. \A k \in 0 .. m : w[k] = v[k]
  <2>1. Walking!IsRun(<<>>, x, w) /\ Walking!IsRun(<<>>, q, v)
    BY <1>1, <1>2, Zenon DEF Walks
  <2> QED
    BY <1>0, <1>3, <2>1, Walking!RunsAgree
<1>6. w[m] = v[m]
  BY <1>4, <1>5, Zenon
<1>7. v[Len(q)] = v[m]
  <2>1. CASE m = Len(q)
    BY <2>1
  <2>2. CASE m + 1 = Len(q) /\ q[Len(q)] = <<>>
    <3>1. m \in 0 .. Len(q) - 1
      BY <2>2, <1>3
    <3>2. v[m + 1] = Broker!WalkInto(v[m], q[m + 1])
      BY <1>2, <3>1, Zenon DEF Walks, Walking!IsRun
    <3>3. v[Len(q)] = Broker!WalkInto(v[m], <<>>)
      BY <2>2, <3>2, Zenon
    <3> QED
      BY <3>3, Zenon DEF Broker!WalkInto
  <2> QED
    BY <1>0, <2>1, <2>2, Zenon
<1>8. Broker!IsPrefix(w[m], w[Len(x)])
  BY <1>1, <1>4, WalkGrows, Zenon
<1> QED
  BY <1>1, <1>2, <1>6, <1>7, <1>8, Zenon

\* The segments of a path that is let through are not dot segments when they are
\* decoded, and no slash of it is encoded.
LEMMA NotDangerous ==
  ASSUME NEW path \in Seq(Char), ~Broker!HasDangerousPathSegment(path)
  PROVE  /\ \A i \in 1 .. Len(path) : path[i] # "%2f"
         /\ Plain(Broker!Split(Broker!Decode(path)))
<1> DEFINE segments == Broker!Split(path)
           n == Len(path)
<1>1. PICK h : Splits(path, h) /\ h[n] = segments
  BY SplitRuns, Zenon
<1>2. n \in Nat /\ n \in 0 .. n
  OBVIOUS
<1>3. segments \in Seq(Seq(Char))
  <2>1. h[n] \in Seq(Seq(Char))
    BY <1>1, <1>2, SplitTyped, Zenon
  <2> QED
    BY <1>1, <2>1, Zenon
<1> HIDE DEF segments
<1>4. \A i \in 1 .. Len(segments) :
          /\ segments[i] \in Seq(Char)
          /\ Broker!Decode(segments[i]) \notin Broker!DotSegments
          /\ "/" \notin Broker!Range(Broker!Decode(segments[i]))
  <2> TAKE i \in 1 .. Len(segments)
  <2>1. i \in DOMAIN segments /\ segments[i] \in Seq(Char)
    BY <1>3, Length, Zenon
  <2>2. segments[i] \in Broker!Segments(path)
    BY <2>1, Zenon DEF Broker!Segments, Broker!Range, segments
  <2> QED
    BY <2>1, <2>2, Zenon DEF Broker!HasDangerousPathSegment
<1>5. ASSUME NEW j \in 1 .. n, path[j] = "%2f"
      PROVE  FALSE
  <2>1. "%2f" # "/"
    OBVIOUS
  <2>2. Holds(segments, "%2f")
    BY <1>1, <1>5, <2>1, TokensKept, Zenon
  <2>3. PICK i \in 1 .. Len(segments) : "%2f" \in {segments[i][x] : x \in DOMAIN segments[i]}
    BY <2>2, Zenon DEF Holds
  <2>4. PICK x \in DOMAIN segments[i] : segments[i][x] = "%2f"
    BY <2>3, Zenon
  <2>5. Broker!Decode(segments[i])[x] = "/" /\ x \in DOMAIN Broker!Decode(segments[i])
    BY <2>4, Zenon DEF Broker!Decode, Broker!Decoded
  <2>6. "/" \in Broker!Range(Broker!Decode(segments[i]))
    BY <2>5, Zenon DEF Broker!Range
  <2> QED
    BY <1>4, <2>3, <2>6, Zenon
<1>6. Decodes(segments, Broker!Split(Broker!Decode(path)))
  BY <1>5, SplitDecoded, Zenon DEF segments
<1>7. Plain(Broker!Split(Broker!Decode(path)))
  BY <1>4, <1>6, Zenon DEF Plain, Decodes
<1> QED
  BY <1>5, <1>7, Zenon

\* A path that continues its prefix shares the prefix's segments, up to an empty
\* last one: the prefix ends with a slash or one follows it.
LEMMA ContinuedPath ==
  ASSUME NEW path \in Seq(Char), NEW prefix \in Seq(Char), Broker!ValidPathPrefix(prefix),
         Broker!IsStrictPrefix(prefix, path),
         Broker!Last(prefix) = "/" \/ path[Len(prefix) + 1] = "/",
         NEW x, x = Broker!Split(Broker!Decode(path)),
         NEW q, q = Broker!Split(prefix)
  PROVE  Shares(x, q)
<1> DEFINE m == Len(prefix)
           n == Len(path)
           d == Broker!Decode(path)
<1>1. m \in Nat /\ n \in Nat
  BY Length, Zenon
<1>2. m <= n /\ \A i \in 1 .. m : prefix[i] = path[i]
  <2>1. Broker!IsPrefix(prefix, path)
    BY Zenon DEF Broker!IsStrictPrefix
  <2> QED
    BY <2>1, PrefixElements
<1>3. m < n
  <2>1. prefix # path
    BY Zenon DEF Broker!IsStrictPrefix
  <2>2. m # n
    BY <1>2, <2>1, Splitting!SameSequence, Zenon
  <2> QED
    BY <1>1, <1>2, <2>2
<1>4. m > 0
  <2>1. prefix # <<>>
    BY Zenon DEF Broker!ValidPathPrefix
  <2> QED
    BY <2>1
<1>5. d \in Seq(Char) /\ Len(d) = n /\ \A i \in 1 .. n : d[i] = Broker!Decoded(path[i])
  BY DecodeTyped, Zenon
<1>6. \A i \in 1 .. m : d[i] = prefix[i]
  <2>1. Broker!Decode(prefix) = prefix
    BY DecodeSame, Zenon DEF Broker!ValidPathPrefix
  <2>2. \A i \in 1 .. m : Broker!Decode(prefix)[i] = Broker!Decoded(prefix[i])
    BY DecodeTyped, Zenon
  <2>3. \A i \in 1 .. m : i \in 1 .. n
    BY <1>1, <1>2
  <2> QED
    BY <1>2, <1>5, <2>1, <2>2, <2>3, Zenon
<1> HIDE DEF d
<1>7. PICK g : Splits(d, g) /\ g[n] = x
  <2>1. \E g : Splits(d, g) /\ g[Len(d)] = Broker!Split(d)
    BY <1>5, SplitRuns, Zenon
  <2> QED
    BY <1>5, <2>1, Zenon DEF d
<1>8. PICK p : Splits(prefix, p) /\ p[m] = q
  BY SplitRuns, Zenon
<1>9. g[m] = q
  <2>1. Splitting!IsRun(<< <<>> >>, d, g) /\ Splitting!IsRun(<< <<>> >>, prefix, p)
    BY <1>7, <1>8, Zenon DEF Splits
  <2>2. m <= Len(prefix) /\ m <= Len(d) /\ Len(d) \in Nat /\ m \in 0 .. m
    BY <1>1, <1>2, <1>5
  <2>3. \A k \in 0 .. m : g[k] = p[k]
    BY <1>1, <1>6, <2>1, <2>2, Splitting!RunsAgree
  <2> QED
    BY <1>8, <2>2, <2>3, Zenon
<1>10. m \in 0 .. n /\ n \in m .. n /\ n \in 0 .. n /\ m \in 1 .. m /\ m \in 1 .. n /\ m + 1 \in 1 .. n
  BY <1>1, <1>3, <1>4
<1>11. Stays(d, g, m, n)
  BY <1>5, <1>7, <1>10, SegmentsStay, Zenon
<1>12. g[m] \in Seq(Seq(Char)) /\ Len(g[m]) > 0 /\ g[n] \in Seq(Seq(Char))
  BY <1>5, <1>7, <1>10, SplitTyped, Zenon
<1> DEFINE lq == Len(q)
           lx == Len(x)
<1>13. lq \in Nat /\ lq > 0 /\ lx \in Nat /\ lx >= lq
  <2>1. q \in Seq(Seq(Char)) /\ x \in Seq(Seq(Char)) /\ lx >= lq /\ lq > 0
    BY <1>7, <1>9, <1>11, <1>12, Zenon DEF Stays
  <2> QED
    BY <2>1, Length, Zenon
<1>14. \A i \in 1 .. lq - 1 : x[i] = q[i]
  BY <1>7, <1>9, <1>11, Zenon DEF Stays
<1>15. CASE Broker!Last(prefix) = "/"
  <2>1. prefix[m] = "/"
    BY <1>15, Zenon DEF Broker!Last
  <2>2. q[lq] = <<>>
    BY <1>8, <1>10, <2>1, SlashOpens, Zenon
  <2> HIDE DEF lq, lx
  <2>3. lq - 1 \in Nat /\ lq - 1 <= lx /\ lq - 1 <= lq /\ (lq - 1) + 1 = lq
    BY <1>13
  <2> QED
    BY <1>14, <2>2, <2>3, Zenon DEF Shares, lq, lx
<1>16. CASE path[m + 1] = "/"
  <2>1. d[m + 1] = "/"
    <3>1. Broker!Decoded("/") = "/"
      BY Zenon DEF Broker!Decoded
    <3> QED
      BY <1>5, <1>10, <1>16, <3>1, Zenon
  <2>2. x[lq] = q[lq]
    BY <1>3, <1>7, <1>9, <1>11, <2>1 DEF Stays
  <2> HIDE DEF lq, lx
  <2>3. lq <= lx /\ lq <= lq /\ \A i \in 1 .. lq : i = lq \/ i \in 1 .. lq - 1
    BY <1>13
  <2>4. \A i \in 1 .. lq : x[i] = q[i]
    BY <1>14, <2>2, <2>3, Zenon
  <2> QED
    BY <1>13, <2>3, <2>4, Zenon DEF Shares, lq, lx
<1> QED
  BY <1>15, <1>16, Zenon

\* The broker's checks keep every path below every prefix.
THEOREM PathsStayBelow ==
  ASSUME NEW path \in Seq(Char), NEW prefix \in Seq(Char)
  PROVE  Broker!StaysBelowPrefix(path, prefix)
<1> SUFFICES ASSUME Broker!ValidPathPrefix(prefix), Broker!PathIsAllowed(path, prefix),
                    ~Broker!HasDangerousPathSegment(path)
             PROVE  Broker!IsPrefix(Broker!Walk(prefix), Broker!Walk(path))
  BY Zenon DEF Broker!StaysBelowPrefix
<1> DEFINE x == Broker!Split(Broker!Decode(path))
           q == Broker!Split(prefix)
<1>1. Broker!Decode(prefix) = prefix
  BY DecodeSame, Zenon DEF Broker!ValidPathPrefix
<1>2. Broker!Walk(prefix) = Broker!FoldLeft(Broker!WalkInto, <<>>, q)
      /\ Broker!Walk(path) = Broker!FoldLeft(Broker!WalkInto, <<>>, x)
  BY <1>1, Zenon DEF Broker!Walk
<1>3. q \in Seq(Seq(Char)) /\ x \in Seq(Seq(Char))
  <2>1. ASSUME NEW s \in Seq(Char) PROVE Broker!Split(s) \in Seq(Seq(Char))
    <3>1. PICK h : Splits(s, h) /\ h[Len(s)] = Broker!Split(s)
      BY SplitRuns, Zenon
    <3>2. Len(s) \in 0 .. Len(s)
      OBVIOUS
    <3>3. h[Len(s)] \in Seq(Seq(Char))
      BY <3>1, <3>2, SplitTyped, Zenon
    <3> QED
      BY <3>1, <3>3, Zenon
  <2>2. Broker!Decode(path) \in Seq(Char)
    BY DecodeTyped, Zenon
  <2> QED
    BY <2>1, <2>2, Zenon
<1>4. Plain(x)
  BY NotDangerous, Zenon
<1>5. Plain(q)
  <2>1. Broker!Segments(prefix) \cap Broker!DotSegments = {}
    BY Zenon DEF Broker!ValidPathPrefix
  <2>2. \A i \in 1 .. Len(q) : q[i] \in Broker!Segments(prefix)
    <3>1. DOMAIN q = 1 .. Len(q)
      BY <1>3, Length, Zenon
    <3> QED
      BY <3>1, Zenon DEF Broker!Segments, Broker!Range
  <2> QED
    BY <2>1, <2>2, Zenon DEF Plain
<1>6. Shares(x, q)
  <2>1. CASE path = prefix
    <3>1. x = q
      BY <1>1, <2>1, Zenon
    <3>2. Len(q) \in Nat
      BY <1>3, Length, Zenon
    <3>3. Len(q) <= Len(q)
      BY <3>2
    <3> QED
      BY <3>1, <3>2, <3>3, Zenon DEF Shares
  <2>2. CASE path # prefix
    <3>1. /\ Broker!IsStrictPrefix(prefix, path)
          /\ Broker!Last(prefix) = "/" \/ path[Len(prefix) + 1] = "/"
      BY <2>2, Zenon DEF Broker!PathIsAllowed
    <3> QED
      BY <3>1, ContinuedPath, Zenon
  <2> QED
    BY <2>1, <2>2
<1> HIDE DEF x, q
<1>7. Broker!IsPrefix(Broker!FoldLeft(Broker!WalkInto, <<>>, q), Broker!FoldLeft(Broker!WalkInto, <<>>, x))
  BY <1>3, <1>4, <1>5, <1>6, SharedSegments, Zenon
<1> QED
  BY <1>2, <1>7, Zenon

-----------------------------------------------------------------------------
(* Responses.                                                              *)

\* No failure on the list: each of its conditions is false.
LEMMA NoFailure ==
  ASSUME NEW l, DOMAIN l = 1 .. 8, \A i \in 1 .. 8 : l[i][2] # "ok"
  PROVE  Broker!FirstError(l) = "ok" <=> \A i \in 1 .. 8 : ~l[i][1]
<1> DEFINE failing == {i \in DOMAIN l : l[i][1]}
<1>1. failing = {} <=> \A i \in 1 .. 8 : ~l[i][1]
  BY Zenon
<1>2. ASSUME failing # {}
      PROVE  l[Broker!Min(failing)][2] # "ok"
  <2>1. failing \subseteq 1 .. 8
    BY Zenon
  <2>2. failing \subseteq Nat
    BY <2>1
  <2> HIDE DEF failing
  <2>3. \E n \in failing : \A m \in failing : n <= m
    BY <1>2, <2>2, Splitting!NatMin, Zenon
  <2>4. Broker!Min(failing) \in failing
    BY <2>3, Zenon DEF Broker!Min
  <2> QED
    BY <2>1, <2>4, Zenon
<1> QED
  BY <1>1, <1>2, Zenon DEF Broker!FirstError

-----------------------------------------------------------------------------
(* The size of a response.                                                 *)

ReadUpToLimit(acc, n) == Broker!ReadChunk(acc, n, Limit)
Plus(a, b) == a + b
Reading == INSTANCE FoldFacts WITH Op <- ReadUpToLimit
Adding == INSTANCE FoldFacts WITH Op <- Plus

\* Reading goes through the chunks.
LEMMA ReadRuns ==
  ASSUME NEW T, NEW chunks \in Seq(T)
  PROVE  \E r : /\ Reading!IsRun([size |-> 0, ended |-> FALSE], chunks, r)
                /\ r[Len(chunks)] = Broker!Buffered(chunks, Limit)
<1>1. Reading!Fold([size |-> 0, ended |-> FALSE], chunks) = Broker!Buffered(chunks, Limit)
  BY Zenon DEF Reading!Fold, Reading!FoldLeft, Reading!MapThenFoldSet, Reading!Max, ReadUpToLimit,
     Broker!Buffered, Broker!FoldLeft, Broker!MapThenFoldSet, Broker!Max
<1> QED
  BY <1>1, Reading!FoldRuns, Zenon

\* So does their sum.
LEMMA SumRuns ==
  ASSUME NEW T, NEW chunks \in Seq(T)
  PROVE  \E s : Adding!IsRun(0, chunks, s) /\ s[Len(chunks)] = FoldLeft(LAMBDA a, b : a + b, 0, chunks)
<1>1. Adding!Fold(0, chunks) = FoldLeft(LAMBDA a, b : a + b, 0, chunks)
  BY Zenon DEF Adding!Fold, Adding!FoldLeft, Adding!MapThenFoldSet, Adding!Max, Plus,
     FoldLeft, MapThenFoldSet, Max
<1> QED
  BY <1>1, Adding!FoldRuns, Zenon

\* One chunk: reading ends if the limit would be passed, else the size grows.
LEMMA ChunkRead ==
  ASSUME NEW acc \in [size : Nat, ended : BOOLEAN], NEW n \in Nat, Limit \in Nat,
         NEW r, r = Broker!ReadChunk(acc, n, Limit)
  PROVE  /\ r \in [size : Nat, ended : BOOLEAN]
         /\ r.ended <=> acc.ended \/ acc.size + n > Limit
         /\ ~r.ended => r.size = acc.size + n
<1>1. CASE acc.ended \/ acc.size + n > Limit
  <2>1. r = [acc EXCEPT !.ended = TRUE]
    BY <1>1, Zenon DEF Broker!ReadChunk
  <2> QED
    BY <1>1, <2>1
<1>2. CASE ~ (acc.ended \/ acc.size + n > Limit)
  <2>1. r = [acc EXCEPT !.size = acc.size + n]
    BY <1>2, Zenon DEF Broker!ReadChunk
  <2>2. acc.size + n \in Nat
    OBVIOUS
  <2> QED
    BY <1>2, <2>1, <2>2
<1> QED
  BY <1>1, <1>2, Zenon

\* Reading ends exactly if the chunks are longer than the limit, together.
LEMMA ReadEnds ==
  ASSUME NEW chunks \in Seq(Nat), Limit \in Nat
  PROVE  /\ FoldLeft(LAMBDA a, b : a + b, 0, chunks) \in Nat
         /\ Broker!Buffered(chunks, Limit).ended <=> FoldLeft(LAMBDA a, b : a + b, 0, chunks) > Limit
<1> DEFINE n == Len(chunks)
<1>1. PICK r : /\ Reading!IsRun([size |-> 0, ended |-> FALSE], chunks, r)
               /\ r[n] = Broker!Buffered(chunks, Limit)
  BY ReadRuns, Zenon
<1>2. PICK s : Adding!IsRun(0, chunks, s) /\ s[n] = FoldLeft(LAMBDA a, b : a + b, 0, chunks)
  BY SumRuns, Zenon
<1>3. n \in Nat /\ 0 \in 0 .. n /\ n \in 0 .. n
  OBVIOUS
<1> DEFINE Right(k) == /\ r[k] \in [size : Nat, ended : BOOLEAN] /\ s[k] \in Nat
                       /\ r[k].ended <=> s[k] > Limit
                       /\ ~r[k].ended => r[k].size = s[k]
           good == {k \in 0 .. n : Right(k)}
<1>4. 0 \in good
  <2>1. r[0] = [size |-> 0, ended |-> FALSE] /\ s[0] = 0
    BY <1>1, <1>2, Zenon DEF Reading!IsRun, Adding!IsRun
  <2>2. Right(0)
    BY <2>1
  <2> QED
    BY <1>3, <2>2, Zenon
<1>5. ASSUME NEW k \in 0 .. n - 1, k \in good
      PROVE  k + 1 \in good
  <2>1. k \in 0 .. n /\ k + 1 \in 0 .. n /\ chunks[k + 1] \in Nat
    OBVIOUS
  <2>2. s[k + 1] = s[k] + chunks[k + 1]
    BY <1>2, Zenon DEF Adding!IsRun, Plus
  <2>3. r[k + 1] = Broker!ReadChunk(r[k], chunks[k + 1], Limit)
    BY <1>1, Zenon DEF Reading!IsRun, ReadUpToLimit
  <2>4. Right(k)
    BY <1>5, Zenon
  <2>5. /\ r[k + 1] \in [size : Nat, ended : BOOLEAN]
        /\ r[k + 1].ended <=> r[k].ended \/ r[k].size + chunks[k + 1] > Limit
        /\ ~r[k + 1].ended => r[k + 1].size = r[k].size + chunks[k + 1]
    BY <2>1, <2>3, <2>4, ChunkRead
  <2> DEFINE x == s[k]
             m == chunks[k + 1]
  <2>6. x \in Nat /\ m \in Nat /\ s[k + 1] = x + m /\ x + m \in Nat
    BY <2>1, <2>2, <2>4
  <2>7. (r[k].ended <=> x > Limit) /\ (~r[k].ended => r[k].size = x)
    BY <2>4
  <2> HIDE DEF x
  <2>8. (r[k + 1].ended <=> x + m > Limit) /\ (~r[k + 1].ended => r[k + 1].size = x + m)
    BY <2>5, <2>6, <2>7
  <2>9. Right(k + 1)
    BY <2>5, <2>6, <2>8
  <2> QED
    BY <2>1, <2>9, Zenon
<1> HIDE DEF good
<1>6. \A k \in 0 .. n : k \in good
  <2> HIDE DEF n
  <2> QED
    BY <1>3, <1>4, <1>5, Splitting!Induction, Zenon
<1>7. Right(n)
  BY <1>3, <1>6, Zenon DEF good
<1>8. s[n] \in Nat /\ (r[n].ended <=> s[n] > Limit)
  BY <1>7
<1> QED
  BY <1>1, <1>2, <1>8, Zenon

Gathering == INSTANCE FoldFacts WITH Op <- Broker!DecodeInto

\* What the encodings are that a decoder takes off.
Peels == Broker!TextLayer \cup Broker!WholeLayer \cup {"slash"}

\* A concatenation.
Joins(T, s, t, r) ==
    /\ r \in Seq(T) /\ Len(r) = Len(s) + Len(t)
    /\ \A c : c \in Broker!Range(r) <=> c \in Broker!Range(s) \/ c \in Broker!Range(t)

\* A joined sequence has the elements of both.
LEMMA Joined ==
  ASSUME NEW T, NEW s \in Seq(T), NEW t \in Seq(T)
  PROVE  Joins(T, s, t, s \o t)
<1> DEFINE r == s \o t
           m == Len(s)
           n == Len(t)
<1>1. m \in Nat /\ n \in Nat /\ DOMAIN s = 1 .. m /\ DOMAIN t = 1 .. n
  OBVIOUS
<1>2. r \in Seq(T) /\ Len(r) = m + n
  OBVIOUS
<1>3. \A i \in 1 .. m : r[i] = s[i]
  OBVIOUS
<1>4. \A i \in 1 .. n : r[m + i] = t[i]
  OBVIOUS
<1> HIDE DEF r, m, n
<1>5. DOMAIN r = 1 .. m + n
  BY <1>2, Length, Zenon
<1>6. \A c : c \in Broker!Range(r) <=> c \in Broker!Range(s) \/ c \in Broker!Range(t)
  <2> TAKE c
  <2>1. ASSUME c \in Broker!Range(r) PROVE c \in Broker!Range(s) \/ c \in Broker!Range(t)
    <3>1. PICK i \in 1 .. m + n : r[i] = c
      BY <2>1, <1>5, Zenon DEF Broker!Range
    <3>2. CASE i <= m
      <4>1. i \in 1 .. m
        BY <3>2, <1>1
      <4> QED
        BY <4>1, <3>1, <1>1, <1>3, Zenon DEF Broker!Range
    <3>3. CASE i > m
      <4>1. i - m \in 1 .. n /\ m + (i - m) = i
        BY <3>3, <1>1
      <4>2. t[i - m] = c
        BY <1>4, <3>1, <4>1, Zenon
      <4> QED
        BY <4>1, <4>2, <1>1, Zenon DEF Broker!Range
    <3> QED
      BY <3>2, <3>3, <1>1
  <2>2. ASSUME c \in Broker!Range(s) PROVE c \in Broker!Range(r)
    <3>1. PICK i \in 1 .. m : s[i] = c
      BY <2>2, <1>1, Zenon DEF Broker!Range
    <3>2. i \in 1 .. m + n
      BY <1>1
    <3> QED
      BY <3>1, <3>2, <1>3, <1>5, Zenon DEF Broker!Range
  <2>3. ASSUME c \in Broker!Range(t) PROVE c \in Broker!Range(r)
    <3>1. PICK i \in 1 .. n : t[i] = c
      BY <2>3, <1>1, Zenon DEF Broker!Range
    <3>2. m + i \in 1 .. m + n
      BY <1>1
    <3>3. r[m + i] = c
      BY <1>4, <3>1, Zenon
    <3> QED
      BY <3>2, <3>3, <1>5, Zenon DEF Broker!Range
  <2> QED
    BY <2>1, <2>2, <2>3, Zenon
<1> QED
  BY <1>2, <1>6, Zenon DEF Joins, r, m, n

\* The one element of a sequence.
LEMMA Single ==
  ASSUME NEW T, NEW a \in T
  PROVE  <<a>> \in Seq(T) /\ Len(<<a>>) = 1 /\ \A c : c \in Broker!Range(<<a>>) <=> c = a
<1>1. <<a>> \in Seq(T) /\ Len(<<a>>) = 1
  OBVIOUS
<1>2. DOMAIN <<a>> = {1} /\ <<a>>[1] = a
  OBVIOUS
<1> QED
  BY <1>1, <1>2, Zenon DEF Broker!Range

\* The empty sequence.
LEMMA Nothing ==
  ASSUME NEW T
  PROVE  <<>> \in Seq(T) /\ Len(<<>>) = 0 /\ \A c : c \notin Broker!Range(<<>>)
<1>1. DOMAIN <<>> = {}
  OBVIOUS
<1>2. <<>> \in Seq(T) /\ Len(<<>>) = 0
  OBVIOUS
<1> QED
  BY <1>1, <1>2, Zenon DEF Broker!Range

\* What the decoders make of a text: the text, and the text less its outermost
\* encoding if one of them knows that.
After(text) == {text} \cup (IF text # <<>> /\ Head(text) \in Peels THEN {Tail(text)} ELSE {})

Decodes5(T, text, r) ==
    r \in Seq(Seq(T)) /\ Len(r) \in 3 .. 5 /\ \A c : c \in Broker!Range(r) <=> c \in After(text)

\* What a round makes of one candidate: three texts, and one or two more if it is base64.
LEMMA DecodingsOf ==
  ASSUME NEW T, NEW text \in Seq(T)
  PROVE  Decodes5(T, text, Broker!Decodings(text))
<1> DEFINE a == Broker!Peeled(text, {"percent"})
           b == Broker!Peeled(text, {"json", "slash"})
           c == Broker!Peeled(text, {"html"})
           x == IF text # <<>> /\ Head(text) = "base64" THEN <<Tail(text)>> ELSE <<>>
           y == IF text # <<>> /\ Head(text) = "base64url" THEN <<Tail(text)>> ELSE <<>>
           tail == Tail(text)
           head == Head(text)
<1>1. text # <<>> => tail \in Seq(T)
  OBVIOUS
<1>2. Broker!Decodings(text) = <<a, b, c>> \o x \o y
  BY Zenon DEF Broker!Decodings
<1>3. /\ a = IF text # <<>> /\ head = "percent" THEN tail ELSE text
      /\ b = IF text # <<>> /\ head \in {"json", "slash"} THEN tail ELSE text
      /\ c = IF text # <<>> /\ head = "html" THEN tail ELSE text
  BY Zenon DEF Broker!Peeled
<1> HIDE DEF a, b, c
<1>4. <<a, b, c>> \in Seq(Seq(T)) /\ Len(<<a, b, c>>) = 3 /\ \A d : d \in Broker!Range(<<a, b, c>>) <=> d \in {a, b, c}
  <2>1. a \in Seq(T) /\ b \in Seq(T) /\ c \in Seq(T)
    BY <1>1, <1>3, Zenon
  <2>2. <<a, b, c>> \in Seq(Seq(T)) /\ Len(<<a, b, c>>) = 3
    BY <2>1
  <2>3. DOMAIN <<a, b, c>> = {1, 2, 3} /\ <<a, b, c>>[1] = a /\ <<a, b, c>>[2] = b /\ <<a, b, c>>[3] = c
    OBVIOUS
  <2> QED
    BY <2>2, <2>3, Zenon DEF Broker!Range
<1> DEFINE abc == <<a, b, c>>
<1> HIDE DEF abc
<1>5. x \in Seq(Seq(T)) /\ Len(x) \in 0 .. 1
      /\ \A d : d \in Broker!Range(x) <=> text # <<>> /\ head = "base64" /\ d = tail
  <2>1. CASE text # <<>> /\ head = "base64"
    <3>1. x = <<tail>> /\ tail \in Seq(T)
      BY <1>1, <2>1, Zenon
    <3> HIDE DEF x, tail
    <3>2. x \in Seq(Seq(T)) /\ Len(x) = 1 /\ \A d : d \in Broker!Range(x) <=> d = tail
      BY <3>1, Single, Zenon
    <3>3. Len(x) \in 0 .. 1
      BY <3>2
    <3> QED
      BY <2>1, <3>2, <3>3, Zenon DEF tail
  <2>2. CASE ~ (text # <<>> /\ head = "base64")
    <3>1. x = <<>>
      BY <2>2, Zenon
    <3> HIDE DEF x
    <3>2. x \in Seq(Seq(T)) /\ Len(x) = 0 /\ \A d : d \notin Broker!Range(x)
      BY <3>1, Nothing, Zenon
    <3>3. Len(x) \in 0 .. 1
      BY <3>2
    <3> QED
      BY <2>2, <3>2, <3>3, Zenon
  <2> QED
    BY <2>1, <2>2, Zenon
<1>6. y \in Seq(Seq(T)) /\ Len(y) \in 0 .. 1
      /\ \A d : d \in Broker!Range(y) <=> text # <<>> /\ head = "base64url" /\ d = tail
  <2>1. CASE text # <<>> /\ head = "base64url"
    <3>1. y = <<tail>> /\ tail \in Seq(T)
      BY <1>1, <2>1, Zenon
    <3> HIDE DEF y, tail
    <3>2. y \in Seq(Seq(T)) /\ Len(y) = 1 /\ \A d : d \in Broker!Range(y) <=> d = tail
      BY <3>1, Single, Zenon
    <3>3. Len(y) \in 0 .. 1
      BY <3>2
    <3> QED
      BY <2>1, <3>2, <3>3, Zenon DEF tail
  <2>2. CASE ~ (text # <<>> /\ head = "base64url")
    <3>1. y = <<>>
      BY <2>2, Zenon
    <3> HIDE DEF y
    <3>2. y \in Seq(Seq(T)) /\ Len(y) = 0 /\ \A d : d \notin Broker!Range(y)
      BY <3>1, Nothing, Zenon
    <3>3. Len(y) \in 0 .. 1
      BY <3>2
    <3> QED
      BY <2>2, <3>2, <3>3, Zenon
  <2> QED
    BY <2>1, <2>2, Zenon
<1> HIDE DEF x, y
<1>7. Joins(Seq(T), abc, x, abc \o x)
  BY <1>4, <1>5, Joined DEF abc
<1>8. Joins(Seq(T), abc \o x, y, (abc \o x) \o y)
  <2>1. abc \o x \in Seq(Seq(T))
    BY <1>7, Zenon DEF Joins
  <2> QED
    BY <2>1, <1>6, Joined
<1> DEFINE r == (abc \o x) \o y
           s == abc \o x
<1> HIDE DEF r, s
<1>9. r \in Seq(Seq(T)) /\ Len(r) \in 3 .. 5
  <2>1. Len(s) = Len(abc) + Len(x) /\ Len(r) = Len(s) + Len(y) /\ r \in Seq(Seq(T)) /\ Len(abc) = 3
    BY <1>4, <1>7, <1>8, Zenon DEF Joins, r, s, abc
  <2>2. Len(x) \in 0 .. 1 /\ Len(y) \in 0 .. 1
    BY <1>5, <1>6, Zenon
  <2>3. Len(r) \in 3 .. 5
    <3>1. Len(r) = 3 + Len(x) + Len(y)
      BY <2>1, Zenon
    <3>2. \A p, q \in 0 .. 1 : 3 + p + q \in 3 .. 5
      OBVIOUS
    <3> QED
      BY <2>2, <3>1, <3>2, Zenon
  <2> QED
    BY <2>1, <2>3, Zenon
<1>10. \A d : d \in Broker!Range(r) <=>
        \/ d \in {a, b, c}
        \/ text # <<>> /\ head = "base64" /\ d = tail
        \/ text # <<>> /\ head = "base64url" /\ d = tail
  <2>1. \A d : d \in Broker!Range(r) <=> d \in Broker!Range(s) \/ d \in Broker!Range(y)
    BY <1>8, Zenon DEF Joins, r, s
  <2>2. \A d : d \in Broker!Range(s) <=> d \in Broker!Range(abc) \/ d \in Broker!Range(x)
    BY <1>7, Zenon DEF Joins, s
  <2>3. \A d : d \in Broker!Range(abc) <=> d \in {a, b, c}
    BY <1>4, Zenon DEF abc
  <2> TAKE d
  <2> QED
    BY <2>1, <2>2, <2>3, <1>5, <1>6, Zenon
<1>11. \A d : d \in Broker!Range(r) <=> d \in After(text)
  <2> TAKE d
  <2>1. d \in After(text) <=> d = text \/ (text # <<>> /\ head \in Peels /\ d = tail)
    BY Zenon DEF After
  <2>2. head \in Peels <=> head \in {"percent", "json", "html", "slash"} \/ head = "base64" \/ head = "base64url"
    BY Zenon DEF Peels, Broker!TextLayer, Broker!WholeLayer
  <2> HIDE DEF head, tail
  <2>3. d \in {a, b, c} <=> d = text \/ (text # <<>> /\ head \in {"percent", "json", "html", "slash"} /\ d = tail)
    BY <1>3
  <2>4. d \in Broker!Range(r) <=>
        \/ d \in {a, b, c}
        \/ text # <<>> /\ head = "base64" /\ d = tail
        \/ text # <<>> /\ head = "base64url" /\ d = tail
    BY <1>10, Zenon
  <2> DEFINE inAbc == d \in {a, b, c}
             inText == head \in {"percent", "json", "html", "slash"}
             inRange == d \in Broker!Range(r)
             inAfter == d \in After(text)
  <2> HIDE DEF inAbc, inText, inRange, inAfter
  <2>5. inAfter <=> d = text \/ (text # <<>> /\ (inText \/ head = "base64" \/ head = "base64url") /\ d = tail)
    BY <2>1, <2>2, Zenon DEF inAfter, inText
  <2>6. inRange <=>
        \/ d = text \/ (text # <<>> /\ inText /\ d = tail)
        \/ text # <<>> /\ head = "base64" /\ d = tail
        \/ text # <<>> /\ head = "base64url" /\ d = tail
    BY <2>3, <2>4, Zenon DEF inRange, inAbc, inText
  <2> QED
    BY <2>5, <2>6, Zenon DEF inRange, inAfter
<1>12. Broker!Decodings(text) = r
  BY <1>2, Zenon DEF r, abc
<1> QED
  BY <1>9, <1>11, <1>12, Zenon DEF Decodes5

\* A round goes through the candidates.
LEMMA GatherRuns ==
  ASSUME NEW T, NEW candidates \in Seq(T)
  PROVE  \E h : Gathering!IsRun(<<>>, candidates, h) /\ h[Len(candidates)] = Broker!NextCandidates(candidates)
<1>1. Gathering!Fold(<<>>, candidates) = Broker!NextCandidates(candidates)
  BY Zenon DEF Gathering!Fold, Gathering!FoldLeft, Gathering!MapThenFoldSet, Gathering!Max,
     Broker!NextCandidates, Broker!FoldLeft, Broker!MapThenFoldSet, Broker!Max
<1> QED
  BY <1>1, Gathering!FoldRuns, Zenon

\* One candidate more.
LEMMA OneCandidate ==
  ASSUME NEW T, NEW next \in Seq(Seq(T)), Len(next) < 64, NEW c \in Seq(T),
         NEW r, r = Broker!DecodeInto(next, c)
  PROVE  /\ r \in Seq(Seq(T)) /\ Len(r) <= Len(next) + 5
         /\ \A x : x \in Broker!Range(r) <=> x \in Broker!Range(next) \/ x \in After(c)
<1>1. Len(next) \in Nat
  BY Length, Zenon
<1>2. ~ (Len(next) >= Broker!MaxDecodeCandidates)
  BY <1>1 DEF Broker!MaxDecodeCandidates
<1>3. r = next \o Broker!Decodings(c)
  BY <1>2, Zenon DEF Broker!DecodeInto
<1>4. Decodes5(T, c, Broker!Decodings(c))
  BY DecodingsOf, Zenon
<1>5. Joins(Seq(T), next, Broker!Decodings(c), r)
  <2>1. Broker!Decodings(c) \in Seq(Seq(T))
    BY <1>4, Zenon DEF Decodes5
  <2> QED
    BY <1>3, <2>1, Joined
<1>6. Len(r) <= Len(next) + 5
  <2>1. Len(r) = Len(next) + Len(Broker!Decodings(c)) /\ Len(Broker!Decodings(c)) \in 3 .. 5
    BY <1>4, <1>5, Zenon DEF Decodes5, Joins
  <2>2. \A p \in Nat, q \in 3 .. 5 : p + q <= p + 5
    OBVIOUS
  <2> QED
    BY <1>1, <2>1, <2>2, Zenon
<1> QED
  BY <1>4, <1>5, <1>6, Zenon DEF Decodes5, Joins

\* A round over few enough candidates decodes all of them.
LEMMA OneRound ==
  ASSUME NEW T, NEW candidates \in Seq(Seq(T)), Len(candidates) <= 12,
         NEW r, r = Broker!NextCandidates(candidates)
  PROVE  /\ r \in Seq(Seq(T)) /\ Len(r) <= 5 * Len(candidates)
         /\ \A x : x \in Broker!Range(r) <=> \E c \in Broker!Range(candidates) : x \in After(c)
<1> DEFINE n == Len(candidates)
<1>1. n \in Nat /\ n <= 12 /\ \A i \in 1 .. n : candidates[i] \in Seq(T)
  BY Length, Zenon
<1>2. PICK h : Gathering!IsRun(<<>>, candidates, h) /\ h[n] = r
  BY GatherRuns, Zenon
<1> DEFINE Right(k) == /\ h[k] \in Seq(Seq(T)) /\ Len(h[k]) <= 5 * k
                       /\ \A x : x \in Broker!Range(h[k]) <=> \E i \in 1 .. k : x \in After(candidates[i])
           good == {k \in 0 .. n : Right(k)}
<1> HIDE DEF n
<1>3. 0 \in good
  <2>1. h[0] = <<>>
    BY <1>2, Zenon DEF Gathering!IsRun
  <2>2. h[0] \in Seq(Seq(T)) /\ Len(h[0]) = 0 /\ \A x : x \notin Broker!Range(h[0])
    BY <2>1, Nothing, Zenon
  <2>3. Len(h[0]) <= 5 * 0 /\ 1 .. 0 = {} /\ 0 \in 0 .. n
    BY <1>1, <2>2
  <2>4. Right(0)
    BY <2>2, <2>3, Zenon
  <2> QED
    BY <2>3, <2>4, Zenon
<1>4. ASSUME NEW k \in 0 .. n - 1, k \in good
      PROVE  k + 1 \in good
  <2>1. k \in Nat /\ k <= 11 /\ k + 1 \in 0 .. n /\ k + 1 \in 1 .. n
    BY <1>1
  <2>2. Right(k)
    BY <1>4, Zenon
  <2>3. h[k + 1] = Broker!DecodeInto(h[k], candidates[k + 1])
    BY <1>2, Zenon DEF Gathering!IsRun, n
  <2>4. Len(h[k]) \in Nat
    BY <2>2, Length, Zenon
  <2>5. Len(h[k]) < 64
    <3>1. \A p, q \in Nat : p <= 5 * q /\ q <= 11 => p < 64
      OBVIOUS
    <3> QED
      BY <2>1, <2>2, <2>4, <3>1, Zenon
  <2>6. candidates[k + 1] \in Seq(T)
    BY <1>1, <2>1, Zenon
  <2> DEFINE next == h[k]
             c == candidates[k + 1]
             longer == h[k + 1]
  <2> HIDE DEF next, c, longer
  <2>7. /\ longer \in Seq(Seq(T)) /\ Len(longer) <= Len(next) + 5
        /\ \A x : x \in Broker!Range(longer) <=> x \in Broker!Range(next) \/ x \in After(c)
    BY <2>2, <2>3, <2>5, <2>6, OneCandidate DEF next, c, longer
  <2>8. Len(longer) <= 5 * (k + 1)
    <3>1. \A p, q, m \in Nat : m <= p + 5 /\ p <= 5 * q => m <= 5 * (q + 1)
      OBVIOUS
    <3>2. Len(longer) \in Nat
      BY <2>7, Length, Zenon
    <3> QED
      BY <2>1, <2>2, <2>4, <2>7, <3>1, <3>2, Zenon DEF next
  <2>9. \A x : x \in Broker!Range(h[k + 1]) <=> \E i \in 1 .. k + 1 : x \in After(candidates[i])
    <3>1. k + 1 \in 1 .. k + 1 /\ \A i \in 1 .. k + 1 : i = k + 1 \/ i \in 1 .. k
      BY <2>1
    <3>2. \A i \in 1 .. k : i \in 1 .. k + 1
      BY <2>1
    <3> TAKE x
    <3>3. x \in Broker!Range(h[k + 1]) <=> x \in Broker!Range(h[k]) \/ x \in After(candidates[k + 1])
      BY <2>7, Zenon DEF next, c, longer
    <3>4. x \in Broker!Range(h[k]) <=> \E i \in 1 .. k : x \in After(candidates[i])
      BY <2>2, Zenon
    <3> QED
      BY <3>1, <3>2, <3>3, <3>4, Zenon
  <2>10. Right(k + 1)
    BY <2>7, <2>8, <2>9, Zenon DEF longer
  <2> QED
    BY <2>1, <2>10, Zenon
<1> HIDE DEF good
<1>5. \A k \in 0 .. n : k \in good
  BY <1>1, <1>3, <1>4, Splitting!Induction, Zenon
<1>6. Right(n)
  <2>1. n \in 0 .. n
    BY <1>1
  <2> QED
    BY <1>5, <2>1, Zenon DEF good
<1>7. DOMAIN candidates = 1 .. n
  BY Length, Zenon DEF n
<1>8. \A x : x \in Broker!Range(r) <=> \E c \in Broker!Range(candidates) : x \in After(c)
  BY <1>2, <1>6, <1>7, Zenon DEF Broker!Range
<1> QED
  BY <1>2, <1>6, <1>8, Zenon DEF n

\* The rounds of decoding.
LEMMA Rounds ==
  ASSUME NEW body
  PROVE  LET after == Broker!Candidates(body)
         IN  /\ after[0] = <<body>>
             /\ after[1] = Broker!NextCandidates(<<body>>)
             /\ after[2] = Broker!NextCandidates(Broker!NextCandidates(<<body>>))
<1> DEFINE F(g) == [k \in 0 .. Broker!MaxDecodeRounds |->
                       IF k = 0 THEN <<body>> ELSE Broker!NextCandidates(g[k - 1])]
           a == <<body>>
           b == Broker!NextCandidates(a)
           c == Broker!NextCandidates(b)
           after == Broker!Candidates(body)
           w == [k \in 0 .. Broker!MaxDecodeRounds |-> IF k = 0 THEN a ELSE IF k = 1 THEN b ELSE c]
<1>1. after = CHOOSE g : g = F(g)
  BY Zenon DEF Broker!Candidates
<1>2. 0 .. Broker!MaxDecodeRounds = {0, 1, 2}
  BY DEF Broker!MaxDecodeRounds
<1>3. w = F(w)
  <2>1. w[0] = a /\ w[1] = b
    <3>1. 1 # 0 /\ 0 \in {0, 1, 2} /\ 1 \in {0, 1, 2}
      OBVIOUS
    <3> QED
      BY <1>2, <3>1, Zenon
  <2>2. ASSUME NEW k \in {0, 1, 2}
        PROVE  (IF k = 0 THEN a ELSE IF k = 1 THEN b ELSE c)
               = IF k = 0 THEN <<body>> ELSE Broker!NextCandidates(w[k - 1])
    <3>1. 1 - 1 = 0 /\ 2 - 1 = 1 /\ 2 # 0 /\ 2 # 1 /\ 1 # 0
      OBVIOUS
    <3> HIDE DEF w
    <3> QED
      BY <2>1, <3>1, Zenon
  <2> DEFINE p(k) == IF k = 0 THEN a ELSE IF k = 1 THEN b ELSE c
             q(k) == IF k = 0 THEN <<body>> ELSE Broker!NextCandidates(w[k - 1])
  <2>3. [k \in 0 .. Broker!MaxDecodeRounds |-> p(k)] = [k \in 0 .. Broker!MaxDecodeRounds |-> q(k)]
    <3>1. \A k \in 0 .. Broker!MaxDecodeRounds : p(k) = q(k)
      BY <1>2, <2>2, Zenon
    <3> HIDE DEF p, q
    <3> QED
      BY <3>1, Zenon
  <2> QED
    BY <2>3, Zenon
<1> HIDE DEF w
<1>4. after = F(after)
  <2>1. \E g : g = F(g)
    BY <1>3, Zenon
  <2> HIDE DEF after
  <2> QED
    BY <1>1, <2>1, Zenon
<1> HIDE DEF after
<1>5. \A k \in {0, 1, 2} : after[k] = IF k = 0 THEN <<body>> ELSE Broker!NextCandidates(after[k - 1])
  BY <1>2, <1>4, Zenon
<1>6. after[0] = a
  BY <1>5, Zenon
<1>7. after[1] = b
  <2>1. 1 - 1 = 0 /\ 1 # 0
    OBVIOUS
  <2> QED
    BY <1>5, <1>6, <2>1, Zenon
<1>8. after[2] = c
  <2>1. 2 - 1 = 1 /\ 2 # 0
    OBVIOUS
  <2> QED
    BY <1>5, <1>7, <2>1, Zenon
<1> QED
  BY <1>6, <1>7, <1>8, Zenon DEF after

\* How many encodings may come off within k rounds, and the text without them.
Off(body, k) == {j \in 0 .. k : j <= Len(body) /\ \A i \in 1 .. j : body[i] \in Peels}
Rest(body, j) == SubSeq(body, j + 1, Len(body))
Texts(body, k) == {Rest(body, j) : j \in Off(body, k)}

\* What is left of a body without its first j layers.
LEMMA RestOf ==
  ASSUME NEW T, NEW body \in Seq(T), NEW j \in Nat, j <= Len(body)
  PROVE  /\ Rest(body, j) \in Seq(T)
         /\ Rest(body, j) # <<>> <=> j < Len(body)
         /\ j < Len(body) => Head(Rest(body, j)) = body[j + 1] /\ Tail(Rest(body, j)) = Rest(body, j + 1)
<1> DEFINE n == Len(body)
           r == Rest(body, j)
           u == Rest(body, j + 1)
<1>1. n \in Nat /\ j <= n
  BY Length, Zenon
<1>2. r \in Seq(T) /\ Len(r) = n - j /\ \A i \in 1 .. n - j : r[i] = body[j + i]
  BY <1>1 DEF Rest
<1>3. r # <<>> <=> j < n
  <2>1. r # <<>> <=> Len(r) # 0
    BY <1>2
  <2> HIDE DEF r, n
  <2>2. n - j # 0 <=> j < n
    BY <1>1
  <2> QED
    BY <1>2, <2>1, <2>2, Zenon
<1>4. ASSUME j < n PROVE Head(r) = body[j + 1]
  <2>1. Head(r) = r[1]
    BY <1>2, <1>3, <1>4
  <2>2. 1 \in 1 .. n - j
    BY <1>1, <1>4
  <2> QED
    BY <1>2, <2>1, <2>2, Zenon
<1>5. ASSUME j < n PROVE Tail(r) = u
  <2> DEFINE m == n - (j + 1)
  <2>1. u \in Seq(T) /\ Len(u) = m /\ \A i \in 1 .. m : u[i] = body[(j + 1) + i]
    BY <1>1, <1>5 DEF Rest
  <2> HIDE DEF r, u, n
  <2>2. r # <<>>
    BY <1>3, <1>5, Zenon
  <2>3. Tail(r) \in Seq(T) /\ Len(Tail(r)) = Len(r) - 1 /\ \A i \in 1 .. Len(r) - 1 : Tail(r)[i] = r[i + 1]
    BY <1>2, <2>2
  <2>4. Len(r) - 1 = m
    BY <1>1, <1>2
  <2>5. \A i \in 1 .. m : Tail(r)[i] = u[i]
    <3> TAKE i \in 1 .. m
    <3>1. i + 1 \in 1 .. n - j /\ j + (i + 1) = (j + 1) + i
      BY <1>1
    <3> QED
      BY <1>2, <2>1, <2>3, <2>4, <3>1, Zenon
  <2> QED
    BY <2>1, <2>3, <2>4, <2>5, Splitting!SameSequence, Zenon
<1> QED
  BY <1>2, <1>3, <1>4, <1>5, Zenon

\* One round takes at most one encoding more off.
LEMMA TextsAfter ==
  ASSUME NEW T, NEW body \in Seq(T), NEW k \in Nat, NEW x
  PROVE  x \in Texts(body, k + 1) <=> \E c \in Texts(body, k) : x \in After(c)
<1> DEFINE n == Len(body)
<1>1. n \in Nat
  BY Length, Zenon
<1>2. ASSUME x \in Texts(body, k + 1)
      PROVE  \E c \in Texts(body, k) : x \in After(c)
  <2>1. PICK j \in Off(body, k + 1) : x = Rest(body, j)
    BY <1>2, Zenon DEF Texts
  <2>2. j \in 0 .. k + 1 /\ j <= n /\ \A i \in 1 .. j : body[i] \in Peels
    BY <2>1, Zenon DEF Off
  <2>3. CASE j \in 0 .. k
    <3>1. j \in Off(body, k)
      BY <2>2, <2>3, Zenon DEF Off
    <3> QED
      BY <2>1, <3>1, Zenon DEF Texts, After
  <2>4. CASE j = k + 1
    <3>1. k \in Nat /\ k <= n /\ k < n /\ k \in 0 .. k /\ k + 1 \in 1 .. k + 1 /\ \A i \in 1 .. k : i \in 1 .. k + 1
      BY <1>1, <2>2, <2>4
    <3>2. k \in Off(body, k)
      BY <2>2, <2>4, <3>1, Zenon DEF Off
    <3>3. Rest(body, k) # <<>> /\ Head(Rest(body, k)) = body[k + 1] /\ Tail(Rest(body, k)) = x
      BY <2>1, <2>4, <3>1, RestOf, Zenon
    <3>4. body[k + 1] \in Peels
      BY <2>2, <2>4, <3>1, Zenon
    <3>5. x \in After(Rest(body, k))
      BY <3>3, <3>4, Zenon DEF After
    <3> QED
      BY <3>2, <3>5, Zenon DEF Texts
  <2> QED
    BY <2>2, <2>3, <2>4
<1>3. ASSUME NEW c \in Texts(body, k), x \in After(c)
      PROVE  x \in Texts(body, k + 1)
  <2>1. PICK j \in Off(body, k) : c = Rest(body, j)
    BY Zenon DEF Texts
  <2>2. j \in 0 .. k /\ j <= n /\ \A i \in 1 .. j : body[i] \in Peels
    BY <2>1, Zenon DEF Off
  <2>3. j \in Nat /\ j \in 0 .. k + 1 /\ j + 1 \in 0 .. k + 1
    BY <2>2
  <2>4. x = c \/ (c # <<>> /\ Head(c) \in Peels /\ x = Tail(c))
    BY <1>3, Zenon DEF After
  <2>5. CASE x = c
    <3>1. j \in Off(body, k + 1)
      BY <2>2, <2>3, Zenon DEF Off
    <3> QED
      BY <2>1, <2>5, <3>1, Zenon DEF Texts
  <2>6. CASE c # <<>> /\ Head(c) \in Peels /\ x = Tail(c)
    <3>1. j < n /\ Head(c) = body[j + 1] /\ x = Rest(body, j + 1)
      BY <2>1, <2>2, <2>3, <2>6, RestOf, Zenon
    <3>2. j + 1 <= n /\ \A i \in 1 .. j + 1 : i = j + 1 \/ i \in 1 .. j
      BY <1>1, <2>3, <3>1
    <3>3. j + 1 \in Off(body, k + 1)
      <4>1. \A i \in 1 .. j + 1 : body[i] \in Peels
        BY <2>2, <2>6, <3>1, <3>2, Zenon
      <4> QED
        BY <2>3, <3>2, <4>1, Zenon DEF Off
    <3> QED
      BY <3>1, <3>3, Zenon DEF Texts
  <2> QED
    BY <2>4, <2>5, <2>6, Zenon
<1> QED
  BY <1>2, <1>3, Zenon

\* Two rounds look at every text that at most two encodings less leave.
LEMMA CandidatesAre ==
  ASSUME NEW T, NEW body \in Seq(T), NEW k \in {0, 1, 2}
  PROVE  \A x : x \in Broker!Range(Broker!Candidates(body)[k]) <=> x \in Texts(body, k)
<1> DEFINE after == Broker!Candidates(body)
           a == <<body>>
           b == Broker!NextCandidates(a)
           c == Broker!NextCandidates(b)
<1>1. after[0] = a /\ after[1] = b /\ after[2] = c
  BY Rounds, Zenon
<1>2. a \in Seq(Seq(T)) /\ Len(a) = 1 /\ \A x : x \in Broker!Range(a) <=> x = body
  BY Single, Zenon
<1> HIDE DEF a
<1>3. \A x : x \in Broker!Range(a) <=> x \in Texts(body, 0)
  <2>1. Len(body) \in Nat /\ 0 .. 0 = {0} /\ 1 .. 0 = {} /\ 0 + 1 = 1
    BY Length
  <2>2. Off(body, 0) = {0}
    BY <2>1 DEF Off
  <2>3. Rest(body, 0) = body
    BY DEF Rest
  <2> QED
    BY <1>2, <2>2, <2>3, Zenon DEF Texts
<1>4. Len(a) <= 12
  BY <1>2
<1>5. b \in Seq(Seq(T)) /\ Len(b) <= 5 * Len(a)
      /\ \A x : x \in Broker!Range(b) <=> \E t \in Broker!Range(a) : x \in After(t)
  BY <1>2, <1>4, OneRound
<1> HIDE DEF b
<1>6. Len(b) <= 12
  <2>1. Len(b) \in Nat
    BY <1>5, Length, Zenon
  <2>2. \A p \in Nat : p <= 5 * 1 => p <= 12
    OBVIOUS
  <2> QED
    BY <1>2, <1>5, <2>1, <2>2, Zenon
<1>7. \A x : x \in Broker!Range(c) <=> \E t \in Broker!Range(b) : x \in After(t)
  BY <1>5, <1>6, OneRound
<1> HIDE DEF c
<1>8. \A x : x \in Broker!Range(b) <=> x \in Texts(body, 1)
  <2>1. \A x : x \in Texts(body, 0 + 1) <=> \E t \in Texts(body, 0) : x \in After(t)
    BY TextsAfter
  <2>2. 0 + 1 = 1
    OBVIOUS
  <2> QED
    BY <1>3, <1>5, <2>1, <2>2, Zenon
<1>9. \A x : x \in Broker!Range(c) <=> x \in Texts(body, 2)
  <2>1. \A x : x \in Texts(body, 1 + 1) <=> \E t \in Texts(body, 1) : x \in After(t)
    BY TextsAfter
  <2>2. 1 + 1 = 2
    OBVIOUS
  <2> QED
    BY <1>7, <1>8, <2>1, <2>2, Zenon
<1> HIDE DEF after
<1> QED
  BY <1>1, <1>3, <1>8, <1>9, Zenon DEF after

\* A response holds the credential, as it is searched for, under at most two encodings.
Hidden(body) ==
    \E k \in 0 .. Broker!MaxDecodeRounds :
        /\ k <= Len(body)
        /\ \A i \in 1 .. k : body[i] \in Peels
        /\ Broker!Matches(SubSeq(body, k + 1, Len(body)))

\* response_contains_credential finds exactly the hidden ones.
THEOREM FindsHidden ==
  ASSUME NEW T, NEW body \in Seq(T)
  PROVE  Broker!ResponseContainsCredential(body) <=> Hidden(body)
<1>1. 0 .. Broker!MaxDecodeRounds = {0, 1, 2} /\ 0 .. 2 = {0, 1, 2}
  BY DEF Broker!MaxDecodeRounds
<1>2. Broker!ResponseContainsCredential(body)
      <=> \E k \in {0, 1, 2} : \E c \in Texts(body, k) : Broker!Matches(c)
  BY <1>1, CandidatesAre, Zenon DEF Broker!ResponseContainsCredential
<1>3. ASSUME NEW k \in {0, 1, 2}, NEW c \in Texts(body, k), Broker!Matches(c)
      PROVE  Hidden(body)
  <2>1. PICK j \in Off(body, k) : c = Rest(body, j)
    BY Zenon DEF Texts
  <2>2. j \in 0 .. k /\ j <= Len(body) /\ \A i \in 1 .. j : body[i] \in Peels
    BY Zenon DEF Off
  <2>3. j \in {0, 1, 2}
    BY <2>2
  <2> QED
    BY <1>1, <1>3, <2>1, <2>2, <2>3, Zenon DEF Hidden, Rest
<1>4. ASSUME Hidden(body)
      PROVE  \E c \in Texts(body, 2) : Broker!Matches(c)
  <2>1. PICK k \in {0, 1, 2} : /\ k <= Len(body)
                               /\ \A i \in 1 .. k : body[i] \in Peels
                               /\ Broker!Matches(SubSeq(body, k + 1, Len(body)))
    BY <1>1, <1>4, Zenon DEF Hidden
  <2>2. k \in Off(body, 2)
    BY <1>1, <2>1, Zenon DEF Off
  <2> QED
    BY <2>1, <2>2, Zenon DEF Texts, Rest
<1> QED
  BY <1>2, <1>3, <1>4, Zenon

-----------------------------------------------------------------------------
(* The inputs that are picked.                                             *)

\* A response that is picked (PickResponse).
Sent(body, chunks, announced) ==
    [of |-> "response", status |-> 200, type |-> "text", utf8 |-> TRUE, echoes |-> TRUE,
     body |-> body, chunks |-> chunks, announced |-> announced]

\* What is judged: a request's path, the addresses of a host, which are those of
\* one family, and a response of a provider.
Judged ==
    /\ input.of = "path" => input.path \in Seq(Char) /\ input.prefix \in Seq(Char)
    /\ input.of = "v4" => input.some \subseteq Ipv4Address
    /\ input.of = "v6" => input.some \subseteq Ipv6Address
    /\ input.of = "response" => \E body \in Seq(STRING), chunks \in Seq(Nat), announced \in Nat :
           input = Sent(body, chunks, announced)

\* The parts of a package and the vaults are other inputs.
LEMMA OtherInputs ==
  ASSUME PickScopes \/ PickProfiles \/ PickSecrets \/ PickVault \/ GrowVault
  PROVE  input'.of \in {"scopes", "profiles", "payload", "vault"}
<1>1. \A of, kind, scopes, profiles, secrets : PayloadInput(of, kind, scopes, profiles, secrets).of = of
  BY DEF PayloadInput
<1>2. \A scopes, profiles : VaultInput(scopes, profiles).of = "vault"
  BY DEF VaultInput
<1>3. ASSUME PickScopes PROVE input'.of = "scopes"
  <2>1. PICK scopes \in ScopeTables, kind \in {"workspace", "profile"} :
            input' = PayloadInput("scopes", kind, scopes, NoRows, NoRows)
    BY <1>3, Zenon DEF PickScopes
  <2> QED
    BY <1>1, <2>1
<1>4. ASSUME PickProfiles PROVE input'.of = "profiles"
  <2>1. PICK profiles \in ProfileTables :
            input' = PayloadInput("profiles", input.kind, input.scopes, profiles, NoRows)
    BY <1>4, Zenon DEF PickProfiles
  <2> QED
    BY <1>1, <2>1
<1>5. ASSUME PickSecrets PROVE input'.of = "payload"
  <2>1. PICK secrets \in SecretTables :
            input' = PayloadInput("payload", input.kind, input.scopes, input.profiles, secrets)
    BY <1>5, Zenon DEF PickSecrets
  <2> QED
    BY <1>1, <2>1
<1>6. PickVault \/ GrowVault => input'.of = "vault"
  BY <1>2, Zenon DEF PickVault, GrowVault
<1> QED
  BY <1>3, <1>4, <1>5, <1>6, SMTT(10)

\* Each way of picking an input keeps Judged.
LEMMA JudgedStep ==
  ASSUME Judged, [AlgorithmsNext]_input
  PROVE  Judged'
<1>1. CASE PickPath
  <2>1. PICK path \in Paths, prefix \in PathPrefixes :
            input' = [of |-> "path", path |-> path, prefix |-> prefix]
    BY <1>1, Zenon DEF PickPath
  <2>2. \A s \in Seq(STRING) : s \in Seq(Char)
    BY DEF Char
  <2>3. path \in Seq(Char) /\ prefix \in Seq(Char)
    BY <2>2, PathAssumption, Zenon
  <2>4. input'.of = "path" /\ input'.path = path /\ input'.prefix = prefix
    BY <2>1, SMTT(10)
  <2>5. input'.of # "v4" /\ input'.of # "v6" /\ input'.of # "response" /\ input'.of # "env"
    BY <2>4, SMTT(10)
  <2> QED
    BY <2>3, <2>4, <2>5, Zenon DEF Judged
<1>2. CASE PickAddresses
  <2>1. ASSUME NEW none \in BOOLEAN, NEW a \in Ipv4, NEW b \in Ipv4,
               input' = [of |-> "v4", some |-> IF none THEN {} ELSE {a, b}]
        PROVE  Judged'
    <3>1. input'.of = "v4" /\ input'.some \subseteq {a, b}
      BY <2>1, SMTT(10)
    <3>2. a \in Ipv4Address /\ b \in Ipv4Address
      BY AddressAssumption, Zenon
    <3>3. input'.of # "path" /\ input'.of \notin {"v6", "response", "env"} /\ input'.some \subseteq Ipv4Address
      BY <3>1, <3>2, SMTT(10)
    <3> QED
      BY <3>1, <3>3, Zenon DEF Judged
  <2>2. ASSUME NEW none \in BOOLEAN, NEW a \in Ipv6, NEW b \in Ipv6,
               input' = [of |-> "v6", some |-> IF none THEN {} ELSE {a, b}]
        PROVE  Judged'
    <3>1. input'.of = "v6" /\ input'.some \subseteq {a, b}
      BY <2>2, SMTT(10)
    <3>2. a \in Ipv6Address /\ b \in Ipv6Address
      BY AddressAssumption, Zenon
    <3>3. input'.of # "path" /\ input'.of \notin {"v4", "response", "env"} /\ input'.some \subseteq Ipv6Address
      BY <3>1, <3>2, SMTT(10)
    <3> QED
      BY <3>1, <3>3, Zenon DEF Judged
  <2> QED
    BY <1>2, <2>1, <2>2, Zenon DEF PickAddresses
<1>3. CASE PickResponse
  <2>1. PICK body \in Bodies, chunks \in Sizes, announced \in {0, Limit, Limit + 1} :
            input' = Sent(body, chunks, announced)
    BY <1>3, Zenon DEF PickResponse, Sent
  <2>2. body \in Seq(STRING) /\ chunks \in Seq(Nat)
    BY ResponseAssumption, Zenon
  <2>3. announced \in Nat
    BY ResponseAssumption
  <2>4. input'.of = "response"
    BY <2>1, SMTT(10) DEF Sent
  <2>5. input'.of # "path" /\ input'.of # "v4" /\ input'.of # "v6" /\ input'.of # "env"
    BY <2>4, SMTT(10)
  <2> QED
    BY <2>1, <2>2, <2>3, <2>4, <2>5, Zenon DEF Judged
<1>4. CASE PickEnv
  <2>1. input'.of = "env" /\ input'.entries \in Entries
    BY <1>4, SMTT(10) DEF PickEnv
  <2> QED
    BY <2>1, SMTT(10) DEF Judged
<1>5. CASE PickScopes \/ PickProfiles \/ PickSecrets \/ PickVault \/ GrowVault
  <2>1. input'.of \in {"scopes", "profiles", "payload", "vault"}
    BY <1>5, OtherInputs, Zenon
  <2> QED
    BY <2>1, SMTT(10) DEF Judged
<1>6. CASE UNCHANGED input
  BY <1>6, Zenon DEF Judged
<1> QED
  BY <1>1, <1>2, <1>3, <1>4, <1>5, <1>6, Zenon DEF AlgorithmsNext

\* Whatever is picked is of these kinds.
THEOREM JudgedAlways == AlgorithmsSpec => []Judged
<1>1. AlgorithmsInit => Judged
  BY SMTT(10) DEF AlgorithmsInit, Judged
<1>2. Judged /\ [AlgorithmsNext]_input => Judged'
  BY JudgedStep
<1> QED
  BY <1>1, <1>2, PTL DEF AlgorithmsSpec

\* The broker connects only if every address its host's name resolved to is public
\* (resolve_public_addresses), whatever it resolved to.
THEOREM PublicOnly == AlgorithmsSpec => []OnlyPublicAddresses
<1>1. Judged => OnlyPublicAddresses
  <2>1. ASSUME Judged, input.of \in {"v4", "v6"}
        PROVE  \A a \in input.some :
                   (IF input.of = "v4" THEN Broker!IsPublicIpv4(a) ELSE Broker!IsPublicIpv6(a))
                   <=> ~Special(a, input.of)
    BY <2>1, RefusedIpv4, RefusedIpv6, SMTT(10) DEF Judged
  <2>2. ASSUME Judged, input.of \in {"v4", "v6"}
        PROVE  Broker!ResolvePublicAddresses(input.some, input.of) = "ok"
               <=> input.some # {} /\ \A a \in input.some : ~Special(a, input.of)
    BY <2>1, <2>2, SMTT(10) DEF Broker!ResolvePublicAddresses
  <2>3. OnlyPublicAddresses
        <=> (input.of \in {"v4", "v6"} =>
                (Broker!ResolvePublicAddresses(input.some, input.of) = "ok"
                 <=> input.some # {} /\ \A a \in input.some : ~Special(a, input.of)))
    BY SMTT(10) DEF OnlyPublicAddresses, Special
  <2> QED
    BY <2>2, <2>3, Zenon
<1> QED
  BY <1>1, JudgedAlways, PTL

\* A request that the broker lets through stays below the rule's path prefix,
\* whatever its path and the prefix are (path_is_allowed, has_dangerous_path_segment).
THEOREM BelowPrefix == AlgorithmsSpec => []PathStaysBelowPrefix
<1>1. Judged => PathStaysBelowPrefix
  BY PathsStayBelow, Zenon DEF Judged, PathStaysBelowPrefix
<1> QED
  BY <1>1, JudgedAlways, PTL

Total(chunks) == FoldLeft(LAMBDA a, b : a + b, 0, chunks)

\* A response of status 200 is passed on exactly if it is short enough and holds no
\* credential, whatever is sent and however it is cut (read_bounded,
\* response_contains_credential).
LEMMA PassedOn ==
  ASSUME NEW body \in Seq(STRING), NEW chunks \in Seq(Nat), NEW announced \in Nat
  PROVE  Broker!ResponseError(Sent(body, chunks, announced), Limit) = "ok"
         <=> /\ announced <= Limit
             /\ Total(chunks) <= Limit
             /\ ~Hidden(body)
<1> DEFINE w == Sent(body, chunks, announced)
           read == Broker!Buffered(chunks, Limit)
           size == Total(chunks)
<1>1. /\ w.status = 200 /\ w.type = "text" /\ w.utf8 = TRUE /\ w.echoes = TRUE
      /\ w.body = body /\ w.chunks = chunks /\ w.announced = announced
  BY SMTT(10) DEF Sent
<1>2. size \in Nat /\ (read.ended <=> size > Limit) /\ Limit \in Nat
  BY ReadEnds, ResponseAssumption, Zenon DEF Total
<1>3. Broker!ResponseError(w, Limit) = "ok"
      <=> ~ \/ w.status \in 300 .. 399
            \/ w.status \notin 200 .. 299
            \/ w.type = "other"
            \/ w.announced > Limit
            \/ Broker!Buffered(w.chunks, Limit).ended
            \/ Broker!Buffered(w.chunks, Limit).size > 0 /\ w.type = "none"
            \/ w.echoes /\ Broker!ResponseContainsCredential(w.body)
            \/ ~w.utf8
  <2> DEFINE l == << <<w.status \in 300 .. 399, "redirect">>,
                     <<w.status \notin 200 .. 299, "provider_rejected">>,
                     <<w.type = "other", "type">>,
                     <<w.announced > Limit, "too_large">>,
                     <<Broker!Buffered(w.chunks, Limit).ended, "too_large">>,
                     <<Broker!Buffered(w.chunks, Limit).size > 0 /\ w.type = "none", "type">>,
                     <<w.echoes /\ Broker!ResponseContainsCredential(w.body), "echo">>,
                     <<~w.utf8, "encoding">> >>
  <2> HIDE DEF w
  <2>1. Broker!ResponseError(w, Limit) = Broker!FirstError(l)
    BY Zenon DEF Broker!ResponseError
  <2>2. DOMAIN l = 1 .. 8
    OBVIOUS
  <2>3. \A i \in 1 .. 8 : l[i][2] # "ok"
    OBVIOUS
  <2>4. /\ l[1][1] <=> w.status \in 300 .. 399
        /\ l[2][1] <=> w.status \notin 200 .. 299
        /\ l[3][1] <=> w.type = "other"
        /\ l[4][1] <=> w.announced > Limit
    OBVIOUS
  <2>5. /\ l[5][1] <=> Broker!Buffered(w.chunks, Limit).ended
        /\ l[6][1] <=> Broker!Buffered(w.chunks, Limit).size > 0 /\ w.type = "none"
        /\ l[7][1] <=> w.echoes /\ Broker!ResponseContainsCredential(w.body)
        /\ l[8][1] <=> ~w.utf8
    OBVIOUS
  <2> HIDE DEF l
  <2>6. Broker!FirstError(l) = "ok" <=> \A i \in 1 .. 8 : ~l[i][1]
    BY <2>2, <2>3, NoFailure, Zenon
  <2>7. 1 .. 8 = {1, 2, 3, 4, 5, 6, 7, 8}
    OBVIOUS
  <2>8. (\A i \in 1 .. 8 : ~l[i][1])
        <=> ~ (l[1][1] \/ l[2][1] \/ l[3][1] \/ l[4][1] \/ l[5][1] \/ l[6][1] \/ l[7][1] \/ l[8][1])
    BY <2>7, Zenon
  <2>9. Broker!ResponseError(w, Limit) = "ok"
        <=> ~ (l[1][1] \/ l[2][1] \/ l[3][1] \/ l[4][1] \/ l[5][1] \/ l[6][1] \/ l[7][1] \/ l[8][1])
    BY <2>1, <2>6, <2>8, Zenon
  <2> QED
    BY <2>4, <2>5, <2>9
<1>4. 200 \notin 300 .. 399 /\ 200 \in 200 .. 299 /\ "text" # "other" /\ "text" # "none"
  OBVIOUS
<1> HIDE DEF w, read, size
<1>5. Broker!ResponseError(w, Limit) = "ok"
      <=> ~ (announced > Limit \/ read.ended \/ Broker!ResponseContainsCredential(body))
  BY <1>1, <1>3, <1>4, Zenon DEF read
<1>6. (~(announced > Limit) <=> announced <= Limit) /\ (~(size > Limit) <=> size <= Limit)
  BY <1>2
<1>7. Broker!ResponseContainsCredential(body) <=> Hidden(body)
  BY FindsHidden, Zenon
<1> QED
  BY <1>2, <1>5, <1>6, <1>7, Zenon DEF size, w

\* So it is for every response that is picked.
THEOREM NothingPasses == AlgorithmsSpec => []NothingEchoed
<1>1. ASSUME Judged PROVE NothingEchoed
  <2>1. SUFFICES ASSUME input.of = "response"
                 PROVE  Broker!ResponseError(input, Limit) = "ok"
                        <=> /\ input.announced <= Limit
                            /\ Total(input.chunks) <= Limit
                            /\ ~Hidden(input.body)
    BY Zenon DEF NothingEchoed, Hidden, Peels, Total
  <2>2. PICK body \in Seq(STRING), chunks \in Seq(Nat), announced \in Nat :
            input = Sent(body, chunks, announced)
    BY <1>1, <2>1, Zenon DEF Judged
  <2>3. input.body = body /\ input.chunks = chunks /\ input.announced = announced
    BY <2>2, SMTT(10) DEF Sent
  <2>4. Broker!ResponseError(Sent(body, chunks, announced), Limit) = "ok"
        <=> announced <= Limit /\ Total(chunks) <= Limit /\ ~Hidden(body)
    BY PassedOn, Zenon
  <2> QED
    BY <2>2, <2>3, <2>4, Zenon
<1> QED
  BY <1>1, JudgedAlways, PTL
=============================================================================
