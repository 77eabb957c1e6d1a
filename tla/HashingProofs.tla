--------------------------- MODULE HashingProofs ---------------------------
(***************************************************************************)
(* Proofs about the incremental hasher, the hexadecimal reader that feeds  *)
(* it, and PBKDF2 on top of HMAC: for every block size and length field,   *)
(* every way of cutting a message into pieces, every size of the decoding  *)
(* array, and every hash function of this form, password, salt and count.  *)
(***************************************************************************)
EXTENDS Sha256Stream, HexDigest, Pbkdf2, SequenceTheorems, FiniteSetTheorems,
        WellFoundedInduction, TLAPS


-----------------------------------------------------------------------------
(* Arithmetic of blocks *)

\* The only remainder of q * B + r with r below B is r.
LEMMA Remainder ==
  ASSUME NEW q \in Int, NEW r \in 0..(B - 1)
  PROVE  (q * B + r) % B = r
BY BlockAssumption, SMT

\* A multiple of the block size, plus r, leaves r.
LEMMA MultiplePlus ==
  ASSUME NEW m \in Nat, Aligned(m), NEW r \in 0..(B - 1)
  PROVE  (m + r) % B = r
<1>1. m \div B \in Int /\ m = (m \div B) * B
  BY BlockAssumption, SMT DEF Aligned
<1>2. ((m \div B) * B + r) % B = r
  BY <1>1, Remainder
<1> QED  BY <1>1, <1>2

\* Sums of multiples of the block size are multiples of it.
LEMMA MultiplesAdd ==
  ASSUME NEW m \in Nat, NEW n \in Nat, Aligned(m), Aligned(n)
  PROVE  Aligned(m + n)
<1>1. m \div B \in Int /\ m = (m \div B) * B
  BY BlockAssumption, SMT DEF Aligned
<1>2. n \div B \in Int /\ n = (n \div B) * B
  BY BlockAssumption, SMT DEF Aligned
<1>3. m + n = (m \div B + n \div B) * B + 0
  BY <1>1, <1>2, BlockAssumption, SMT
<1>4. ((m \div B + n \div B) * B + 0) % B = 0
  BY <1>1, <1>2, Remainder, BlockAssumption
<1> QED  BY <1>3, <1>4 DEF Aligned

\* A block is one.
LEMMA BlockAligned == Aligned(B)
BY BlockAssumption, SMT DEF Aligned

\* Whole(size) is the largest multiple of the block size up to size.
LEMMA WholeProperties ==
  ASSUME NEW size \in Nat
  PROVE  /\ Whole(size) \in 0..size
         /\ Aligned(Whole(size))
         /\ size - Whole(size) \in 0..(B - 1)
BY BlockAssumption, SMT DEF Whole, Aligned

-----------------------------------------------------------------------------
(* Blocks and buffers *)

\* The octets of the padding are bytes.
LEMMA OctetsAreBytes == Zero \in Byte /\ Terminator \in Byte
BY OctetAssumption DEF Zero, Terminator

\* The length field is a sequence of L bytes.
LEMMA LengthFieldType ==
  ASSUME NEW n \in Nat
  PROVE  LengthField(n) \in Seq(Byte) /\ Len(LengthField(n)) = L
<1>1. ASSUME NEW i \in 1..L
      PROVE  Octet(((8 * n) \div (256 ^ (L - i))) % 256) \in Byte
  <2>1. 256 ^ (L - i) \in Nat \ {0}
    BY PowerAssumption, BlockAssumption
  <2>2. (8 * n) \div (256 ^ (L - i)) \in Int
    BY <2>1
  <2>3. ((8 * n) \div (256 ^ (L - i))) % 256 \in 0..255
    BY <2>2
  <2> QED  BY <2>3, OctetAssumption
<1>2. LengthField(n) \in [1..L -> Byte]
  BY <1>1 DEF LengthField
<1> QED  BY <1>2, BlockAssumption

\* A block is a sequence of B bytes.
LEMMA BlockIsSeq ==
  ASSUME NEW b \in [1..B -> Byte]
  PROVE  b \in Seq(Byte) /\ Len(b) = B
BY BlockAssumption

\* memcpy and memset leave the buffer a block.
LEMMA CopyIntoType ==
  ASSUME NEW b \in [1..B -> Byte], NEW at \in Nat, NEW data \in Seq(Byte)
  PROVE  CopyInto(b, at, data) \in [1..B -> Byte]
BY BlockAssumption DEF CopyInto

\* memset leaves the buffer a block.
LEMMA ZeroFromType ==
  ASSUME NEW b \in [1..B -> Byte], NEW at \in Nat
  PROVE  ZeroFrom(b, at) \in [1..B -> Byte]
BY BlockAssumption, OctetsAreBytes DEF ZeroFrom

\* What a buffer holds after memcpy to the end of its used part: the used
\* part and the data.
LEMMA CopyIntoExtends ==
  ASSUME NEW b \in [1..B -> Byte], NEW at \in Nat, NEW data \in Seq(Byte),
         at + Len(data) <= B
  PROVE  SubSeq(CopyInto(b, at, data), 1, at + Len(data))
           = SubSeq(b, 1, at) \o data
<1> DEFINE c == CopyInto(b, at, data)
           left == SubSeq(c, 1, at + Len(data))
           used == SubSeq(b, 1, at)
<1>1. c \in Seq(Byte) /\ Len(c) = B
  BY CopyIntoType, BlockIsSeq
<1>2. b \in Seq(Byte) /\ Len(b) = B
  BY BlockIsSeq
<1>3. /\ left \in Seq(Byte)
      /\ Len(left) = at + Len(data)
      /\ \A i \in 1..(at + Len(data)) : left[i] = c[i]
  BY <1>1, BlockAssumption
<1>4. /\ used \in Seq(Byte)
      /\ Len(used) = at
      /\ \A i \in 1..at : used[i] = b[i]
  BY <1>2, BlockAssumption
<1>5. /\ used \o data \in Seq(Byte)
      /\ Len(used \o data) = at + Len(data)
      /\ \A i \in 1..(at + Len(data)) :
           (used \o data)[i] = IF i <= at THEN b[i] ELSE data[i - at]
  BY <1>4
<1>6. \A i \in 1..(at + Len(data)) :
        c[i] = IF i <= at THEN b[i] ELSE data[i - at]
  BY BlockAssumption DEF CopyInto
<1> QED  BY <1>3, <1>5, <1>6, SeqEqual

-----------------------------------------------------------------------------
(* update() *)

\* Concatenation of byte sequences is associative.
LEMMA Regroup ==
  ASSUME NEW s \in Seq(Byte), NEW w \in Seq(Byte), NEW u \in Seq(Byte)
  PROVE  (s \o w) \o u = s \o (w \o u)
BY ConcatAssociative

\* Two adjacent parts at the end of a sequence make one.
LEMMA AdjacentParts ==
  ASSUME NEW data \in Seq(Byte), NEW z \in 0..Len(data),
         NEW k \in z..Len(data)
  PROVE  SubSeq(data, z + 1, k) \o SubSeq(data, k + 1, Len(data))
           = SubSeq(data, z + 1, Len(data))
<1> DEFINE m == z + 1
<1>1. m \in 1..(Len(data) + 1) /\ k \in (m - 1)..Len(data)
  OBVIOUS
<1>2. Len(data) \in k..Len(data)
  OBVIOUS
<1> HIDE DEF m
<1>3. SubSeq(data, m, k) \o SubSeq(data, k + 1, Len(data))
        = SubSeq(data, m, Len(data))
  BY <1>1, <1>2, ConcatAdjacentSubSeq
<1> QED  BY <1>3 DEF m

\* The parts update() cuts the data into make up the data.
LEMMA PartsOfData ==
  ASSUME NEW data \in Seq(Byte), NEW take \in 0..Len(data),
         NEW whole \in 0..(Len(data) - take)
  PROVE  /\ SubSeq(data, 1, take) \in Seq(Byte)
         /\ Len(SubSeq(data, 1, take)) = take
         /\ SubSeq(data, take + 1, take + whole) \in Seq(Byte)
         /\ Len(SubSeq(data, take + 1, take + whole)) = whole
         /\ SubSeq(data, take + whole + 1, Len(data)) \in Seq(Byte)
         /\ Len(SubSeq(data, take + whole + 1, Len(data)))
              = Len(data) - take - whole
         /\ data = SubSeq(data, 1, take)
                     \o (SubSeq(data, take + 1, take + whole)
                           \o SubSeq(data, take + whole + 1, Len(data)))
<1> DEFINE p == take + whole
<1>1. p \in take..Len(data) /\ 0 \in 0..Len(data) /\ 0 + 1 = 1
  OBVIOUS
<1>2. SubSeq(data, take + 1, p) \o SubSeq(data, p + 1, Len(data))
          = SubSeq(data, take + 1, Len(data))
  <2> HIDE DEF p
  <2> QED  BY <1>1, AdjacentParts
<1>3. SubSeq(data, 0 + 1, take) \o SubSeq(data, take + 1, Len(data))
        = SubSeq(data, 0 + 1, Len(data))
  BY <1>1, AdjacentParts, Zenon
<1>4. SubSeq(data, 1, Len(data)) = data
  BY SubSeqFull
<1>5. /\ SubSeq(data, 1, take) \in Seq(Byte)
      /\ Len(SubSeq(data, 1, take)) = take
  OBVIOUS
<1>6. /\ SubSeq(data, take + 1, take + whole) \in Seq(Byte)
      /\ Len(SubSeq(data, take + 1, take + whole)) = whole
  OBVIOUS
<1>7. /\ SubSeq(data, take + whole + 1, Len(data)) \in Seq(Byte)
      /\ Len(SubSeq(data, take + whole + 1, Len(data)))
           = Len(data) - take - whole
  OBVIOUS
<1>8. data = SubSeq(data, 1, take)
               \o (SubSeq(data, take + 1, p) \o SubSeq(data, p + 1, Len(data)))
  BY <1>1, <1>2, <1>3, <1>4, Zenon
<1> QED  BY <1>5, <1>6, <1>7, <1>8, Zenon

\* The used part of a buffer.
LEMMA UsedPart ==
  ASSUME NEW b \in [1..B -> Byte], NEW n \in 0..B
  PROVE  SubSeq(b, 1, n) \in Seq(Byte) /\ Len(SubSeq(b, 1, n)) = n
BY BlockIsSeq, BlockAssumption

\* What the parts of a hasher are, and the bytes it stands for.
LEMMA HasherParts ==
  ASSUME NEW g \in Hasher
  PROVE  /\ g.state \in Seq(Byte)
         /\ g.buffer \in [1..B -> Byte]
         /\ g.length \in Nat
         /\ g.buffered \in 0..(B - 1)
         /\ SubSeq(g.buffer, 1, g.buffered) \in Seq(Byte)
         /\ Len(SubSeq(g.buffer, 1, g.buffered)) = g.buffered
         /\ Content(g) \in Seq(Byte)
         /\ Len(Content(g)) = Len(g.state) + g.buffered
<1>1. /\ g.state \in Seq(Byte)
      /\ g.buffer \in [1..B -> Byte]
      /\ g.length \in Nat
      /\ g.buffered \in 0..(B - 1)
  BY DEF Hasher
<1>2. g.buffered \in 0..B
  BY <1>1, BlockAssumption
<1>3. /\ SubSeq(g.buffer, 1, g.buffered) \in Seq(Byte)
      /\ Len(SubSeq(g.buffer, 1, g.buffered)) = g.buffered
  BY <1>1, <1>2, UsedPart
<1> QED  BY <1>1, <1>3, ConcatProperties DEF Content

\* update() has room for what it takes, and what it takes completes the block
\* or is all of the data.
LEMMA TakeProperties ==
  ASSUME NEW g \in Hasher, NEW data \in Seq(Byte)
  PROVE  /\ Take(g, data) \in 0..Len(data)
         /\ g.buffered + Take(g, data) <= B
         /\ g.buffered = 0 => Take(g, data) = 0
         /\ g.buffered # 0 /\ g.buffered + Take(g, data) < B
              => Take(g, data) = Len(data)
<1>1. g.buffered \in 0..(B - 1)
  BY DEF Hasher
<1> QED  BY <1>1, BlockAssumption DEF Take

\* A block that is begun and the part of the data that update() takes.
LEMMA JoinedProperties ==
  ASSUME NEW g \in Hasher, NEW first \in Seq(Byte),
         g.buffered + Len(first) <= B
  PROVE  /\ CopyInto(g.buffer, g.buffered, first) \in [1..B -> Byte]
         /\ SubSeq(CopyInto(g.buffer, g.buffered, first),
                   1, g.buffered + Len(first))
              = SubSeq(g.buffer, 1, g.buffered) \o first
<1>1. g.buffer \in [1..B -> Byte] /\ g.buffered \in Nat
  BY HasherParts
<1> QED  BY <1>1, CopyIntoType, CopyIntoExtends

\* Case 1: the data does not complete the block that is begun.
LEMMA UpdateShort ==
  ASSUME NEW g \in Hasher, NEW data \in Seq(Byte),
         g.buffered # 0, g.buffered + Take(g, data) < B, data # <<>>
  PROVE  /\ Update(g, data) \in Hasher
         /\ Update(g, data).length = g.length + Len(data)
         /\ Update(g, data).state = g.state
         /\ Content(Update(g, data)) = Content(g) \o data
<1> DEFINE joined == CopyInto(g.buffer, g.buffered, data)
           used   == SubSeq(g.buffer, 1, g.buffered)
<1>1. Take(g, data) = Len(data)
  BY TakeProperties
<1>2. SubSeq(data, 1, Take(g, data)) = data
  BY <1>1, SubSeqFull
<1>3. Update(g, data)
        = [state |-> g.state, buffer |-> joined,
           length |-> g.length + Len(data), buffered |-> g.buffered + Len(data)]
  BY <1>1, <1>2 DEF Update, Hasher
<1>4. /\ joined \in [1..B -> Byte]
      /\ SubSeq(joined, 1, g.buffered + Len(data)) = used \o data
  BY <1>1, JoinedProperties, TakeProperties
<1>5. /\ g.state \in Seq(Byte)
      /\ g.buffered \in 0..(B - 1)
      /\ g.length \in Nat
      /\ used \in Seq(Byte)
  BY HasherParts
<1>6. Len(data) \in Nat /\ g.buffered + Len(data) \in 0..(B - 1)
  BY <1>1, <1>5, BlockAssumption
<1> HIDE DEF joined, used
<1>7. /\ Update(g, data).state = g.state
      /\ Update(g, data).buffer = joined
      /\ Update(g, data).buffered = g.buffered + Len(data)
      /\ Update(g, data).length = g.length + Len(data)
  BY <1>3
<1>8. Update(g, data) \in Hasher
  BY <1>3, <1>4, <1>5, <1>6 DEF Hasher
<1>9. Content(Update(g, data)) = g.state \o (used \o data)
  BY <1>7, <1>4 DEF Content
<1>10. Content(g) = g.state \o used
  BY DEF Content, used
<1>11. (g.state \o used) \o data = g.state \o (used \o data)
  BY <1>5, Regroup, ZenonT(120)
<1> QED  BY <1>7, <1>8, <1>9, <1>10, <1>11, Zenon

\* Case 2: the block that is begun, if any, is completed and absorbed, then
\* whole blocks of the data; the rest begins a block.
LEMMA UpdateLong ==
  ASSUME NEW g \in Hasher, NEW data \in Seq(Byte), Aligned(Len(g.state)),
         ~(g.buffered # 0 /\ g.buffered + Take(g, data) < B), data # <<>>
  PROVE  /\ Update(g, data) \in Hasher
         /\ Update(g, data).length = g.length + Len(data)
         /\ Aligned(Len(Update(g, data).state))
         /\ Content(Update(g, data)) = Content(g) \o data
<1> DEFINE take   == Take(g, data)
           first  == SubSeq(data, 1, take)
           joined == CopyInto(g.buffer, g.buffered, first)
           size   == Len(data) - take
           whole  == Whole(size)
           direct == SubSeq(data, take + 1, take + whole)
           rest   == SubSeq(data, take + whole + 1, Len(data))
           begun  == IF g.buffered = 0 THEN g.state
                     ELSE Compress(g.state, joined)
           last   == CopyInto(joined, 0, rest)
           used   == SubSeq(g.buffer, 1, g.buffered)
           u      == Update(g, data)
<1>1. u = [state |-> Compress(begun, direct), buffer |-> last,
           buffered |-> size - whole, length |-> g.length + Len(data)]
  BY DEF Update
<1>2. take \in 0..Len(data) /\ size \in Nat
  BY TakeProperties
<1>3. whole \in 0..size /\ Aligned(whole) /\ size - whole \in 0..(B - 1)
  BY <1>2, WholeProperties
<1>4. /\ first \in Seq(Byte)
      /\ Len(first) = take
      /\ direct \in Seq(Byte)
      /\ Len(direct) = whole
      /\ rest \in Seq(Byte)
      /\ Len(rest) = size - whole
      /\ data = first \o (direct \o rest)
  BY <1>2, <1>3, PartsOfData, ZenonT(120)
<1>5. /\ g.state \in Seq(Byte)
      /\ used \in Seq(Byte)
      /\ g.length \in Nat
      /\ g.buffered \in 0..(B - 1)
      /\ Len(used) = g.buffered
  BY HasherParts
<1>6. /\ joined \in [1..B -> Byte]
      /\ SubSeq(joined, 1, g.buffered + Len(first)) = used \o first
  BY <1>4, TakeProperties, JoinedProperties
<1>7. joined \in Seq(Byte) /\ Len(joined) = B
  BY <1>6, BlockIsSeq
<1>8. begun = g.state \o (used \o first)
  <2>1. CASE g.buffered = 0
    <3>1. take = 0
      BY <2>1, TakeProperties
    <3>2. used = <<>> /\ first = <<>>
      BY <3>1, <2>1, SubSeqEmpty
    <3>3. begun = g.state
      BY <2>1
    <3>4. g.state \o (<<>> \o <<>>) = g.state
      BY <1>5, ConcatEmptySeq
    <3> QED  BY <3>2, <3>3, <3>4, Zenon
  <2>2. CASE g.buffered # 0
    <3>1. g.buffered + Len(first) = B
      <4>1. g.buffered + take <= B /\ ~(g.buffered + take < B)
        BY <2>2, TakeProperties
      <4>2. g.buffered + take = B
        <5> HIDE DEF take
        <5> QED  BY <4>1, <1>2, <1>5, BlockAssumption, SMTT(60)
      <4> QED  BY <4>2, <1>4
    <3>2. SubSeq(joined, 1, B) = joined
      BY <1>7, SubSeqFull
    <3>3. begun = g.state \o joined
      BY <2>2 DEF Compress
    <3> QED  BY <3>1, <3>2, <3>3, <1>6
  <2> QED  BY <2>1, <2>2
<1>9. Aligned(Len(begun)) /\ begun \in Seq(Byte)
  <2>1. CASE g.buffered = 0
    BY <2>1, <1>5
  <2>2. CASE g.buffered # 0
    <3>1. begun = g.state \o joined
      BY <2>2 DEF Compress
    <3>2. Len(begun) = Len(g.state) + B /\ begun \in Seq(Byte)
      BY <3>1, <1>5, <1>7, ConcatProperties, ZenonT(120)
    <3>3. Len(g.state) \in Nat /\ B \in Nat
      BY <1>5, BlockAssumption
    <3>4. Aligned(Len(g.state) + B)
      BY <3>3, BlockAligned, MultiplesAdd, Zenon
    <3> QED  BY <3>2, <3>4
  <2> QED  BY <2>1, <2>2
<1>10. /\ last \in [1..B -> Byte]
       /\ SubSeq(last, 1, Len(rest)) = rest
  <2>1. 0 + Len(rest) <= B /\ 0 \in Nat
    BY <1>3, <1>4, BlockAssumption
  <2>2. last \in [1..B -> Byte]
    BY <1>4, <1>6, <2>1, CopyIntoType
  <2>3. SubSeq(last, 1, 0 + Len(rest)) = SubSeq(joined, 1, 0) \o rest
    BY <1>4, <1>6, <2>1, CopyIntoExtends
  <2>4. SubSeq(joined, 1, 0) = <<>> /\ 0 + Len(rest) = Len(rest)
    BY <1>4, SubSeqEmpty
  <2> QED  BY <2>2, <2>3, <2>4, <1>4, ConcatEmptySeq
<1>11. begun \o direct \in Seq(Byte) /\ Aligned(Len(begun \o direct))
  <2>1. Len(begun \o direct) = Len(begun) + whole /\ begun \o direct \in Seq(Byte)
    BY <1>9, <1>4, ConcatProperties
  <2>2. Len(begun) \in Nat /\ whole \in Nat
    BY <1>9, <1>3, <1>2
  <2>3. Aligned(Len(begun) + whole)
    BY <2>2, <1>9, <1>3, MultiplesAdd, Zenon
  <2> QED  BY <2>1, <2>3
<1> HIDE DEF take, first, joined, size, whole, direct, rest, begun, last,
             used, u
<1>12. /\ u.state = begun \o direct
       /\ u.buffer = last
       /\ u.buffered = size - whole
       /\ u.length = g.length + Len(data)
  BY <1>1 DEF Compress
<1>13. u \in Hasher
  BY <1>1, <1>12, <1>3, <1>5, <1>10, <1>11 DEF Hasher, Compress
<1>14. Content(u) = (begun \o direct) \o rest
  BY <1>12, <1>10, <1>4 DEF Content
<1>15. Content(g) = g.state \o used
  BY DEF Content, used
<1>16. (begun \o direct) \o rest = begun \o (direct \o rest)
  BY <1>4, <1>9, Regroup, ZenonT(120)
<1>17. direct \o rest \in Seq(Byte) /\ used \o first \in Seq(Byte)
  BY <1>4, <1>5, ConcatProperties
<1>18. begun = (g.state \o used) \o first
  BY <1>8, <1>5, <1>4, Regroup, ZenonT(120)
<1>19. g.state \o used \in Seq(Byte)
  BY <1>5, ConcatProperties
<1>20. ((g.state \o used) \o first) \o (direct \o rest)
         = (g.state \o used) \o (first \o (direct \o rest))
  BY <1>17, <1>19, <1>4, Regroup, ZenonT(120)
<1>21. Content(u) = Content(g) \o data
  BY <1>4, <1>14, <1>15, <1>16, <1>18, <1>20, Zenon
<1> QED  BY <1>11, <1>12, <1>13, <1>21 DEF u

\* What update() does to a hasher: the bytes it stands for grow by the data,
\* whatever part of a block was begun before.
LEMMA UpdateExtends ==
  ASSUME NEW g \in Hasher, NEW data \in Seq(Byte), Aligned(Len(g.state))
  PROVE  /\ Update(g, data) \in Hasher
         /\ Update(g, data).length = g.length + Len(data)
         /\ Aligned(Len(Update(g, data).state))
         /\ Content(Update(g, data)) = Content(g) \o data
<1>1. CASE data = <<>>
  <2>1. Update(g, data) = g
    BY <1>1 DEF Update
  <2>2. Content(g) \o <<>> = Content(g)
    BY HasherParts, ConcatEmptySeq
  <2>3. g.length + Len(<<>>) = g.length
    BY HasherParts
  <2> QED  BY <1>1, <2>1, <2>2, <2>3
<1>2. CASE data # <<>> /\ g.buffered # 0 /\ g.buffered + Take(g, data) < B
  BY <1>2, UpdateShort
<1>3. CASE /\ data # <<>>
           /\ ~(g.buffered # 0 /\ g.buffered + Take(g, data) < B)
  BY <1>3, UpdateLong
<1> QED  BY <1>1, <1>2, <1>3

-----------------------------------------------------------------------------
(* finish() *)

\* The zeros of the padding: they complete the block of the terminator, or the
\* next one when the length field does not fit behind the terminator.
LEMMA ZeroCountValue ==
  ASSUME NEW q \in Nat, Aligned(q), NEW r \in 0..(B - 1)
  PROVE  ZeroCount(q + r) = IF r + 1 > B - L THEN 2 * B - L - r - 1
                                             ELSE B - L - r - 1
<1> DEFINE n == q + r
           z == IF r + 1 > B - L THEN 2 * B - L - r - 1 ELSE B - L - r - 1
<1>1. z \in 0..(B - 1) /\ n \in Nat
  BY BlockAssumption
<1>2. Aligned(n + 1 + z + L)
  <2>1. n + 1 + z + L = q + B \/ n + 1 + z + L = (q + B) + B
    BY BlockAssumption
  <2>2. B \in Nat /\ q + B \in Nat
    BY BlockAssumption
  <2>3. Aligned(q + B)
    BY <2>2, BlockAligned, MultiplesAdd, Zenon
  <2>4. Aligned((q + B) + B)
    BY <2>2, <2>3, BlockAligned, MultiplesAdd, Zenon
  <2> QED  BY <2>1, <2>3, <2>4, Zenon
<1> HIDE DEF n, z
<1>3. ASSUME NEW y \in 0..(B - 1), Aligned(n + 1 + y + L)
      PROVE  y = z
  <2>1. CASE y >= z
    <3>1. /\ y - z \in 0..(B - 1)
          /\ n + 1 + z + L \in Nat
          /\ n + 1 + y + L = (n + 1 + z + L) + (y - z)
      BY <2>1, <1>1, BlockAssumption
    <3>2. ((n + 1 + z + L) + (y - z)) % B = y - z
      BY <3>1, <1>2, MultiplePlus, Zenon
    <3>3. y - z = 0
      BY <3>1, <3>2, <1>3 DEF Aligned
    <3> QED  BY <3>3, <1>1, BlockAssumption
  <2>2. CASE z >= y
    <3>1. /\ z - y \in 0..(B - 1)
          /\ n + 1 + y + L \in Nat
          /\ n + 1 + z + L = (n + 1 + y + L) + (z - y)
      BY <2>2, <1>1, BlockAssumption
    <3>2. ((n + 1 + y + L) + (z - y)) % B = z - y
      BY <3>1, <1>3, MultiplePlus, Zenon
    <3>3. z - y = 0
      BY <3>1, <3>2, <1>2 DEF Aligned
    <3> QED  BY <3>3, <1>1, BlockAssumption
  <2> QED  BY <2>1, <2>2, <1>1, BlockAssumption
<1>4. ZeroCount(n) = z
  <2>1. \A y \in 0..(B - 1) : (n + 1 + y + L) % B = 0 => y = z
    BY <1>3 DEF Aligned
  <2>2. (n + 1 + z + L) % B = 0
    BY <1>2 DEF Aligned
  <2> QED  BY <1>1, <2>1, <2>2, Zenon DEF ZeroCount
<1> QED  BY <1>4 DEF n, z

\* Byte by byte: the padding with z zeros, the block of the terminator behind
\* the used bytes, and a block that ends in the length field.
PaddingIs(pad, z, field) ==
  /\ pad \in Seq(Byte)
  /\ Len(pad) = 1 + z + L
  /\ \A i \in 1..(1 + z + L) : pad[i] = IF i = 1 THEN Terminator
                                        ELSE IF i <= 1 + z THEN Zero
                                        ELSE field[i - (1 + z)]

SpillIs(spill, used, r) ==
  /\ spill \in [1..B -> Byte]
  /\ \A i \in 1..B : spill[i] = IF i <= r THEN used[i]
                                ELSE IF i = r + 1 THEN Terminator ELSE Zero

FullIs(full, field) ==
  /\ full \in [1..B -> Byte]
  /\ \A i \in 1..B : full[i] = IF i <= B - L THEN Zero
                               ELSE field[i - (B - L)]

LastIs(last, spill, field) ==
  /\ last \in [1..B -> Byte]
  /\ \A i \in 1..B : last[i] = IF i <= B - L THEN spill[i]
                               ELSE field[i - (B - L)]

\* The padding, byte by byte.
LEMMA PaddingBytes ==
  ASSUME NEW n \in Nat, NEW z \in Nat, ZeroCount(n) = z
  PROVE  PaddingIs(Padding(n), z, LengthField(n))
<1> DEFINE zeros == [i \in 1..z |-> Zero]
           field == LengthField(n)
           head  == <<Terminator>>
<1>0. zeros \in Seq(Byte) /\ head \in Seq(Byte)
  BY OctetsAreBytes
<1>1. Len(zeros) = z /\ \A i \in 1..z : zeros[i] = Zero
  OBVIOUS
<1>2. field \in Seq(Byte) /\ Len(field) = L /\ L \in Nat
  BY LengthFieldType, BlockAssumption
<1>3. Len(head) = 1 /\ head[1] = Terminator
  OBVIOUS
<1>4. Padding(n) = (head \o zeros) \o field
  BY DEF Padding
<1> HIDE DEF zeros, field, head
<1>5. /\ head \o zeros \in Seq(Byte)
      /\ Len(head \o zeros) = 1 + z
      /\ \A i \in 1..(1 + z) :
           (head \o zeros)[i] = IF i = 1 THEN Terminator ELSE Zero
  <2>1. /\ head \o zeros \in Seq(Byte)
        /\ Len(head \o zeros) = Len(head) + Len(zeros)
        /\ \A i \in 1..(Len(head) + Len(zeros)) :
             (head \o zeros)[i] = IF i <= Len(head) THEN head[i]
                                   ELSE zeros[i - Len(head)]
    BY <1>0, ConcatProperties
  <2>2. ASSUME NEW i \in 1..(1 + z)
        PROVE  (head \o zeros)[i] = IF i = 1 THEN Terminator ELSE Zero
    <3>1. (head \o zeros)[i] = IF i <= 1 THEN head[i] ELSE zeros[i - 1]
      BY <2>1, <1>1, <1>3
    <3> QED  BY <3>1, <1>1, <1>3
  <2> QED  BY <2>1, <2>2, <1>1, <1>3
<1> DEFINE start == head \o zeros
<1> HIDE DEF start
<1>6. /\ start \in Seq(Byte)
      /\ Len(start) = 1 + z
      /\ \A i \in 1..(1 + z) : start[i] = IF i = 1 THEN Terminator ELSE Zero
  BY <1>5 DEF start
<1>7. /\ start \o field \in Seq(Byte)
      /\ Len(start \o field) = 1 + z + L
      /\ \A i \in 1..(1 + z + L) :
           (start \o field)[i] = IF i <= 1 + z THEN start[i]
                                 ELSE field[i - (1 + z)]
  BY <1>2, <1>6
<1>8. \A i \in 1..(1 + z + L) :
        (start \o field)[i] = IF i = 1 THEN Terminator
                              ELSE IF i <= 1 + z THEN Zero
                              ELSE field[i - (1 + z)]
  BY <1>6, <1>7, <1>2
<1> QED  BY <1>4, <1>7, <1>8, Zenon DEF PaddingIs, start, field

\* The blocks finish() absorbs, byte by byte.
LEMMA LastBlock ==
  ASSUME NEW b \in [1..B -> Byte], NEW r \in 0..(B - 1), NEW n \in Nat
  PROVE  LET marked == [b EXCEPT ![r + 1] = Terminator]
             spill  == ZeroFrom(marked, r + 1)
             field  == LengthField(n)
             full   == CopyInto(ZeroFrom(spill, 0), B - L, field)
             last   == CopyInto(spill, B - L, field)
         IN  /\ SpillIs(spill, b, r)
             /\ FullIs(full, field)
             /\ LastIs(last, spill, field)
<1> DEFINE marked == [b EXCEPT ![r + 1] = Terminator]
           spill  == ZeroFrom(marked, r + 1)
           field  == LengthField(n)
           full   == CopyInto(ZeroFrom(spill, 0), B - L, field)
           last   == CopyInto(spill, B - L, field)
<1>1. marked \in [1..B -> Byte]
  BY OctetsAreBytes, BlockAssumption
<1>2. r + 1 \in Nat /\ B - L \in Nat /\ 0 \in Nat
  BY BlockAssumption
<1>3. field \in Seq(Byte) /\ Len(field) = L
  BY LengthFieldType
<1>4. spill \in [1..B -> Byte]
  BY <1>1, <1>2, ZeroFromType
<1>5. ZeroFrom(spill, 0) \in [1..B -> Byte]
  BY <1>2, <1>4, ZeroFromType
<1>6. full \in [1..B -> Byte]
  BY <1>2, <1>3, <1>5, CopyIntoType
<1>7. last \in [1..B -> Byte]
  BY <1>2, <1>3, <1>4, CopyIntoType
<1>8. \A i \in 1..B : spill[i] = IF i <= r THEN b[i]
                                 ELSE IF i = r + 1 THEN Terminator
                                 ELSE Zero
  BY BlockAssumption DEF ZeroFrom
<1> HIDE DEF field
<1>9. \A i \in 1..B : i - (B - L) \in 1..L <=> ~(i <= B - L)
  BY BlockAssumption
<1>10. \A i \in 1..B : last[i] = IF i <= B - L THEN spill[i]
                                 ELSE field[i - (B - L)]
  <2> HIDE DEF spill
  <2> QED  BY <1>3, <1>9, BlockAssumption DEF CopyInto
<1>11. \A i \in 1..B : full[i] = IF i <= B - L THEN Zero
                                 ELSE field[i - (B - L)]
  <2> HIDE DEF spill
  <2> QED  BY <1>3, <1>9, BlockAssumption DEF CopyInto, ZeroFrom
<1>12. SpillIs(spill, b, r)
  BY <1>4, <1>8, Zenon DEF SpillIs
<1>13. FullIs(full, field)
  BY <1>6, <1>11, Zenon DEF FullIs
<1>14. LastIs(last, spill, field)
  BY <1>7, <1>10, Zenon DEF LastIs
<1> QED  BY <1>12, <1>13, <1>14 DEF field

\* The used part of the buffer and the padding are one block when the length
\* field fits behind the terminator.
LEMMA OneBlock ==
  ASSUME NEW used \in Seq(Byte), NEW pad \in Seq(Byte), NEW r \in 0..(B - 1),
         NEW spill, NEW last, NEW field, NEW z,
         ~(r + 1 > B - L), Len(used) = r, z = B - L - r - 1,
         PaddingIs(pad, z, field), SpillIs(spill, used, r),
         LastIs(last, spill, field)
  PROVE  last = used \o pad
<1>a. Len(pad) = 1 + (B - L - r - 1) + L
  BY DEF PaddingIs
<1>b. \A i \in 1..Len(pad) :
        pad[i] = IF i = 1 THEN Terminator
                 ELSE IF i <= 1 + (B - L - r - 1) THEN Zero
                 ELSE field[i - (1 + (B - L - r - 1))]
  BY Zenon DEF PaddingIs
<1>c. \A i \in 1..B : last[i] = IF i <= B - L
                                THEN IF i <= r THEN used[i]
                                     ELSE IF i = r + 1 THEN Terminator
                                     ELSE Zero
                                ELSE field[i - (B - L)]
  BY Zenon DEF LastIs, SpillIs
<1>d. last \in [1..B -> Byte]
  BY DEF LastIs
<1>1. used \o pad \in Seq(Byte) /\ Len(used \o pad) = Len(used) + Len(pad)
  BY ConcatProperties
<1>2. \A i \in 1..(Len(used) + Len(pad)) :
        (used \o pad)[i] = IF i <= Len(used) THEN used[i]
                           ELSE pad[i - Len(used)]
  BY ConcatProperties
<1>3. last \in Seq(Byte) /\ Len(last) = B
  BY <1>d, BlockIsSeq
<1>4. Len(used) + Len(pad) = B
  BY <1>a, BlockAssumption
<1>5. ASSUME NEW i \in 1..B
      PROVE  last[i] = (used \o pad)[i]
  <2>1. CASE i <= r
    BY <2>1, <1>2, <1>4, <1>c, BlockAssumption
  <2>2. CASE i > r
    <3>1. i - r \in 1..Len(pad) /\ (used \o pad)[i] = pad[i - r]
      BY <2>2, <1>2, <1>4, BlockAssumption
    <3>2. i - r - (1 + (B - L - r - 1)) = i - (B - L)
      BY BlockAssumption
    <3>3. pad[i - r] = IF i - r = 1 THEN Terminator
                       ELSE IF i - r <= 1 + (B - L - r - 1) THEN Zero
                       ELSE field[i - (B - L)]
      BY <3>1, <3>2, <1>b
    <3>4. last[i] = IF i <= B - L
                    THEN IF i = r + 1 THEN Terminator ELSE Zero
                    ELSE field[i - (B - L)]
      BY <2>2, <1>c
    <3>5. i - r = 1 => i <= B - L
      BY BlockAssumption
    <3>6. i - r = 1 <=> i = r + 1
      OBVIOUS
    <3>7. i - r <= 1 + (B - L - r - 1) <=> i <= B - L
      BY BlockAssumption
    <3>8. CASE i - r = 1
      BY <3>8, <3>1, <3>3, <3>4, <3>5, <3>6, Zenon
    <3>9. CASE ~(i - r = 1) /\ i <= B - L
      BY <3>9, <3>1, <3>3, <3>4, <3>6, <3>7, Zenon
    <3>10. CASE ~(i - r = 1) /\ ~(i <= B - L)
      BY <3>10, <3>1, <3>3, <3>4, <3>7, Zenon
    <3> QED  BY <3>8, <3>9, <3>10
  <2>3. i <= r \/ i > r
    OBVIOUS
  <2> QED  BY <2>1, <2>2, <2>3, Zenon
<1>6. Len(last) = Len(used \o pad)
  BY <1>1, <1>3, <1>4
<1>7. \A i \in 1..Len(last) : last[i] = (used \o pad)[i]
  BY <1>3, <1>5
<1> QED  BY <1>1, <1>3, <1>6, <1>7, SeqEqual, Zenon

\* They are two blocks when it does not.
LEMMA TwoBlocks ==
  ASSUME NEW used \in Seq(Byte), NEW pad \in Seq(Byte), NEW r \in 0..(B - 1),
         NEW spill, NEW full, NEW field, NEW z,
         r + 1 > B - L, Len(used) = r, z = 2 * B - L - r - 1,
         PaddingIs(pad, z, field), SpillIs(spill, used, r), FullIs(full, field)
  PROVE  spill \o full = used \o pad
<1>a. Len(pad) = 1 + (2 * B - L - r - 1) + L
  BY DEF PaddingIs
<1>b. \A i \in 1..Len(pad) :
        pad[i] = IF i = 1 THEN Terminator
                 ELSE IF i <= 1 + (2 * B - L - r - 1) THEN Zero
                 ELSE field[i - (1 + (2 * B - L - r - 1))]
  BY Zenon DEF PaddingIs
<1>c. spill \in [1..B -> Byte] /\ full \in [1..B -> Byte]
  BY DEF SpillIs, FullIs
<1>d. \A i \in 1..B : spill[i] = IF i <= r THEN used[i]
                                 ELSE IF i = r + 1 THEN Terminator ELSE Zero
  BY DEF SpillIs
<1>e. \A i \in 1..B : full[i] = IF i <= B - L THEN Zero
                                ELSE field[i - (B - L)]
  BY DEF FullIs
<1>1. used \o pad \in Seq(Byte) /\ Len(used \o pad) = Len(used) + Len(pad)
  BY ConcatProperties
<1>2. \A i \in 1..(Len(used) + Len(pad)) :
        (used \o pad)[i] = IF i <= Len(used) THEN used[i]
                           ELSE pad[i - Len(used)]
  BY ConcatProperties
<1>3. /\ spill \in Seq(Byte)
      /\ full \in Seq(Byte)
      /\ Len(spill) = B
      /\ Len(full) = B
  BY <1>c, BlockIsSeq
<1>4. /\ spill \o full \in Seq(Byte)
      /\ Len(spill \o full) = Len(spill) + Len(full)
      /\ \A i \in 1..(Len(spill) + Len(full)) :
           (spill \o full)[i] = IF i <= Len(spill) THEN spill[i]
                                ELSE full[i - Len(spill)]
  BY <1>3, ConcatProperties
<1>5. Len(used) + Len(pad) = B + B
  BY <1>a, BlockAssumption
<1>6. ASSUME NEW i \in 1..(B + B)
      PROVE  (spill \o full)[i] = (used \o pad)[i]
  <2>1. CASE i <= r
    BY <2>1, <1>2, <1>3, <1>4, <1>5, <1>d, BlockAssumption
  <2>2. CASE i > r
    <3>1. i - r \in 1..Len(pad) /\ (used \o pad)[i] = pad[i - r]
      BY <2>2, <1>2, <1>5, BlockAssumption
    <3>2. i - r - (1 + (2 * B - L - r - 1)) = (i - B) - (B - L)
      BY BlockAssumption
    <3>3. pad[i - r] = IF i - r = 1 THEN Terminator
                       ELSE IF i - r <= 1 + (2 * B - L - r - 1) THEN Zero
                       ELSE field[(i - B) - (B - L)]
      BY <3>1, <3>2, <1>b
    <3>4. i - r = 1 <=> i = r + 1
      OBVIOUS
    <3>5. CASE i <= B
      <4>1. (spill \o full)[i] = spill[i]
        BY <3>5, <1>3, <1>4
      <4>2. spill[i] = IF i = r + 1 THEN Terminator ELSE Zero
        BY <2>2, <3>5, <1>d
      <4>3. i - r <= 1 + (2 * B - L - r - 1)
        BY <3>5, BlockAssumption
      <4> QED  BY <3>1, <3>3, <3>4, <4>1, <4>2, <4>3, Zenon
    <3>6. CASE i > B
      <4>1. i - B \in 1..B /\ (spill \o full)[i] = full[i - B]
        BY <3>6, <1>3, <1>4, BlockAssumption
      <4>2. full[i - B] = IF i - B <= B - L THEN Zero
                          ELSE field[(i - B) - (B - L)]
        BY <4>1, <1>e
      <4>3. ~(i - r = 1)
        BY <3>6, BlockAssumption
      <4>4. i - r <= 1 + (2 * B - L - r - 1) <=> i - B <= B - L
        BY BlockAssumption
      <4>5. CASE i - B <= B - L
        BY <4>5, <3>1, <3>3, <4>1, <4>2, <4>3, <4>4, Zenon
      <4>6. CASE ~(i - B <= B - L)
        BY <4>6, <3>1, <3>3, <4>1, <4>2, <4>3, <4>4, Zenon
      <4> QED  BY <4>5, <4>6
    <3>7. i <= B \/ i > B
      BY BlockAssumption
    <3> QED  BY <3>5, <3>6, <3>7, Zenon
  <2>3. i <= r \/ i > r
    BY BlockAssumption
  <2> QED  BY <2>1, <2>2, <2>3, Zenon
<1>7. Len(spill \o full) = Len(used \o pad) /\ Len(spill \o full) = B + B
  BY <1>1, <1>3, <1>4, <1>5
<1>8. \A i \in 1..Len(spill \o full) : (spill \o full)[i] = (used \o pad)[i]
  BY <1>6, <1>7
<1> QED  BY <1>1, <1>4, <1>7, <1>8, SeqEqual, Zenon

\* What finish() does to a hasher: it absorbs the padded message.
LEMMA FinishPads ==
  ASSUME NEW g \in Hasher, Aligned(Len(g.state)), g.length = Len(Content(g))
  PROVE  /\ Finish(g) \in Hasher
         /\ Finish(g).state = Padded(Content(g))
<1> DEFINE r      == g.buffered
           n      == g.length
           marked == [g.buffer EXCEPT ![r + 1] = Terminator]
           spill  == ZeroFrom(marked, r + 1)
           field  == LengthField(n)
           full   == CopyInto(ZeroFrom(spill, 0), B - L, field)
           last   == CopyInto(spill, B - L, field)
           used   == SubSeq(g.buffer, 1, r)
           pad    == Padding(n)
           z      == IF r + 1 > B - L THEN 2 * B - L - r - 1
                     ELSE B - L - r - 1
<1>1. /\ g.state \in Seq(Byte)
      /\ g.buffer \in [1..B -> Byte]
      /\ n \in Nat
      /\ r \in 0..(B - 1)
      /\ used \in Seq(Byte)
      /\ Len(used) = r
      /\ Len(Content(g)) = Len(g.state) + r
  BY HasherParts
<1>2. \A i \in 1..r : used[i] = g.buffer[i]
  BY <1>1, BlockAssumption
<1>3. /\ SpillIs(spill, g.buffer, r)
      /\ FullIs(full, field)
      /\ LastIs(last, spill, field)
  BY <1>1, LastBlock
<1>4. ZeroCount(n) = z
  <2>1. n = Len(g.state) + r /\ Len(g.state) \in Nat
    BY <1>1
  <2> QED  BY <2>1, <1>1, ZeroCountValue
<1>5. z \in Nat
  BY <1>1, BlockAssumption, SMTT(60)
<1> HIDE DEF z
<1>6. PaddingIs(pad, z, field)
  BY <1>1, <1>4, <1>5, PaddingBytes
<1>7. Padded(Content(g)) = (g.state \o used) \o pad
  BY DEF Padded, Content
<1>8. Padded(Content(g)) = g.state \o (used \o pad)
  <2>1. pad \in Seq(Byte)
    BY <1>6, Zenon DEF PaddingIs
  <2> QED  BY <1>1, <2>1, <1>7, Regroup, ZenonT(120)
<1>9. Finish(g) = IF r + 1 > B - L
                  THEN [g EXCEPT !.state = (g.state \o spill) \o full,
                                 !.buffer = full, !.buffered = 0]
                  ELSE [g EXCEPT !.state = g.state \o last,
                                 !.buffer = last, !.buffered = 0]
  BY DEF Finish, Compress
<1> HIDE DEF spill, full, last, used, pad, r, n, field
<1>10. SpillIs(spill, used, r)
  BY <1>1, <1>2, <1>3 DEF SpillIs
<1>11. 0 \in 0..(B - 1)
  BY BlockAssumption
<1>12. CASE r + 1 > B - L
  <2>1. z = 2 * B - L - r - 1
    BY <1>12 DEF z
  <2>2. spill \o full = used \o pad
    <3>1. pad \in Seq(Byte)
      BY <1>6, Zenon DEF PaddingIs
    <3>2. used \in Seq(Byte) /\ r \in 0..(B - 1) /\ Len(used) = r
      BY <1>1
    <3>3. FullIs(full, field)
      BY <1>3
    <3> QED  BY <1>6, <1>10, <1>12, <2>1, <3>1, <3>2, <3>3, TwoBlocks, SMTT(30)
  <2>3. /\ spill \in [1..B -> Byte]
        /\ full \in [1..B -> Byte]
    BY <1>3, Zenon DEF SpillIs, FullIs
  <2>4. spill \in Seq(Byte) /\ full \in Seq(Byte)
    BY <2>3, BlockIsSeq
  <2>5. (g.state \o spill) \o full = g.state \o (spill \o full)
    BY <1>1, <2>4, Regroup, ZenonT(120)
  <2>6. (g.state \o spill) \o full \in Seq(Byte)
    BY <1>1, <2>4, ConcatProperties
  <2>7. Finish(g) = [state |-> (g.state \o spill) \o full, buffer |-> full,
                     length |-> g.length, buffered |-> 0]
    BY <1>9, <1>12 DEF Hasher
  <2>8. Finish(g) \in Hasher
    BY <2>3, <2>6, <2>7, <1>1, <1>11 DEF Hasher, n
  <2>9. Finish(g).state = (g.state \o spill) \o full
    BY <2>7
  <2> QED  BY <2>9, <2>2, <2>5, <2>8, <1>8, Zenon
<1>13. CASE ~(r + 1 > B - L)
  <2>1. z = B - L - r - 1
    BY <1>13 DEF z
  <2>2. last = used \o pad
    <3>1. pad \in Seq(Byte)
      BY <1>6, Zenon DEF PaddingIs
    <3> QED  BY <1>1, <1>3, <1>6, <1>10, <1>13, <2>1, <3>1, OneBlock, Zenon
  <2>3. last \in [1..B -> Byte]
    BY <1>3, Zenon DEF LastIs
  <2>4. last \in Seq(Byte)
    BY <2>3, BlockIsSeq
  <2>5. g.state \o last \in Seq(Byte)
    BY <1>1, <2>4, ConcatProperties
  <2>6. Finish(g) = [state |-> g.state \o last, buffer |-> last,
                     length |-> g.length, buffered |-> 0]
    BY <1>9, <1>13 DEF Hasher
  <2>7. Finish(g) \in Hasher
    BY <2>3, <2>5, <2>6, <1>1, <1>11 DEF Hasher, n
  <2>8. Finish(g).state = g.state \o last
    BY <2>6
  <2> QED  BY <2>2, <2>7, <2>8, <1>8, Zenon
<1> QED  BY <1>12, <1>13, Zenon

-----------------------------------------------------------------------------
(* A hasher at its start *)

\* A hasher made from the absorbed blocks m, an empty one included.
LEMMA StartRepresents ==
  ASSUME NEW m \in Seq(Byte), Aligned(Len(m)), NEW g,
         g = [state |-> m, buffer |-> [i \in 1..B |-> Zero],
              length |-> Len(m), buffered |-> 0]
  PROVE  g \in Hasher /\ Content(g) = m
<1>1. [i \in 1..B |-> Zero] \in [1..B -> Byte]
  BY OctetsAreBytes
<1>2. 0 \in 0..(B - 1) /\ Len(m) \in Nat
  BY BlockAssumption
<1>3. g \in Hasher
  BY <1>1, <1>2 DEF Hasher
<1>4. SubSeq(g.buffer, 1, g.buffered) = <<>>
  BY SubSeqEmpty
<1>5. Content(g) = m \o <<>>
  BY <1>4 DEF Content
<1> QED  BY <1>3, <1>5, ConcatEmptySeq

\* The empty message is a multiple of the block size.
LEMMA EmptyAligned == <<>> \in Seq(Byte) /\ Len(<<>>) = 0 /\ Aligned(0)
BY BlockAssumption DEF Aligned

-----------------------------------------------------------------------------
(* Whole messages *)

\* A resumed hasher, field by field.
LEMMA ResumedIs ==
  ASSUME NEW m, NEW k
  PROVE  Resume(m, k) = [state |-> m, buffer |-> [i \in 1..B |-> Zero],
                         length |-> k, buffered |-> 0]
<1>1. PICK g : g = Resume(m, k)
  OBVIOUS
<1>2. g = [state |-> m, buffer |-> [i \in 1..B |-> Zero], length |-> k, buffered |-> 0]
  BY <1>1 DEF Resume, Fresh
<1> QED
  BY <1>1, <1>2

\* A hasher resumed after whole blocks stands for them.
LEMMA ResumedStands ==
  ASSUME NEW m \in Seq(Byte), Aligned(Len(m))
  PROVE  LET g == Resume(m, Len(m))
         IN  /\ g \in Hasher /\ g.state = m /\ g.length = Len(m)
             /\ Content(g) = m
<1> DEFINE g == Resume(m, Len(m))
<1>1. g = [state |-> m, buffer |-> [i \in 1..B |-> Zero],
           length |-> Len(m), buffered |-> 0]
  BY ResumedIs
<1> HIDE DEF g
<1>2. g \in Hasher /\ Content(g) = m
  BY <1>1, StartRepresents, Zenon
<1>3. g.state = m /\ g.length = Len(m)
  BY <1>1
<1> QED
  BY <1>2, <1>3 DEF g

\* A new hasher stands for the empty message.
LEMMA FreshStands ==
  /\ Fresh \in Hasher /\ Fresh.state = <<>> /\ Fresh.length = 0
  /\ Content(Fresh) = <<>>
<1>1. Fresh = Resume(<<>>, Len(<<>>))
  BY ResumedIs, EmptyAligned DEF Fresh
<1> QED
  BY <1>1, EmptyAligned, ResumedStands

\* The digest of a hasher that stands for one message and is given more.
LEMMA FinishedUpdate ==
  ASSUME NEW g \in Hasher, Aligned(Len(g.state)), g.length = Len(Content(g)),
         NEW data \in Seq(Byte)
  PROVE  Finish(Update(g, data)).state = Padded(Content(g) \o data)
<1> DEFINE u == Update(g, data)
<1>1. /\ u \in Hasher /\ u.length = g.length + Len(data)
      /\ Aligned(Len(u.state)) /\ Content(u) = Content(g) \o data
  BY UpdateExtends
<1>2. Content(g) \in Seq(Byte)
  BY HasherParts
<1>3. Len(Content(g) \o data) = Len(Content(g)) + Len(data)
  BY <1>2
<1> HIDE DEF u
<1>4. u.length = Len(Content(u))
  BY <1>1, <1>3
<1>5. Finish(u).state = Padded(Content(u))
  BY <1>1, <1>4, FinishPads
<1> QED
  BY <1>1, <1>5 DEF u

\* The hash of a message in one piece.
LEMMA HashPads ==
  ASSUME NEW m \in Seq(Byte)
  PROVE  Hash(m) = Padded(m) /\ Padded(m) \in Seq(Byte)
<1>3. Finish(Update(Fresh, m)).state = Padded(<<>> \o m)
  BY FreshStands, EmptyAligned, FinishedUpdate
<1>4. <<>> \o m = m
  BY ConcatEmptySeq
<1>5. Padding(Len(m)) \in Seq(Byte)
  <2>1. Len(m) \in Nat
    OBVIOUS
  <2>2. PICK q \in Nat, r \in 0..(B - 1) : Len(m) = q + r /\ Aligned(q)
    <3>1. /\ Whole(Len(m)) \in 0..Len(m) /\ Aligned(Whole(Len(m)))
          /\ Len(m) - Whole(Len(m)) \in 0..(B - 1)
      BY <2>1, WholeProperties
    <3> DEFINE w == Whole(Len(m))
    <3> HIDE DEF w
    <3>2. w \in Nat /\ Len(m) = w + (Len(m) - w)
      BY <2>1, <3>1 DEF w
    <3> QED
      BY <3>1, <3>2 DEF w
  <2>3. ZeroCount(Len(m)) \in Nat
    <3>1. ZeroCount(q + r) = IF r + 1 > B - L THEN 2 * B - L - r - 1 ELSE B - L - r - 1
      BY <2>2, ZeroCountValue
    <3>2. (IF r + 1 > B - L THEN 2 * B - L - r - 1 ELSE B - L - r - 1) \in Nat
      BY BlockAssumption
    <3> QED
      BY <2>2, <3>1, <3>2
  <2> QED
    BY <2>1, <2>3, PaddingBytes DEF PaddingIs
<1> QED
  BY <1>3, <1>4, <1>5, ConcatProperties DEF Hash, Padded

-----------------------------------------------------------------------------
(* The hasher *)

\* The type invariant, what the open hasher stands for and the digest it
\* leaves are inductive together: finish() needs the first two to write the
\* third, and update() needs the alignment of the absorbed blocks.
StreamIInv == TypeOK /\ Represents /\ DigestOfMessage

\* A new hasher has the invariant.
LEMMA InitStreamIInv == StreamInit => StreamIInv
<1> SUFFICES ASSUME StreamInit PROVE StreamIInv
  OBVIOUS
<1>1. h = [state |-> <<>>, buffer |-> [i \in 1..B |-> Zero],
           length |-> Len(<<>>), buffered |-> 0]
  BY EmptyAligned DEF StreamInit, Fresh
<1>2. Aligned(Len(<<>>))
  BY EmptyAligned
<1>3. h \in Hasher /\ Content(h) = <<>>
  BY <1>1, <1>2, EmptyAligned, StartRepresents, Zenon
<1>4. h.state = <<>> /\ h.length = 0
  BY DEF StreamInit, Fresh
<1> QED
  BY <1>3, <1>4, EmptyAligned DEF StreamInit, StreamIInv, TypeOK, Represents,
                                  DigestOfMessage

\* Every call keeps it: update by UpdateExtends, finish by FinishPads.
LEMMA StepStreamIInv == StreamIInv /\ [StreamNext]_stream_vars => StreamIInv'
<1> SUFFICES ASSUME StreamIInv, [StreamNext]_stream_vars PROVE StreamIInv'
  OBVIOUS
<1> USE DEF StreamIInv
<1>1. ASSUME NEW data \in Chunks, Absorb(data)
      PROVE  StreamIInv'
  <2>1. data \in Seq(Byte) /\ message \in Seq(Byte) /\ open
    BY <1>1, ChunksAssumption DEF Absorb, TypeOK
  <2>2. /\ h \in Hasher
        /\ Aligned(Len(h.state))
        /\ h.length = Len(message)
        /\ message = Content(h)
    BY <2>1 DEF TypeOK, Represents
  <2>3. /\ Update(h, data) \in Hasher
        /\ Update(h, data).length = h.length + Len(data)
        /\ Aligned(Len(Update(h, data).state))
        /\ Content(Update(h, data)) = Content(h) \o data
    BY <2>1, <2>2, UpdateExtends
  <2>4. message \o data \in Seq(Byte) /\ Len(message \o data) = Len(message) + Len(data)
    BY <2>1, ConcatProperties
  <2>5. /\ h' = Update(h, data)
        /\ message' = message \o data
        /\ UNCHANGED <<open, digest>>
    BY <1>1 DEF Absorb
  <2>6. TypeOK'
    BY <2>3, <2>4, <2>5 DEF TypeOK
  <2>7. Represents'
    BY <2>2, <2>3, <2>4, <2>5 DEF Represents, Content
  <2>8. DigestOfMessage'
    BY <2>1, <2>5 DEF DigestOfMessage
  <2> QED  BY <2>6, <2>7, <2>8
<1>2. CASE Complete
  <2>1. /\ h \in Hasher
        /\ Aligned(Len(h.state))
        /\ h.length = Len(Content(h))
        /\ message = Content(h)
    BY <1>2 DEF Complete, TypeOK, Represents
  <2>2. Finish(h) \in Hasher /\ Finish(h).state = Padded(message)
    BY <2>1, FinishPads
  <2>3. Finish(h).state \in Seq(Byte)
    BY <2>2, HasherParts
  <2>4. /\ h' = Finish(h)
        /\ digest' = Finish(h).state
        /\ open' = FALSE
        /\ message' = message
    BY <1>2 DEF Complete
  <2>5. TypeOK'
    BY <2>2, <2>3, <2>4 DEF TypeOK
  <2>6. Represents'
    BY <2>4 DEF Represents
  <2>7. DigestOfMessage'
    BY <2>2, <2>4 DEF DigestOfMessage, Padded
  <2> QED  BY <2>5, <2>6, <2>7
<1>3. CASE Restart
  <2>1. h' = [state |-> <<>>, buffer |-> [i \in 1..B |-> Zero],
              length |-> Len(<<>>), buffered |-> 0]
    BY <1>3, EmptyAligned DEF Restart, Reset, TypeOK, Hasher
  <2>2. h' \in Hasher /\ Content(h') = <<>>
    BY <2>1, EmptyAligned, StartRepresents, Zenon
  <2>3. h'.state = <<>> /\ h'.length = 0
    BY <2>1, EmptyAligned
  <2>4. open' = TRUE /\ digest' = <<>> /\ message' = <<>>
    BY <1>3 DEF Restart
  <2> QED
    BY <2>2, <2>3, <2>4, EmptyAligned DEF TypeOK, Represents,
                                          DigestOfMessage, Content
<1>4. ASSUME NEW m \in MidStates, ResumeFrom(m)
      PROVE  StreamIInv'
  <2>1. m \in Seq(Byte) /\ Aligned(Len(m))
    BY MidStatesAssumption
  <2>2. h' = [state |-> m, buffer |-> [i \in 1..B |-> Zero],
              length |-> Len(m), buffered |-> 0]
    BY <1>4 DEF ResumeFrom, Resume, Fresh
  <2>3. h' \in Hasher /\ Content(h') = m
    BY <2>1, <2>2, StartRepresents, Zenon
  <2>4. h'.state = m /\ h'.length = Len(m)
    BY <2>2
  <2>5. open' = TRUE /\ digest' = <<>> /\ message' = m
    BY <1>4 DEF ResumeFrom
  <2> QED
    BY <2>1, <2>3, <2>4, <2>5, EmptyAligned DEF TypeOK, Represents,
                                                DigestOfMessage, Content
<1>5. CASE UNCHANGED stream_vars
  BY <1>5 DEF stream_vars, TypeOK, Represents, DigestOfMessage, Content, Padded
<1> QED  BY <1>1, <1>2, <1>3, <1>4, <1>5 DEF StreamNext

\* Type correctness of the hasher: in particular the buffer never overflows.
THEOREM HasherTypeCorrect == StreamSpec => []TypeOK
<1>1. StreamIInv => TypeOK
  BY DEF StreamIInv
<1> QED  BY InitStreamIInv, StepStreamIInv, <1>1, PTL DEF StreamSpec

\* An open hasher stands for the bytes it was given, in every reachable state.
THEOREM AlwaysRepresents == StreamSpec => []Represents
<1>1. StreamIInv => Represents
  BY DEF StreamIInv
<1> QED  BY InitStreamIInv, StepStreamIInv, <1>1, PTL DEF StreamSpec

\* The digest is that of the padded message, however the message was cut.
THEOREM DigestCorrect == StreamSpec => []DigestOfMessage
<1>1. StreamIInv => DigestOfMessage
  BY DEF StreamIInv
<1> QED  BY InitStreamIInv, StepStreamIInv, <1>1, PTL DEF StreamSpec

\* The hasher implements its abstract promise: every step is a step of
\* HashPromise or leaves what the caller sees unchanged.
THEOREM HasherKeepsPromise == StreamSpec => KeepsPromise
<1>1. StreamInit => Promise!Init
  BY DEF StreamInit, Promise!Init
<1>2. StreamIInv /\ [StreamNext]_stream_vars => [Promise!Next]_Promise!vars
  <2> SUFFICES ASSUME StreamIInv, [StreamNext]_stream_vars
               PROVE  [Promise!Next]_Promise!vars
    OBVIOUS
  <2>1. ASSUME NEW data \in Chunks, Absorb(data)
        PROVE  Promise!Next
    BY <2>1 DEF Absorb, Promise!Next, Promise!Extend
  <2>2. CASE Complete
    <3>1. /\ h \in Hasher
          /\ Aligned(Len(h.state))
          /\ h.length = Len(Content(h))
          /\ message = Content(h)
      BY <2>2 DEF Complete, StreamIInv, TypeOK, Represents
    <3>2. Finish(h).state = Padded(message)
      BY <3>1, FinishPads
    <3>3. Padded(message) = Promise!Padded(message)
      BY DEF Padded, Promise!Padded, Padding, Promise!Padding, ZeroCount,
             Promise!ZeroCount, LengthField, Promise!LengthField,
             Zero, Promise!Zero, Terminator, Promise!Terminator
    <3>4. Promise!Digest
      BY <2>2, <3>2, <3>3 DEF Complete, Promise!Digest
    <3> QED  BY <3>4 DEF Promise!Next
  <2>3. CASE Restart
    BY <2>3 DEF Restart, Promise!Next, Promise!Start
  <2>4. ASSUME NEW m \in MidStates, ResumeFrom(m)
        PROVE  Promise!Next
    BY <2>4 DEF ResumeFrom, Promise!Next, Promise!Start
  <2>5. CASE UNCHANGED stream_vars
    BY <2>5 DEF stream_vars, Promise!vars
  <2> QED  BY <2>1, <2>2, <2>3, <2>4, <2>5 DEF StreamNext
<1> QED
  BY <1>1, <1>2, InitStreamIInv, StepStreamIInv, PTL DEF StreamSpec, KeepsPromise, Promise!Spec

-----------------------------------------------------------------------------
(* Reading hexadecimal *)

\* The characters of a text; the three of a prefix are strings, but the
\* provers do not know that.
Character == STRING \cup {"0", "x", "X"}

LEMMA TextsAreSequences == \A it \in Texts : it \in Seq(Character)
<1> SUFFICES ASSUME NEW it \in Texts
             PROVE  it \in Seq(Character)
  OBVIOUS
<1>1. it \in Seq(STRING)
  BY TextsAssumption
<1>2. \A i \in 1..Len(it) : it[i] \in Character
  BY <1>1 DEF Character
<1> QED
  BY <1>1, <1>2

\* A piece of a sequence, element by element.
LEMMA PieceIs ==
  ASSUME NEW S, NEW s \in Seq(S), NEW i \in 0..Len(s), NEW z \in i..Len(s)
  PROVE  /\ SubSeq(s, i + 1, z) \in Seq(S) /\ Len(SubSeq(s, i + 1, z)) = z - i
         /\ \A k \in 1..(z - i) : SubSeq(s, i + 1, z)[k] = s[i + k]
<1>1. /\ i \in Nat /\ z \in Nat /\ i <= z /\ z <= Len(s) /\ i + 1 \in Int
      /\ z - (i + 1) + 1 = z - i
  OBVIOUS
<1>2. \A k \in (i + 1)..z : s[k] \in S
  BY <1>1
<1>3. /\ SubSeq(s, i + 1, z) \in Seq(S)
      /\ Len(SubSeq(s, i + 1, z)) = IF i + 1 <= z THEN z - (i + 1) + 1 ELSE 0
      /\ \A k \in 1..(z - (i + 1) + 1) : SubSeq(s, i + 1, z)[k] = s[(i + 1) + k - 1]
  <2>1. z \in Int
    BY <1>1
  <2> QED
    BY <1>1, <1>2, <2>1, SubSeqProperties
<1>4. \A k \in 1..(z - i) : (i + 1) + k - 1 = i + k
  BY <1>1
<1> QED
  BY <1>1, <1>3, <1>4

\* Two elements in front of a sequence.
LEMMA TwoBefore ==
  ASSUME NEW S, NEW u \in S, NEW v \in S, NEW w \in Seq(S)
  PROVE  /\ <<u, v>> \o w \in Seq(S) /\ Len(<<u, v>> \o w) = Len(w) + 2
         /\ (<<u, v>> \o w)[1] = u /\ (<<u, v>> \o w)[2] = v
         /\ \A i \in 3..(Len(w) + 2) : (<<u, v>> \o w)[i] = w[i - 2]
<1>1. PICK p : p = <<u, v>>
  OBVIOUS
<1>2. p \in Seq(S) /\ Len(p) = 2 /\ p[1] = u /\ p[2] = v
  BY <1>1
<1>3. /\ p \o w \in Seq(S) /\ Len(p \o w) = Len(p) + Len(w)
      /\ \A i \in 1..(Len(p) + Len(w)) :
           (p \o w)[i] = IF i <= Len(p) THEN p[i] ELSE w[i - Len(p)]
  BY <1>2, ConcatProperties
<1>4. Len(w) \in Nat
  OBVIOUS
<1>5. /\ p \o w \in Seq(S) /\ Len(p \o w) = Len(w) + 2
      /\ (p \o w)[1] = u /\ (p \o w)[2] = v
      /\ \A i \in 3..(Len(w) + 2) : (p \o w)[i] = w[i - 2]
  BY <1>2, <1>3, <1>4
<1> QED
  BY <1>1, <1>5

\* Two adjacent pieces of the beginning of a sequence make a longer one.
LEMMA BeginningGrows ==
  ASSUME NEW s \in Seq(Byte), NEW i \in 0..Len(s), NEW z \in i..Len(s)
  PROVE  /\ SubSeq(s, 1, i) \o SubSeq(s, i + 1, z) = SubSeq(s, 1, z)
         /\ SubSeq(s, i + 1, z) \in Seq(Byte)
         /\ SubSeq(s, 1, i) \in Seq(Byte)
<1>1. /\ SubSeq(s, 1, i) \in Seq(Byte) /\ Len(SubSeq(s, 1, i)) = i
      /\ \A k \in 1..i : SubSeq(s, 1, i)[k] = s[k]
  BY SubSeqProperties
<1>2. /\ SubSeq(s, i + 1, z) \in Seq(Byte) /\ Len(SubSeq(s, i + 1, z)) = z - i
      /\ \A k \in 1..(z - i) : SubSeq(s, i + 1, z)[k] = s[i + k]
  BY SubSeqProperties
<1>3. /\ SubSeq(s, 1, z) \in Seq(Byte) /\ Len(SubSeq(s, 1, z)) = z
      /\ \A k \in 1..z : SubSeq(s, 1, z)[k] = s[k]
  BY SubSeqProperties
<1> DEFINE first == SubSeq(s, 1, i)
           next  == SubSeq(s, i + 1, z)
           both  == SubSeq(s, 1, z)
<1> HIDE DEF first, next, both
<1>4. first \o next = both
  <2>1. /\ first \o next \in Seq(Byte) /\ Len(first \o next) = z
        /\ \A k \in 1..z : (first \o next)[k]
                             = IF k <= i THEN first[k] ELSE next[k - i]
    BY <1>1, <1>2, ConcatProperties DEF first, next
  <2>2. ASSUME NEW k \in 1..z
        PROVE  (first \o next)[k] = both[k]
    <3>1. CASE k <= i
      BY <1>1, <1>3, <2>1, <3>1 DEF first, both
    <3>2. CASE k > i
      <4>1. k - i \in 1..(z - i) /\ i + (k - i) = k
        BY <3>2
      <4>2. next[k - i] = s[k]
        BY <1>2, <4>1 DEF next
      <4> QED
        BY <1>3, <2>1, <3>2, <4>2 DEF both
    <3>3. k <= i \/ k > i
      OBVIOUS
    <3> QED
      BY <3>1, <3>2, <3>3
  <2> QED
    BY <1>3, <2>1, <2>2, SeqEqual DEF both
<1> QED
  BY <1>1, <1>2, <1>4 DEF first, next, both

\* Two digits are a byte.
LEMMA DigitsAreByte ==
  ASSUME NEW c \in Digits, NEW d \in Digits
  PROVE  Octet(DigitValue(c) * 16 + DigitValue(d)) \in Byte
<1>1. DigitValue(c) \in 0..15 /\ DigitValue(d) \in 0..15
  BY DigitsAssumption
<1>2. DigitValue(c) * 16 + DigitValue(d) \in 0..255
  BY <1>1
<1> QED
  BY <1>2, OctetAssumption

\* The bytes of a text of digits.
LEMMA DecodedIs ==
  ASSUME NEW it \in Seq(Character), IsHex(it)
  PROVE  /\ Len(it) \div 2 \in Nat \ {0} /\ 2 * (Len(it) \div 2) = Len(it)
         /\ \A i \in 1..(Len(it) \div 2) :
              Octet(DigitValue(it[2 * i - 1]) * 16 + DigitValue(it[2 * i])) \in Byte
         /\ Decoded(it) \in Seq(Byte)
         /\ Len(Decoded(it)) = Len(it) \div 2
         /\ \A i \in 1..(Len(it) \div 2) :
              Decoded(it)[i] = Octet(DigitValue(it[2 * i - 1]) * 16 + DigitValue(it[2 * i]))
<1>1. Len(it) \in Nat \ {0} /\ Len(it) % 2 = 0 /\ \A i \in 1..Len(it) : it[i] \in Digits
  BY EmptySeq DEF IsHex
<1>2. PICK k \in Nat : k = Len(it) \div 2
  BY <1>1
<1>3. k # 0 /\ 2 * k = Len(it)
  BY <1>1, <1>2
<1>4. ASSUME NEW i \in 1..k
      PROVE  Octet(DigitValue(it[2 * i - 1]) * 16 + DigitValue(it[2 * i])) \in Byte
  <2>1. 2 * i - 1 \in 1..Len(it) /\ 2 * i \in 1..Len(it)
    BY <1>3
  <2> QED
    BY <1>1, <2>1, DigitsAreByte
<1>5. Decoded(it) = [i \in 1..k |->
                      Octet(DigitValue(it[2 * i - 1]) * 16 + DigitValue(it[2 * i]))]
  BY <1>2 DEF Decoded
<1>6. Decoded(it) \in [1..k -> Byte]
  BY <1>4, <1>5
<1> QED
  BY <1>2, <1>3, <1>4, <1>5, <1>6

\* Removing the prefix keeps a sequence of characters.
LEMMA WithoutPrefixIs ==
  ASSUME NEW it \in Seq(Character)
  PROVE  /\ WithoutPrefix(it) \in Seq(Character)
         /\ HasPrefix(it) => /\ Len(WithoutPrefix(it)) = Len(it) - 2
                            /\ \A i \in 1..(Len(it) - 2) :
                                 WithoutPrefix(it)[i] = it[i + 2]
<1>1. CASE HasPrefix(it)
  <2>1. Len(it) \in Nat /\ Len(it) >= 2
    BY <1>1 DEF HasPrefix
  <2>2. 2 \in 0..Len(it) /\ Len(it) \in 2..Len(it)
    BY <2>1
  <2>3. /\ SubSeq(it, 2 + 1, Len(it)) \in Seq(Character)
        /\ Len(SubSeq(it, 2 + 1, Len(it))) = Len(it) - 2
        /\ \A i \in 1..(Len(it) - 2) : SubSeq(it, 2 + 1, Len(it))[i] = it[2 + i]
    BY <2>2, PieceIs
  <2>4. WithoutPrefix(it) = SubSeq(it, 2 + 1, Len(it))
    BY <1>1 DEF WithoutPrefix
  <2>5. \A i \in 1..(Len(it) - 2) : 2 + i = i + 2
    BY <2>1
  <2> QED
    BY <2>3, <2>4, <2>5
<1>2. CASE ~HasPrefix(it)
  BY <1>2 DEF WithoutPrefix
<1> QED
  BY <1>1, <1>2

\* What the reader takes for digits is what the specification does: a text
\* has digits at its end exactly if they are left when the prefix is removed.
LEMMA DigitsAreFound ==
  ASSUME NEW it \in Seq(Character)
  PROVE  LET w == WithoutPrefix(it)
         IN  /\ IsHex(w) => /\ Len(w) \in DigitCounts(it)
                            /\ SubSeq(it, Len(it) - Len(w) + 1, Len(it)) = w
             /\ ~IsHex(w) => DigitCounts(it) = {}
<1> DEFINE w == WithoutPrefix(it)
<1>1. w \in Seq(Character)
  BY WithoutPrefixIs
<1>2. ASSUME IsHex(w)
      PROVE  /\ Len(w) \in DigitCounts(it)
             /\ SubSeq(it, Len(it) - Len(w) + 1, Len(it)) = w
  <2>1. Len(w) \in Nat /\ Len(w) % 2 = 0 /\ Len(w) >= 2
        /\ \A i \in 1..Len(w) : w[i] \in Digits
    BY <1>1, <1>2, EmptySeq DEF IsHex
  <2>2. CASE HasPrefix(it)
    <3>1. w = SubSeq(it, 3, Len(it)) /\ Len(it) >= 2 /\ it[1] = "0" /\ it[2] \in {"x", "X"}
      BY <2>2 DEF WithoutPrefix, HasPrefix
    <3>2. /\ Len(it) \in Nat /\ Len(w) = Len(it) - 2
          /\ \A i \in 1..Len(w) : w[i] = it[i + 2]
      BY <2>2, WithoutPrefixIs
    <3>3. SubSeq(it, Len(it) - Len(w) + 1, Len(it)) = w /\ Len(w) \in 2..Len(it)
      <4>1. Len(it) - Len(w) + 1 = 3 /\ Len(w) \in 2..Len(it)
        <5> HIDE DEF w
        <5> QED
          BY <2>1, <3>2
      <4> QED
        BY <3>1, <4>1
    <3>4. it = <<"0", it[2]>> \o w
      <4> HIDE DEF w
      <4>1. it[2] \in Character
        BY <3>1
      <4>2. /\ <<"0", it[2]>> \o w \in Seq(Character)
            /\ Len(<<"0", it[2]>> \o w) = Len(w) + 2
            /\ (<<"0", it[2]>> \o w)[1] = "0" /\ (<<"0", it[2]>> \o w)[2] = it[2]
            /\ \A i \in 3..(Len(w) + 2) : (<<"0", it[2]>> \o w)[i] = w[i - 2]
        <5>1. "0" \in Character
          BY DEF Character
        <5> QED
          BY <1>1, <4>1, <5>1, TwoBefore
      <4>3. PICK z : z = <<"0", it[2]>> \o w
        OBVIOUS
      <4>4. /\ z \in Seq(Character) /\ Len(z) = Len(it)
            /\ z[1] = it[1] /\ z[2] = it[2]
            /\ \A i \in 3..Len(it) : z[i] = w[i - 2]
        BY <3>1, <3>2, <4>2, <4>3
      <4>5. ASSUME NEW i \in 1..Len(it)
            PROVE  z[i] = it[i]
        <5>1. CASE i \in 3..Len(it)
          <6>1. i - 2 \in 1..Len(w) /\ (i - 2) + 2 = i
            BY <3>2, <5>1
          <6>2. w[i - 2] = it[i]
            BY <3>2, <6>1
          <6> QED
            BY <4>4, <5>1, <6>2
        <5>2. CASE i \notin 3..Len(it)
          <6>1. i = 1 \/ i = 2
            BY <3>2, <5>2
          <6> QED
            BY <4>4, <6>1
        <5> QED
          BY <5>1, <5>2
      <4>6. z = it
        BY <4>4, <4>5, SeqEqual
      <4> QED
        BY <4>3, <4>6
    <3>5. it \in {w, <<"0", "x">> \o w, <<"0", "X">> \o w}
      BY ZenonT(60), <3>1, <3>4
    <3> HIDE DEF w
    <3> QED
      BY <2>1, <3>3, <3>5 DEF DigitCounts
  <2>3. CASE ~HasPrefix(it)
    <3>1. w = it
      BY <2>3 DEF WithoutPrefix
    <3>2. SubSeq(it, Len(it) - Len(w) + 1, Len(it)) = w /\ Len(w) \in 2..Len(it)
      BY <2>1, <3>1, SubSeqFull
    <3> HIDE DEF w
    <3> QED
      BY <2>1, <3>1, <3>2 DEF DigitCounts
  <2> QED
    BY <2>2, <2>3
<1>3. ASSUME NEW k \in DigitCounts(it)
      PROVE  IsHex(w)
  <2> DEFINE digits == SubSeq(it, Len(it) - k + 1, Len(it))
  <2>1. /\ k \in 2..Len(it) /\ k % 2 = 0 /\ \A i \in 1..k : digits[i] \in Digits
        /\ it \in {digits, <<"0", "x">> \o digits, <<"0", "X">> \o digits}
    BY DEF DigitCounts
  <2>2. digits \in Seq(Character) /\ Len(digits) = k
    BY <2>1, SubSeqProperties
  <2> HIDE DEF digits
  <2>3. IsHex(digits)
    BY <2>1, <2>2, EmptySeq DEF IsHex
  <2>4. CASE it = digits
    <3>1. it[2] \in Digits
      BY <2>1, <2>2, <2>4
    <3>2. ~HasPrefix(it)
      BY <3>1, DigitsAssumption DEF HasPrefix
    <3> QED
      BY <2>3, <2>4, <3>2 DEF WithoutPrefix
  <2>5. ASSUME NEW c \in {"x", "X"}, it = <<"0", c>> \o digits
        PROVE  IsHex(w)
    <3>1. "0" \in Character /\ c \in Character
      BY DEF Character
    <3>3. Len(it) = k + 2 /\ it[1] = "0" /\ it[2] = c
      BY <2>2, <2>5, <3>1, TwoBefore
    <3>4. HasPrefix(it)
      BY <3>3, <2>1 DEF HasPrefix
    <3>5. w = SubSeq(it, 3, Len(it)) /\ Len(it) - k + 1 = 3
      BY <2>1, <3>3, <3>4 DEF WithoutPrefix
    <3>6. w = digits
      BY <3>5 DEF digits
    <3> QED
      BY <2>3, <3>6
  <2> QED
    BY <2>1, <2>4, <2>5
<1> QED
  BY <1>2, <1>3

\* The header is made of bytes.
LEMMA HeaderIsBytes ==
  ASSUME NEW k \in Nat
  PROVE  M1Header(Binary, k) \in Seq(Byte)
<1>1. ASSUME NEW i \in 1..4
      PROVE  Octet((k \div (256 ^ (4 - i))) % 256) \in Byte
  <2>1. PICK e : e = 256 ^ (4 - i)
    OBVIOUS
  <2>2. e \in Nat \ {0}
    BY <2>1, HeaderAssumption
  <2>3. (k \div e) % 256 \in 0..255
    BY <2>2
  <2> QED
    BY <2>1, <2>3, OctetAssumption
<1> DEFINE field == [i \in 1..4 |-> Octet((k \div (256 ^ (4 - i))) % 256)]
<1>2. field \in [1..4 -> Byte]
  BY <1>1
<1>3. PICK four \in Nat : four = 4
  OBVIOUS
<1>4. field \in Seq(Byte)
  <2> HIDE DEF field
  <2>1. field \in [1..four -> Byte]
    BY <1>2, <1>3
  <2> QED
    BY <2>1
<1>5. PICK kind : kind = <<Octet(0), Octet(1), Octet(Binary)>>
  OBVIOUS
<1>6. kind \in Seq(Byte)
  BY <1>5, OctetAssumption DEF Binary
<1> HIDE DEF field
<1>7. (Dst \o kind) \o field \in Seq(Byte)
  BY <1>4, <1>6, HeaderAssumption, ConcatProperties
<1>8. M1Header(Binary, k) = (Dst \o kind) \o field
  BY <1>5 DEF M1Header, field
<1> QED
  BY <1>7, <1>8

\* A hasher that stands for a message.
Stands(g, m) ==
  /\ m \in Seq(Byte)
  /\ g \in Hasher /\ Aligned(Len(g.state))
  /\ g.length = Len(m) /\ Content(g) = m

\* It stands for the longer message when it is given more bytes.
LEMMA StandsForMore ==
  ASSUME NEW g, NEW m, Stands(g, m), NEW data \in Seq(Byte)
  PROVE  Stands(Update(g, data), m \o data)
<1>1. /\ m \in Seq(Byte)
      /\ g \in Hasher /\ Aligned(Len(g.state))
      /\ g.length = Len(m) /\ Content(g) = m
  BY DEF Stands
<1>2. /\ Update(g, data) \in Hasher
      /\ Update(g, data).length = Len(m) + Len(data)
      /\ Aligned(Len(Update(g, data).state))
      /\ Content(Update(g, data)) = m \o data
  BY <1>1, UpdateExtends
<1>3. m \o data \in Seq(Byte) /\ Len(m \o data) = Len(m) + Len(data)
  BY <1>1, ConcatProperties
<1> QED
  BY <1>2, <1>3 DEF Stands

\* And its digest is that of the message.
LEMMA StandsDigest ==
  ASSUME NEW g, NEW m, Stands(g, m)
  PROVE  Finish(g).state = Padded(m)
BY FinishPads DEF Stands

\* A new hasher stands for the header when it is given that.
LEMMA HeaderStands ==
  ASSUME NEW k \in Nat
  PROVE  Stands(Update(Fresh, M1Header(Binary, k)), M1Header(Binary, k))
<1>1. Stands(Fresh, <<>>)
  BY FreshStands, EmptyAligned DEF Stands
<1>2. M1Header(Binary, k) \in Seq(Byte)
  BY HeaderIsBytes
<1>3. <<>> \o M1Header(Binary, k) = M1Header(Binary, k)
  BY <1>2, ConcatEmptySeq
<1> QED
  BY <1>1, <1>2, <1>3, StandsForMore

\* The digest of the bytes in one piece is that of the header and the bytes.
LEMMA D0IsPadded ==
  ASSUME NEW data \in Seq(Byte)
  PROVE  D0(Binary, data) = Padded(M1Header(Binary, Len(data)) \o data)
<1>1. Len(data) \in Nat
  OBVIOUS
<1>2. Stands(Update(Update(Fresh, M1Header(Binary, Len(data))), data),
             M1Header(Binary, Len(data)) \o data)
  BY <1>1, HeaderStands, StandsForMore
<1> QED
  BY <1>2, StandsDigest DEF D0

\* The inductive invariant: the hasher stands for the header and the bytes
\* decoded so far.  What the array holds behind the last chunk is not said,
\* for nothing depends on it.
Decoding ==
  hex_pc = "decode" =>
    /\ hex = WithoutPrefix(text) /\ IsHex(hex)
    /\ Len(hex) \div 2 <= MaxInputSize
    /\ pos \in 0..(Len(hex) \div 2)
    /\ code = "ok" /\ d0 = <<>>
    /\ Stands(hasher, M1Header(Binary, Len(hex) \div 2)
                        \o SubSeq(Decoded(hex), 1, pos))

Starting ==
  hex_pc = "check" => hasher = Fresh /\ pos = 0 /\ d0 = <<>>

HexIInv ==
  /\ hex_pc \in {"check", "decode", "done"}
  /\ text \in Texts
  /\ chunk \in [1..ChunkSize -> Byte]
  /\ Starting
  /\ Decoding
  /\ SameAsBinary

LEMMA InitHexIInv == HexInit => HexIInv
BY OctetsAreBytes DEF HexInit, HexIInv, Starting, Decoding, SameAsBinary

\* The text is refused, or the hasher is given the header.
LEMMA CheckKeepsHexIInv ==
  ASSUME HexIInv, Check
  PROVE  HexIInv'
<1> DEFINE it == WithoutPrefix(text)
           k == Len(it) \div 2
           c == IF ~IsHex(it) THEN "invalid_hex" ELSE CheckLength(k)
<1>1. /\ hex' = it /\ code' = c
      /\ hex_pc' = IF c = "ok" THEN "decode" ELSE "done"
      /\ hasher' = IF c = "ok" THEN Update(hasher, M1Header(Binary, k)) ELSE hasher
      /\ UNCHANGED <<text, chunk, pos, d0>>
      /\ hasher = Fresh /\ pos = 0 /\ d0 = <<>>
  BY DEF Check, HexIInv, Starting
<1>2. text \in Texts /\ text \in Seq(Character) /\ it \in Seq(Character)
  BY TextsAreSequences, WithoutPrefixIs DEF HexIInv
<1>3. /\ IsHex(it) => /\ Len(it) \in DigitCounts(text)
                     /\ SubSeq(text, Len(text) - Len(it) + 1, Len(text)) = it
      /\ ~IsHex(it) => DigitCounts(text) = {}
  BY <1>2, DigitsAreFound
<1>4. /\ IsHex(it) => k \in Nat \ {0}
      /\ c \in {"invalid_hex", "input_too_large", "ok"}
      /\ c = "invalid_hex" <=> ~IsHex(it)
      /\ c = "input_too_large" <=> IsHex(it) /\ k > MaxInputSize
  <2>1. IsHex(it) => k \in Nat \ {0}
    BY <1>2, DecodedIs
  <2> HIDE DEF k, it
  <2> QED
    BY <2>1, SizeAssumption DEF CheckLength
<1>5. HexIInv!1' /\ HexIInv!2' /\ HexIInv!3' /\ Starting'
  BY <1>1, <1>2 DEF HexIInv, Starting
<1> HIDE DEF c, it
<1>6. Decoding'
  <2> SUFFICES ASSUME c = "ok"
               PROVE  Decoding'
    BY <1>1 DEF Decoding
  <2>1. IsHex(it) /\ k \in Nat \ {0} /\ k <= MaxInputSize
    BY <1>4, SizeAssumption
  <2>2. Stands(hasher', M1Header(Binary, k)) /\ M1Header(Binary, k) \in Seq(Byte)
    BY <1>1, <2>1, HeaderStands, HeaderIsBytes
  <2>3. M1Header(Binary, k) \o SubSeq(Decoded(it), 1, 0) = M1Header(Binary, k)
    BY <2>2, SubSeqEmpty, ConcatEmptySeq
  <2>4. /\ hex_pc' = "decode" /\ hex' = it /\ code' = "ok" /\ pos' = 0 /\ d0' = <<>>
        /\ text' = text /\ 0 \in 0..k
    BY <1>1, <2>1
  <2>5. Stands(hasher', M1Header(Binary, k) \o SubSeq(Decoded(it), 1, 0))
    BY <2>2, <2>3
  <2> QED
    BY <2>1, <2>4, <2>5 DEF Decoding, it, k
<1>7. SameAsBinary'
  <2>1. CASE c = "invalid_hex"
    BY <1>1, <1>3, <1>4, <2>1 DEF SameAsBinary
  <2>2. CASE c = "input_too_large"
    <3>1. IsHex(it) /\ k > MaxInputSize
      BY <1>4, <2>2
    <3>2. Len(it) \in DigitCounts(text)
      BY <1>3, <3>1
    <3>3. code' = "input_too_large" /\ d0' = <<>> /\ text' = text
      BY <1>1, <2>2
    <3> QED
      BY <3>1, <3>2, <3>3 DEF SameAsBinary
  <2>3. CASE c = "ok"
    BY <1>1, <2>3 DEF SameAsBinary
  <2> QED
    BY <1>4, <2>1, <2>2, <2>3
<1> QED
  BY <1>5, <1>6, <1>7 DEF HexIInv

\* A chunk of bytes is decoded and given to the hasher, and no other byte is.
LEMMA DecodeKeepsHexIInv ==
  ASSUME HexIInv, DecodeChunk
  PROVE  HexIInv'
<1> DEFINE k == Len(hex) \div 2
           m == IF k - pos < ChunkSize THEN k - pos ELSE ChunkSize
           bytes == [i \in 1..ChunkSize |->
                       IF i > m THEN chunk[i]
                       ELSE Octet(DigitValue(hex[2 * (pos + i) - 1]) * 16
                                  + DigitValue(hex[2 * (pos + i)]))]
           piece == SubSeq(bytes, 1, m)
<1>1. /\ hex_pc = "decode" /\ pos < k
      /\ chunk' = bytes
      /\ hasher' = Update(hasher, piece)
      /\ pos' = pos + m
      /\ UNCHANGED <<hex_pc, text, hex, code, d0>>
  BY DEF DecodeChunk
<1>2. /\ text \in Texts /\ chunk \in [1..ChunkSize -> Byte]
      /\ hex = WithoutPrefix(text) /\ IsHex(hex) /\ k <= MaxInputSize
      /\ pos \in 0..k /\ code = "ok" /\ d0 = <<>>
      /\ Stands(hasher, M1Header(Binary, k) \o SubSeq(Decoded(hex), 1, pos))
  BY <1>1 DEF HexIInv, Decoding
<1>3. /\ hex \in Seq(Character) /\ k \in Nat \ {0}
      /\ \A i \in 1..k :
           Octet(DigitValue(hex[2 * i - 1]) * 16 + DigitValue(hex[2 * i])) \in Byte
      /\ Decoded(hex) \in Seq(Byte) /\ Len(Decoded(hex)) = k
      /\ \A i \in 1..k :
           Decoded(hex)[i] = Octet(DigitValue(hex[2 * i - 1]) * 16 + DigitValue(hex[2 * i]))
  BY <1>2, TextsAreSequences, WithoutPrefixIs, DecodedIs
<1> DEFINE whole == Decoded(hex)
<1> HIDE DEF k, whole
<1>4. m \in 1..ChunkSize /\ pos + m <= k /\ m \in Nat
  BY <1>1, <1>2, <1>3, SizeAssumption
<1> HIDE DEF m
<1>5. /\ bytes \in [1..ChunkSize -> Byte]
      /\ \A i \in 1..m : bytes[i] = whole[pos + i]
  <2>1. ASSUME NEW i \in 1..m
        PROVE  /\ Octet(DigitValue(hex[2 * (pos + i) - 1]) * 16
                        + DigitValue(hex[2 * (pos + i)])) \in Byte
               /\ Octet(DigitValue(hex[2 * (pos + i) - 1]) * 16
                        + DigitValue(hex[2 * (pos + i)])) = whole[pos + i]
    <3>1. pos + i \in 1..k
      BY <1>2, <1>3, <1>4
    <3> QED
      BY <1>3, <3>1 DEF whole
  <2>2. bytes \in [1..ChunkSize -> Byte]
    <3>1. ASSUME NEW i \in 1..ChunkSize
          PROVE  (IF i > m THEN chunk[i]
                  ELSE Octet(DigitValue(hex[2 * (pos + i) - 1]) * 16
                             + DigitValue(hex[2 * (pos + i)]))) \in Byte
      <4>1. CASE i > m
        BY <1>2, <4>1
      <4>2. CASE ~(i > m)
        <5>1. i \in 1..m
          BY <1>4, <4>2
        <5> QED
          BY <2>1, <4>2, <5>1
      <4> QED
        BY <4>1, <4>2
    <3> QED
      BY <3>1
  <2>3. ASSUME NEW i \in 1..m
        PROVE  bytes[i] = whole[pos + i]
    <3>1. i \in 1..ChunkSize /\ ~(i > m)
      BY <1>4, SizeAssumption
    <3> QED
      BY <2>1, <3>1
  <2> QED
    BY <2>2, <2>3
<1> HIDE DEF bytes
<1>6. piece = SubSeq(whole, pos + 1, pos + m)
  <2>1. bytes \in Seq(Byte) /\ Len(bytes) = ChunkSize
    BY <1>5, SizeAssumption
  <2>2. /\ piece \in Seq(Byte) /\ Len(piece) = m
        /\ \A i \in 1..m : piece[i] = bytes[i]
    BY <1>4, <2>1, SubSeqProperties
  <2>3. /\ SubSeq(whole, pos + 1, pos + m) \in Seq(Byte)
        /\ Len(SubSeq(whole, pos + 1, pos + m)) = m
        /\ \A i \in 1..m : SubSeq(whole, pos + 1, pos + m)[i] = whole[pos + i]
    <3>1. whole \in Seq(Byte) /\ Len(whole) = k /\ pos \in Nat
      BY <1>2, <1>3 DEF whole
    <3>2. pos + 1 \in 1..(Len(whole) + 1) /\ pos + m \in pos..Len(whole)
      BY <1>4, <3>1
    <3> QED
      BY <1>4, <3>1, <3>2, SubSeqProperties
  <2> HIDE DEF piece
  <2> QED
    BY <1>5, <2>2, <2>3, SeqEqual
<1>7. /\ SubSeq(whole, 1, pos) \o piece = SubSeq(whole, 1, pos + m)
      /\ piece \in Seq(Byte) /\ SubSeq(whole, 1, pos) \in Seq(Byte)
  <2>1. whole \in Seq(Byte) /\ pos \in 0..Len(whole) /\ pos + m \in pos..Len(whole)
    BY <1>2, <1>3, <1>4 DEF whole
  <2> HIDE DEF piece
  <2> QED
    BY <1>6, <2>1, BeginningGrows
<1> HIDE DEF piece
<1>8. Stands(hasher', M1Header(Binary, k) \o SubSeq(whole, 1, pos + m))
  <2>1. Stands(hasher, M1Header(Binary, k) \o SubSeq(whole, 1, pos))
    BY <1>2 DEF whole
  <2>2. Stands(hasher', (M1Header(Binary, k) \o SubSeq(whole, 1, pos)) \o piece)
    BY <1>1, <1>7, <2>1, StandsForMore
  <2>3. M1Header(Binary, k) \in Seq(Byte)
    BY <1>3, HeaderIsBytes
  <2>4. (M1Header(Binary, k) \o SubSeq(whole, 1, pos)) \o piece
          = M1Header(Binary, k) \o (SubSeq(whole, 1, pos) \o piece)
    BY <1>7, <2>3, Regroup, Zenon
  <2> QED
    BY <1>7, <2>2, <2>4
<1>9. Decoding'
  <2>1. pos' \in 0..k
    BY <1>1, <1>2, <1>4
  <2> QED
    BY <1>1, <1>2, <1>8, <2>1 DEF Decoding, k, whole
<1> QED
  BY <1>1, <1>2, <1>5, <1>9 DEF HexIInv, Starting, SameAsBinary

\* With the last byte decoded, the digest is that of the text's bytes.
LEMMA CompleteKeepsHexIInv ==
  ASSUME HexIInv, CompleteHex
  PROVE  HexIInv'
<1> DEFINE k == Len(hex) \div 2
           whole == Decoded(hex)
<1>1. /\ hex_pc = "decode" /\ pos >= k
      /\ d0' = Finish(hasher).state /\ hex_pc' = "done"
      /\ UNCHANGED <<text, hex, code, chunk, pos>>
  BY DEF CompleteHex
<1>2. /\ text \in Texts /\ chunk \in [1..ChunkSize -> Byte]
      /\ hex = WithoutPrefix(text) /\ IsHex(hex) /\ k <= MaxInputSize
      /\ pos \in 0..k /\ code = "ok"
      /\ Stands(hasher, M1Header(Binary, k) \o SubSeq(whole, 1, pos))
  BY <1>1 DEF HexIInv, Decoding
<1>3. /\ text \in Seq(Character) /\ hex \in Seq(Character)
      /\ k \in Nat \ {0} /\ 2 * k = Len(hex) /\ whole \in Seq(Byte) /\ Len(whole) = k
  BY <1>2, TextsAreSequences, WithoutPrefixIs, DecodedIs
<1>4. /\ Len(hex) \in DigitCounts(text)
      /\ SubSeq(text, Len(text) - Len(hex) + 1, Len(text)) = hex
  BY <1>2, <1>3, DigitsAreFound
<1> HIDE DEF k, whole
<1>5. pos = k /\ SubSeq(whole, 1, pos) = whole
  BY <1>1, <1>2, <1>3, SubSeqFull
<1>6. d0' = Padded(M1Header(Binary, k) \o whole)
  BY <1>1, <1>2, <1>5, StandsDigest
<1>7. D0(Binary, whole) = Padded(M1Header(Binary, k) \o whole)
  BY <1>3, D0IsPadded
<1>8. SameAsBinary'
  <2>1. d0' = D0(Binary, Decoded(SubSeq(text', Len(text') - Len(hex) + 1, Len(text'))))
    BY <1>1, <1>4, <1>6, <1>7 DEF whole
  <2>2. ~(Len(hex) \div 2 > MaxInputSize) /\ Len(hex) \in DigitCounts(text')
    BY <1>1, <1>2, <1>3, <1>4, SizeAssumption DEF k
  <2>3. code' = "ok"
    BY <1>1, <1>2
  <2> QED
    BY <2>1, <2>2, <2>3 DEF SameAsBinary
<1> QED
  BY <1>1, <1>2, <1>8 DEF HexIInv, Starting, Decoding

LEMMA StepHexIInv == HexIInv /\ [HexNext]_hex_vars => HexIInv'
<1> SUFFICES ASSUME HexIInv, [HexNext]_hex_vars PROVE HexIInv'
  OBVIOUS
<1>1. CASE UNCHANGED hex_vars
  BY <1>1 DEF hex_vars, HexIInv, Starting, Decoding, SameAsBinary
<1> QED
  BY <1>1, CheckKeepsHexIInv, DecodeKeepsHexIInv, CompleteKeepsHexIInv DEF HexNext

\* Hexadecimal text and the bytes it spells have the same base digest, and the
\* text is refused exactly when it spells nothing, or too much.
THEOREM TextIsBinary == HexSpec => []SameAsBinary
<1>1. HexIInv => SameAsBinary
  BY DEF HexIInv
<1> QED
  BY <1>1, InitHexIInv, StepHexIInv, PTL DEF HexSpec

\* The operations on bytes give bytes.
BytesClosed ==
  /\ \A x, y \in Byte : Xor(x, y) \in Byte
  /\ \A s \in Seq(Byte) : \A k \in 1..D : DigestByte(s, k) \in Byte

-----------------------------------------------------------------------------
(* HMAC *)

\* A digest is a sequence of D bytes.
LEMMA StoreType ==
  ASSUME BytesClosed, NEW s \in Seq(Byte)
  PROVE  /\ Store(s) \in [1..D -> Byte] /\ Store(s) \in Seq(Byte)
         /\ Len(Store(s)) = D
<1>1. Store(s) \in [1..D -> Byte]
  BY DEF Store, BytesClosed
<1> QED
  BY <1>1, DigestAssumption

\* The key, hashed if it is long, filled up to a block and combined with a byte.
KeyOf(key) == IF Len(key) > B THEN HashOf(key) ELSE key

KeyPad(key, pad) ==
  [i \in 1..B |-> Xor(IF i <= Len(KeyOf(key)) THEN KeyOf(key)[i] ELSE Zero, pad)]

\* The key block of the code holds the key of RFC 2104 with zeros behind it.
LEMMA KeyBlockIs ==
  ASSUME BytesClosed, NEW key \in Seq(Byte)
  PROVE  /\ KeyOf(key) \in Seq(Byte)
         /\ \A i \in 1..B :
              KeyBlock(key)[i] = IF i <= Len(KeyOf(key)) THEN KeyOf(key)[i] ELSE Zero
<1>1. /\ KeyOf(key) \in Seq(Byte) /\ Len(KeyOf(key)) <= B
      /\ KeyBlock(key) = CopyInto(ZeroBlock, 0, KeyOf(key))
  <2>1. CASE Len(key) > B
    <3>1. Hash(key) = Padded(key) /\ Padded(key) \in Seq(Byte)
      BY HashPads
    <3>2. KeyOf(key) = Store(Hash(key)) /\ KeyBlock(key) = CopyInto(ZeroBlock, 0, KeyOf(key))
      BY <2>1, <3>1 DEF KeyOf, HashOf, KeyBlock
    <3>3. KeyOf(key) \in Seq(Byte) /\ Len(KeyOf(key)) = D
      BY <3>1, <3>2, StoreType
    <3> QED
      BY <3>2, <3>3, DigestAssumption, BlockAssumption
  <2>2. CASE ~(Len(key) > B)
    BY <2>2, BlockAssumption DEF KeyOf, KeyBlock
  <2> QED
    BY <2>1, <2>2
<1> DEFINE key_ == KeyOf(key)
<1> HIDE DEF key_
<1>2. key_ \in Seq(Byte) /\ Len(key_) <= B /\ KeyBlock(key) = CopyInto(ZeroBlock, 0, key_)
  BY <1>1 DEF key_
<1>3. \A i \in 1..B : KeyBlock(key)[i] = IF i <= Len(key_) THEN key_[i] ELSE Zero
  BY <1>2, BlockAssumption DEF CopyInto, ZeroBlock
<1> QED
  BY <1>2, <1>3 DEF key_

\* The mid-states of the object are the padded keys.
LEMMA PadsAre ==
  ASSUME BytesClosed, NEW key \in Seq(Byte), NEW pad \in Byte
  PROVE  /\ AbsorbPaddedKey(KeyBlock(key), pad) = KeyPad(key, pad)
         /\ KeyPad(key, pad) \in Seq(Byte) /\ Len(KeyPad(key, pad)) = B
<1>1. [i \in 1..B |-> Xor(KeyBlock(key)[i], pad)] = KeyPad(key, pad)
  BY KeyBlockIs DEF KeyPad
<1>2. KeyPad(key, pad) \in [1..B -> Byte]
  <2> DEFINE k == KeyOf(key)
  <2>1. k \in Seq(Byte)
    BY KeyBlockIs
  <2> HIDE DEF k
  <2>2. \A i \in 1..B : (IF i <= Len(k) THEN k[i] ELSE Zero) \in Byte
    BY <2>1, OctetsAreBytes
  <2>3. \A i \in 1..B : Xor(IF i <= Len(k) THEN k[i] ELSE Zero, pad) \in Byte
    BY <2>2 DEF BytesClosed
  <2> QED
    BY <2>3 DEF KeyPad, k
<1>3. KeyPad(key, pad) \in Seq(Byte) /\ Len(KeyPad(key, pad)) = B
  BY <1>2, BlockIsSeq
<1>4. <<>> \o KeyPad(key, pad) = KeyPad(key, pad)
  BY <1>3, ConcatEmptySeq
<1> QED
  BY <1>1, <1>3, <1>4 DEF AbsorbPaddedKey, Compress

\* The pads are bytes.
LEMMA PadBytes == Ipad \in Byte /\ Opad \in Byte
BY OctetAssumption DEF Ipad, Opad

\* What an object of a password is.
LEMMA NewMacIs ==
  ASSUME BytesClosed, NEW key \in Seq(Byte)
  PROVE  /\ NewMac(key).inner_state = KeyPad(key, Ipad)
         /\ NewMac(key).outer_state = KeyPad(key, Opad)
         /\ NewMac(key).inner = Resume(KeyPad(key, Ipad), B)
BY PadsAre, PadBytes DEF NewMac

\* An object that is given a text in two pieces has the tag of RFC 2104.
LEMMA TagIsHmac ==
  ASSUME BytesClosed, NEW key \in Seq(Byte), NEW x \in Seq(Byte), NEW y \in Seq(Byte)
  PROVE  MacTag(MacUpdate(MacUpdate(NewMac(key), x), y)) = HmacOf(key, x \o y)
<1> DEFINE ip == KeyPad(key, Ipad)
           op == KeyPad(key, Opad)
           g0 == Resume(ip, B)
           g1 == Update(g0, x)
           g2 == Update(g1, y)
           m  == MacUpdate(MacUpdate(NewMac(key), x), y)
<1>1. /\ ip \in Seq(Byte) /\ Len(ip) = B /\ op \in Seq(Byte) /\ Len(op) = B
  BY PadsAre, PadBytes
<1>2. m.inner = g2 /\ m.outer_state = op
  BY NewMacIs DEF MacUpdate, NewMac
<1> HIDE DEF ip, op, m
<1>3. /\ g0 \in Hasher /\ g0.state = ip /\ g0.length = Len(ip) /\ Content(g0) = ip
  BY <1>1, BlockAligned, ResumedStands
<1> HIDE DEF g0
<1>4. /\ g1 \in Hasher /\ g1.length = Len(ip) + Len(x) /\ Aligned(Len(g1.state))
      /\ Content(g1) = ip \o x
  BY <1>1, <1>3, BlockAligned, UpdateExtends
<1>5. Len(ip \o x) = Len(ip) + Len(x) /\ ip \o x \in Seq(Byte)
  BY <1>1
<1> HIDE DEF g1
<1>6. Finish(g2).state = Padded((ip \o x) \o y)
  BY <1>4, <1>5, FinishedUpdate
<1>7. (ip \o x) \o y = ip \o (x \o y)
  BY <1>1, Regroup, ZenonT(60)
<1> DEFINE d == Store(Finish(g2).state)
<1>8. d = HashOf(ip \o (x \o y))
  BY <1>6, <1>7 DEF HashOf
<1>9. d \in Seq(Byte)
  <2>1. x \o y \in Seq(Byte) /\ ip \o (x \o y) \in Seq(Byte)
    BY <1>1
  <2>2. Padded(ip \o (x \o y)) \in Seq(Byte)
    BY <2>1, HashPads
  <2> QED
    BY <1>6, <1>7, <2>2, StoreType
<1> HIDE DEF g2
<1>10. MacTag(m) = Store(Finish(Update(Resume(op, B), d)).state)
  BY <1>2 DEF MacTag
<1> DEFINE o == Resume(op, B)
<1>11. o \in Hasher /\ o.state = op /\ o.length = Len(op) /\ Content(o) = op
  BY <1>1, BlockAligned, ResumedStands
<1> HIDE DEF o, d
<1>12. Finish(Update(o, d)).state = Padded(op \o d)
  BY <1>1, <1>9, <1>11, BlockAligned, FinishedUpdate
<1>13. MacTag(m) = HashOf(op \o d)
  BY <1>10, <1>12 DEF HashOf, o
<1>14. HmacOf(key, x \o y) = HashOf(op \o HashOf(ip \o (x \o y)))
  BY DEF HmacOf, KeyPad, KeyOf, ip, op
<1> QED
  BY <1>8, <1>13, <1>14 DEF m

-----------------------------------------------------------------------------
(* The buffer of the inner loop *)

\* The buffer with a digest at its head.
BlockOf(u) == [i \in 1..B |-> IF i <= D THEN u[i] ELSE PaddedTail[i]]

\* What is behind the head.
HasTail(b) == b \in [1..B -> Byte] /\ \A i \in (D + 1)..B : b[i] = PaddedTail[i]

\* The powers a length of two bytes and an index of four are made with.
LEMMA SmallPowers ==
  /\ \A e : e = 0 => 256 ^ e = 1
  /\ \A e : e = 1 => 256 ^ e = 256
  /\ \A e \in 0..3 : 256 ^ e \in Nat \ {0}
<1>1. 256 ^ 0 = 1 /\ 256 ^ 1 = 256
  BY PowersAssumption
<1>2. 256 ^ 2 = 65536 /\ 256 ^ 3 = 16777216
  BY PowersAssumption
<1>3. \A e : e = 0 => 256 ^ e = 1
  BY <1>1
<1>4. \A e : e = 1 => 256 ^ e = 256
  BY <1>1
<1>5. ASSUME NEW e \in 0..3 PROVE 256 ^ e \in Nat \ {0}
  <2>1. e = 0 \/ e = 1 \/ e = 2 \/ e = 3
    OBVIOUS
  <2>2. CASE e = 0
    BY <1>1, <2>2
  <2>3. CASE e = 1
    BY <1>1, <2>3
  <2>4. CASE e = 2
    BY <1>2, <2>4
  <2>5. CASE e = 3
    BY <1>2, <2>5
  <2> QED
    BY <2>1, <2>2, <2>3, <2>4, <2>5
<1> QED
  BY <1>3, <1>4, <1>5, Zenon

\* What HMAC appends to a digest behind a padded key, byte by byte: the last two
\* bytes of the length field hold all of it.
LEMMA TailIs ==
  /\ Padding(B + D) \in Seq(Byte) /\ Len(Padding(B + D)) = B - D
  /\ \A i \in 1..(B - D) : Padding(B + D)[i] = PaddedTail[D + i]
<1> DEFINE n == B + D
           z == B - D - 1 - L
<1>1. B \in Nat /\ D \in Nat \ {0} /\ L \in Nat /\ L >= 2 /\ D + 1 + L <= B /\ n * 8 < 65536
  BY BlockAssumption, DigestAssumption, LengthAssumption
<1>2. ZeroCount(n) = z /\ z \in Nat /\ n \in Nat
  <2>1. D \in 0..(B - 1) /\ ~(D + 1 > B - L)
    BY <1>1
  <2>2. ZeroCount(B + D) = B - L - D - 1
    BY <1>1, <2>1, BlockAligned, ZeroCountValue
  <2> QED
    BY <1>1, <2>2
<1>3. PaddingIs(Padding(n), z, LengthField(n))
  BY <1>2, PaddingBytes
<1>4. ASSUME NEW i \in 1..L
      PROVE  LengthField(n)[i] = IF i = L - 1 THEN Octet((n * 8) \div 256)
                                 ELSE IF i = L THEN Octet((n * 8) % 256) ELSE Zero
  <2> DEFINE bits == 8 * n
  <2>1. bits \in Nat /\ bits < 65536 /\ bits = n * 8
    BY <1>1, <1>2
  <2>2. LengthField(n)[i] = Octet((bits \div (256 ^ (L - i))) % 256)
    BY DEF LengthField
  <2> HIDE DEF bits, n
  <2>3. CASE i = L
    <3>1. bits \div 1 = bits
      BY <2>1
    <3>2. 256 ^ (L - i) = 1
      <4>1. L - i = 0
        BY <1>1, <2>3
      <4> QED
        BY <4>1, SmallPowers, Zenon
    <3> QED
      BY <1>1, <2>1, <2>2, <2>3, <3>1, <3>2
  <2>4. CASE i = L - 1
    <3>1. (bits \div 256) % 256 = bits \div 256
      <4>1. bits \div 256 \in 0..255
        BY <2>1
      <4> DEFINE q == bits \div 256
      <4> HIDE DEF q
      <4>2. q \in 0..255 => q % 256 = q
        OBVIOUS
      <4> QED
        BY <4>1, <4>2 DEF q
    <3>2. 256 ^ (L - i) = 256
      <4>1. L - i = 1
        BY <1>1, <2>4
      <4> QED
        BY <4>1, SmallPowers, Zenon
    <3> QED
      BY <1>1, <2>1, <2>2, <2>4, <3>1, <3>2
  <2>5. CASE i # L /\ i # L - 1
    <3>1. PICK e : e = 256 ^ (L - i)
      OBVIOUS
    <3>2. e >= 65536 /\ e \in Nat
      <4>1. L - i \in 2..(L - 1) /\ L - i \in 0..(L - 1)
        BY <1>1, <2>5
      <4> QED
        BY <3>1, <4>1, PowersAssumption, PowerAssumption
    <3>3. bits \div e = 0
      BY <2>1, <3>2
    <3>4. LengthField(n)[i] = Octet(0 % 256)
      BY <2>2, <3>1, <3>3
    <3> QED
      BY <2>5, <3>4 DEF Zero
  <2> QED
    BY <2>3, <2>4, <2>5
<1>5. ASSUME NEW i \in 1..(B - D)
      PROVE  Padding(n)[i] = PaddedTail[D + i]
  <2>1. D + i \in 1..B /\ 1 + z + L = B - D
    BY <1>1
  <2>2. PaddedTail[D + i] = IF D + i = D + 1 THEN Terminator
                            ELSE IF D + i = B - 1 THEN Octet((n * 8) \div 256)
                            ELSE IF D + i = B THEN Octet((n * 8) % 256) ELSE Zero
    BY <2>1 DEF PaddedTail
  <2>3. Padding(n)[i] = IF i = 1 THEN Terminator ELSE IF i <= 1 + z THEN Zero
                        ELSE LengthField(n)[i - (1 + z)]
    BY <1>3, <2>1 DEF PaddingIs
  <2>4. CASE i <= 1 + z
    BY <1>1, <2>2, <2>3, <2>4
  <2>5. CASE ~(i <= 1 + z)
    <3>1. i - (1 + z) \in 1..L
      BY <1>1, <2>1, <2>5
    <3> DEFINE k == i - (1 + z)
    <3>2. k \in 1..L /\ (k = L - 1 <=> D + i = B - 1) /\ (k = L <=> D + i = B)
          /\ i # 1 /\ D + i # D + 1
      BY <1>1, <1>2, <2>1, <2>5, <3>1
    <3> HIDE DEF k, z, n
    <3>3. Padding(n)[i] = LengthField(n)[k]
      BY <2>3, <2>5, <3>2 DEF k
    <3>4. LengthField(n)[k] = IF k = L - 1 THEN Octet((n * 8) \div 256)
                              ELSE IF k = L THEN Octet((n * 8) % 256) ELSE Zero
      BY <1>4, <3>2
    <3> QED
      BY <2>2, <3>2, <3>3, <3>4
  <2> QED
    BY <2>4, <2>5
<1> QED
  BY <1>1, <1>3, <1>5 DEF PaddingIs

\* The buffer begins with a tail, and whatever digest is copied to its head the
\* tail stays.
LEMMA TailStays ==
  /\ HasTail(PaddedTail)
  /\ \A b, u : HasTail(b) /\ u \in [1..D -> Byte]
                 => CopyInto(b, 0, u) = BlockOf(u) /\ HasTail(BlockOf(u))
<1>1. B \in Nat /\ D \in Nat \ {0} /\ D + 1 + L <= B /\ L \in Nat
  BY BlockAssumption, DigestAssumption
<1>2. PaddedTail \in [1..B -> Byte]
  <2> DEFINE bits == (B + D) * 8
  <2>1. bits \in Nat /\ bits < 65536
    BY <1>1, LengthAssumption
  <2>2. bits \div 256 \in 0..255 /\ bits % 256 \in 0..255
    <3> HIDE DEF bits
    <3> QED
      BY <2>1
  <2>3. Octet(bits \div 256) \in Byte /\ Octet(bits % 256) \in Byte
    BY <2>2, OctetAssumption
  <2> QED
    BY <2>3, OctetsAreBytes DEF PaddedTail
<1>3. ASSUME NEW b, NEW u, HasTail(b), u \in [1..D -> Byte]
      PROVE  CopyInto(b, 0, u) = BlockOf(u) /\ HasTail(BlockOf(u))
  <2>1. Len(u) = D /\ u \in Seq(Byte)
    BY <1>1, <1>3
  <2>2. \A i \in 1..B : CopyInto(b, 0, u)[i] = IF i <= D THEN u[i] ELSE PaddedTail[i]
    <3>1. ASSUME NEW i \in 1..B
          PROVE  CopyInto(b, 0, u)[i] = IF i <= D THEN u[i] ELSE PaddedTail[i]
      <4>1. CopyInto(b, 0, u)[i] = IF i - 0 \in 1..Len(u) THEN u[i - 0] ELSE b[i]
        BY DEF CopyInto
      <4>2. i - 0 = i /\ (i \in 1..Len(u) <=> i <= D)
        BY <2>1, <1>1
      <4>3. i <= D \/ i \in (D + 1)..B
        BY <1>1
      <4> QED
        BY <1>3, <4>1, <4>2, <4>3 DEF HasTail
    <3> QED
      BY <3>1
  <2>3. CopyInto(b, 0, u) = BlockOf(u)
    BY <2>2 DEF CopyInto, BlockOf
  <2>4. BlockOf(u) \in [1..B -> Byte]
    BY <1>1, <1>2, <1>3 DEF BlockOf
  <2>5. \A i \in (D + 1)..B : BlockOf(u)[i] = PaddedTail[i]
    BY <1>1 DEF BlockOf
  <2> QED
    BY <2>3, <2>4, <2>5 DEF HasTail
<1> QED
  BY <1>2, <1>3 DEF HasTail

\* The buffer with a digest u is u as HMAC pads it behind a block.
LEMMA BlockPads ==
  ASSUME NEW u \in [1..D -> Byte], NEW p \in Seq(Byte), Len(p) = B
  PROVE  /\ Compress(p, BlockOf(u)) = Padded(p \o u)
         /\ SubSeq(BlockOf(u), D + 1, B) = Padding(B + D)
         /\ SubSeq(BlockOf(u), 1, D) = u
<1>1. B \in Nat /\ D \in Nat \ {0} /\ D + 1 <= B
  BY BlockAssumption, DigestAssumption
<1>2. u \in Seq(Byte) /\ Len(u) = D
  BY <1>1
<1> DEFINE pad == Padding(B + D)
<1>3. /\ pad \in Seq(Byte) /\ Len(pad) = B - D
      /\ \A i \in 1..(B - D) : pad[i] = PaddedTail[D + i]
  BY TailIs
<1>4. BlockOf(u) \in Seq(Byte) /\ Len(BlockOf(u)) = B
      /\ \A i \in 1..B : BlockOf(u)[i] = IF i <= D THEN u[i] ELSE PaddedTail[i]
  BY ZenonT(60), TailStays, BlockIsSeq DEF HasTail, BlockOf
<1> HIDE DEF pad
<1> DEFINE b == BlockOf(u)
<1> HIDE DEF b
<1>5. b \in Seq(Byte) /\ Len(b) = B
      /\ \A i \in 1..B : b[i] = IF i <= D THEN u[i] ELSE PaddedTail[i]
  BY <1>4 DEF b
<1>6. b = u \o pad
  <2>1. /\ u \o pad \in Seq(Byte) /\ Len(u \o pad) = Len(u) + Len(pad)
        /\ \A i \in 1..(Len(u) + Len(pad)) :
             (u \o pad)[i] = IF i <= Len(u) THEN u[i] ELSE pad[i - Len(u)]
    BY <1>2, <1>3, ConcatProperties
  <2>2. Len(u) + Len(pad) = B
    BY <1>1, <1>2, <1>3
  <2>3. ASSUME NEW i \in 1..B PROVE b[i] = (u \o pad)[i]
    <3>1. CASE i <= D
      BY <1>2, <1>5, <2>1, <2>2, <3>1
    <3>2. CASE ~(i <= D)
      <4>1. i - D \in 1..(B - D) /\ D + (i - D) = i
        BY <1>1, <3>2
      <4>2. pad[i - D] = PaddedTail[i]
        BY <1>3, <4>1
      <4> QED
        BY <1>2, <1>5, <2>1, <2>2, <3>2, <4>2
    <3> QED
      BY <3>1, <3>2
  <2> QED
    BY <1>5, <2>1, <2>2, <2>3, SeqEqual
<1>7. (p \o u) \o pad = p \o (u \o pad)
  BY <1>2, <1>3, Regroup, ZenonT(60)
<1>8. Len(p \o u) = B + D
  BY <1>2
<1>9. SubSeq(b, D + 1, B) = pad
  <2>1. /\ SubSeq(b, D + 1, B) \in Seq(Byte) /\ Len(SubSeq(b, D + 1, B)) = B - D
        /\ \A i \in 1..(B - D) : SubSeq(b, D + 1, B)[i] = b[D + i]
    BY <1>1, <1>5
  <2>2. ASSUME NEW i \in 1..(B - D) PROVE b[D + i] = pad[i]
    <3>1. D + i \in 1..B /\ ~(D + i <= D)
      BY <1>1
    <3>2. b[D + i] = PaddedTail[D + i]
      BY <1>5, <3>1
    <3> QED
      BY <1>3, <3>2
  <2> QED
    BY <1>3, <2>1, <2>2, SeqEqual
<1>10. SubSeq(b, 1, D) = u
  <2>1. /\ SubSeq(b, 1, D) \in Seq(Byte) /\ Len(SubSeq(b, 1, D)) = D
        /\ \A i \in 1..D : SubSeq(b, 1, D)[i] = b[i]
    BY <1>1, <1>5
  <2>2. \A i \in 1..D : b[i] = u[i]
    BY <1>1, <1>5
  <2> QED
    BY <1>2, <2>1, <2>2, SeqEqual
<1> QED
  BY <1>6, <1>7, <1>8, <1>9, <1>10 DEF b, pad, Compress, Padded

\* The two compressions of the inner loop are the HMAC of the term before.
LEMMA NextIsHmac ==
  ASSUME BytesClosed, NEW key \in Seq(Byte), NEW u \in [1..D -> Byte]
  PROVE  LET mac     == NewMac(key)
             inner   == Compress(mac.inner_state, BlockOf(u))
             between == CopyInto(BlockOf(u), 0, Store(inner))
             outer   == Store(Compress(mac.outer_state, between))
         IN  /\ outer = HmacOf(key, u) /\ outer \in [1..D -> Byte]
             /\ CopyInto(between, 0, outer) = BlockOf(outer)
<1> DEFINE ip == KeyPad(key, Ipad)
           op == KeyPad(key, Opad)
           inner == Compress(NewMac(key).inner_state, BlockOf(u))
           d == Store(inner)
           between == CopyInto(BlockOf(u), 0, d)
           outer == Store(Compress(NewMac(key).outer_state, between))
<1>1. /\ ip \in Seq(Byte) /\ Len(ip) = B /\ op \in Seq(Byte) /\ Len(op) = B
      /\ NewMac(key).inner_state = ip /\ NewMac(key).outer_state = op
  BY PadsAre, PadBytes, NewMacIs
<1>2. HmacOf(key, u) = HashOf(op \o HashOf(ip \o u))
  BY DEF HmacOf, KeyPad, KeyOf, ip, op
<1> HIDE DEF ip, op
<1>3. inner = Padded(ip \o u)
  BY <1>1, BlockPads
<1>4. u \in Seq(Byte)
  BY DigestAssumption
<1>5. ip \o u \in Seq(Byte)
  BY <1>1, <1>4
<1>6. d \in [1..D -> Byte] /\ d = HashOf(ip \o u)
  BY <1>3, <1>5, HashPads, StoreType DEF HashOf
<1> HIDE DEF inner, d
<1>7. between = BlockOf(d) /\ HasTail(between)
  BY <1>6, TailStays DEF HasTail
<1>8. Compress(op, between) = Padded(op \o d)
  BY <1>1, <1>6, <1>7, BlockPads
<1>9. d \in Seq(Byte) /\ op \o d \in Seq(Byte)
  BY <1>1, <1>6, DigestAssumption
<1>10. outer \in [1..D -> Byte] /\ outer = HashOf(op \o d)
  BY <1>1, <1>8, <1>9, HashPads, StoreType DEF HashOf
<1> HIDE DEF outer, between
<1>11. CopyInto(between, 0, outer) = BlockOf(outer)
  BY <1>7, <1>10, TailStays
<1> QED
  BY <1>2, <1>6, <1>10, <1>11 DEF outer, between, d, inner

-----------------------------------------------------------------------------
(* Terms and sums *)

\* Sets of natural numbers have a least one.
LEMMA LeastExists ==
  ASSUME NEW T \in SUBSET Nat, T # {}
  PROVE  \E n \in T : \A m \in T : n <= m
<1> DEFINE F == {0..k : k \in T}
<1>1. F \subseteq FiniteSubsetsOf(Nat) /\ F # {}
  <2>1. ASSUME NEW k \in T PROVE 0..k \in FiniteSubsetsOf(Nat)
    BY FS_Interval DEF FiniteSubsetsOf
  <2> QED
    BY <2>1
<1>2. PICK x \in F : \A y \in F : <<y, x>> \notin StrictSubsetOrdering(Nat)
  <2> HIDE DEF F
  <2> QED
    BY <1>1, WFMin, FS_StrictSubsetOrderingWellFounded
<1>3. PICK n \in T : x = 0..n
  OBVIOUS
<1>4. ASSUME NEW m \in T PROVE n <= m
  <2> SUFFICES ASSUME m < n PROVE FALSE
    OBVIOUS
  <2>1. 0..m \in F
    OBVIOUS
  <2>2. /\ 0..m \in SUBSET Nat /\ 0..n \in SUBSET Nat
        /\ 0..m \subseteq 0..n /\ n \in 0..n /\ n \notin 0..m
    OBVIOUS
  <2>3. <<0..m, 0..n>> \in StrictSubsetOrdering(Nat)
    BY <2>2 DEF StrictSubsetOrdering
  <2> QED
    BY <1>2, <1>3, <2>1, <2>3
<1> QED
  BY <1>4

\* Induction over a set of numbers.
LEMMA Induct ==
  ASSUME NEW T \in SUBSET Nat, 0 \in T, \A n \in T : n + 1 \in T
  PROVE  T = Nat
<1> SUFFICES ASSUME T # Nat PROVE FALSE
  OBVIOUS
<1>1. PICK n \in Nat \ T : \A m \in Nat \ T : n <= m
  BY LeastExists
<1>2. n # 0 /\ n - 1 \in Nat /\ n - 1 \in T
  BY <1>1
<1> QED
  BY <1>1, <1>2

\* HMAC and its argument INT(i) are the same in the promise.
LEMMA PromisedHmac ==
  /\ \A key, content : Rfc!HmacOf(key, content) = HmacOf(key, content)
  /\ \A i : Rfc!Int4(i) = IndexBytes(i)
<1>1. \A m : Rfc!Padded(m) = Padded(m)
  BY DEF Padded, Rfc!Padded, Padding, Rfc!Padding, ZeroCount,
         Rfc!ZeroCount, LengthField, Rfc!LengthField,
         Zero, Rfc!Zero, Terminator, Rfc!Terminator
<1>2. \A m : Rfc!HashOf(m) = HashOf(m)
  BY <1>1 DEF HashOf, Rfc!HashOf, Store, Rfc!Store
<1>3. \A key, content : Rfc!HmacOf(key, content) = HmacOf(key, content)
  BY <1>2 DEF HmacOf, Rfc!HmacOf, Ipad, Rfc!Ipad, Opad, Rfc!Opad,
              Zero, Rfc!Zero
<1> QED
  BY <1>3 DEF Rfc!Int4, IndexBytes

\* The terms of a block, one after another.
LEMMA Terms ==
  ASSUME NEW key, NEW salt, NEW i
  PROVE  LET U == Rfc!U(key, salt, i)
         IN  /\ U[1] = HmacOf(key, salt \o IndexBytes(i))
             /\ \A n \in 2..MaxCount : U[n] = HmacOf(key, U[n - 1])
<1> DEFINE First == Rfc!HmacOf(key, salt \o Rfc!Int4(i))
           Then(x) == Rfc!HmacOf(key, x)
           Is(f, n) == f = [k \in 1..n |-> IF k = 1 THEN First ELSE Then(f[k - 1])]
           S == {n \in Nat : \E f : Is(f, n)}
           U == Rfc!U(key, salt, i)
<1>0. U = CHOOSE f : Is(f, MaxCount)
  BY DEF Rfc!U
<1>1. First = HmacOf(key, salt \o IndexBytes(i)) /\ \A x : Then(x) = HmacOf(key, x)
  BY PromisedHmac
<1> HIDE DEF First, Then, U
<1>2. S = Nat
  <2>1. 0 \in S
    <3> DEFINE f == [k \in 1..0 |-> First]
    <3>1. Is(f, 0)
      OBVIOUS
    <3> QED
      BY <3>1
  <2>2. ASSUME NEW n \in S PROVE n + 1 \in S
    <3>1. PICK f : Is(f, n)
      OBVIOUS
    <3> DEFINE g == [k \in 1..(n + 1) |-> IF k = 1 THEN First
                                           ELSE IF k = n + 1 THEN Then(f[n]) ELSE f[k]]
    <3>2. ASSUME NEW k \in 1..(n + 1)
          PROVE  g[k] = IF k = 1 THEN First ELSE Then(g[k - 1])
      <4>1. CASE k = 1
        BY <4>1
      <4>2. CASE k # 1 /\ k = n + 1
        <5>1. g[n] = f[n]
          <6>1. n \in 1..n /\ n \in 1..(n + 1)
            BY <4>2
          <6>2. f[n] = IF n = 1 THEN First ELSE Then(f[n - 1])
            BY <3>1, <6>1
          <6>3. g[n] = IF n = 1 THEN First ELSE f[n]
            BY <6>1
          <6> QED
            BY <6>2, <6>3
        <5>2. k - 1 = n /\ g[k] = Then(f[n])
          BY <4>2
        <5> HIDE DEF g
        <5> QED
          BY <4>2, <5>1, <5>2
      <4>3. CASE k # 1 /\ k # n + 1
        <5>1. k \in 1..n /\ k - 1 \in 1..n /\ k - 1 # n + 1
          BY <4>3
        <5>2. f[k] = Then(f[k - 1]) /\ f[k - 1] = IF k - 1 = 1 THEN First ELSE Then(f[k - 1 - 1])
          BY <3>1, <4>3, <5>1
        <5>3. g[k] = f[k] /\ g[k - 1] = f[k - 1]
          BY <4>3, <5>1, <5>2
        <5> HIDE DEF g
        <5> QED
          BY <4>3, <5>2, <5>3
      <4> QED
        BY <4>1, <4>2, <4>3
    <3>3. Is(g, n + 1)
      BY <3>2
    <3>4. \E e : Is(e, n + 1)
      BY <3>3
    <3> HIDE DEF Is
    <3> QED
      BY <3>4
  <2> QED
    BY <2>1, <2>2, Induct
<1>3. \E f : Is(f, MaxCount)
  BY <1>2, ArgumentsAssumption
<1>4. Is(U, MaxCount)
  <2> HIDE DEF Is
  <2> QED
    BY <1>0, <1>3
<1>5. MaxCount \in Nat \ {0}
  BY ArgumentsAssumption
<1>6. U[1] = First
  BY <1>4, <1>5
<1>7. \A n \in 2..MaxCount : U[n] = Then(U[n - 1])
  BY <1>4, <1>5
<1> QED
  BY <1>1, <1>6, <1>7 DEF U

\* The sums of the terms, one after another.
LEMMA Sums ==
  ASSUME NEW key, NEW salt, NEW i
  PROVE  LET U == Rfc!U(key, salt, i)
         IN  /\ Rfc!T(key, salt, i, 1) = U[1]
             /\ \A n \in 2..MaxCount :
                  Rfc!T(key, salt, i, n)
                    = Rfc!XorBytes(Rfc!T(key, salt, i, n - 1), U[n])
<1> DEFINE U == Rfc!U(key, salt, i)
           Then(x, k) == Rfc!XorBytes(x, U[k])
           Is(f, n) == f = [k \in 1..n |-> IF k = 1 THEN U[1] ELSE Then(f[k - 1], k)]
           S == {n \in Nat : \E f : Is(f, n)}
           sum == CHOOSE f : Is(f, MaxCount)
<1>0. \A c : Rfc!T(key, salt, i, c) = sum[c]
  BY DEF Rfc!T
<1>1. \A x, k : Then(x, k) = Rfc!XorBytes(x, U[k])
  OBVIOUS
<1> HIDE DEF U, Then
<1>2. S = Nat
  <2>1. 0 \in S
    <3> DEFINE f == [k \in 1..0 |-> U[1]]
    <3>1. Is(f, 0)
      OBVIOUS
    <3> QED
      BY <3>1
  <2>2. ASSUME NEW n \in S PROVE n + 1 \in S
    <3>1. PICK f : Is(f, n)
      OBVIOUS
    <3> DEFINE g == [k \in 1..(n + 1) |-> IF k = 1 THEN U[1]
                                           ELSE IF k = n + 1 THEN Then(f[n], k) ELSE f[k]]
    <3>2. ASSUME NEW k \in 1..(n + 1)
          PROVE  g[k] = IF k = 1 THEN U[1] ELSE Then(g[k - 1], k)
      <4>1. CASE k = 1
        BY <4>1
      <4>2. CASE k # 1 /\ k = n + 1
        <5>1. g[n] = f[n]
          <6>1. n \in 1..n /\ n \in 1..(n + 1)
            BY <4>2
          <6>2. f[n] = IF n = 1 THEN U[1] ELSE Then(f[n - 1], n)
            BY <3>1, <6>1
          <6>3. g[n] = IF n = 1 THEN U[1] ELSE f[n]
            BY <6>1
          <6> QED
            BY <6>2, <6>3
        <5>2. k - 1 = n /\ g[k] = Then(f[n], k)
          BY <4>2
        <5> HIDE DEF g
        <5> QED
          BY <4>2, <5>1, <5>2
      <4>3. CASE k # 1 /\ k # n + 1
        <5>1. k \in 1..n /\ k - 1 \in 1..n /\ k - 1 # n + 1
          BY <4>3
        <5>2. /\ f[k] = Then(f[k - 1], k)
              /\ f[k - 1] = IF k - 1 = 1 THEN U[1] ELSE Then(f[k - 1 - 1], k - 1)
          BY <3>1, <4>3, <5>1
        <5>3. g[k] = f[k] /\ g[k - 1] = f[k - 1]
          BY <4>3, <5>1, <5>2
        <5> HIDE DEF g
        <5> QED
          BY <4>3, <5>2, <5>3
      <4> QED
        BY <4>1, <4>2, <4>3
    <3>3. Is(g, n + 1)
      BY <3>2
    <3>4. \E e : Is(e, n + 1)
      BY <3>3
    <3> HIDE DEF Is
    <3> QED
      BY <3>4
  <2> QED
    BY <2>1, <2>2, Induct
<1>3. \E f : Is(f, MaxCount)
  BY <1>2, ArgumentsAssumption
<1>4. Is(sum, MaxCount)
  <2> HIDE DEF Is
  <2> QED
    BY <1>3
<1>5. MaxCount \in Nat \ {0}
  BY ArgumentsAssumption
<1> HIDE DEF sum
<1>6. sum[1] = U[1]
  BY <1>4, <1>5
<1>7. \A n \in 2..MaxCount : sum[n] = Then(sum[n - 1], n)
  BY <1>4, <1>5
<1> QED
  BY <1>0, <1>1, <1>6, <1>7 DEF U

-----------------------------------------------------------------------------
(* The loops *)

TermOf(n) == Rfc!U(input.password, input.salt, block_index)[n]

SumOf(n) == Rfc!T(input.password, input.salt, block_index, n)

\* Between two blocks the buffer has its tail and the bytes written are those of
\* the blocks behind; in a block the buffer is the term and t the sum.
OuterOK ==
  pc = "outer" =>
    /\ HasTail(block)
    /\ Len(out) = IF offset < input.size THEN offset ELSE input.size

InnerOK ==
  pc = "inner" =>
    /\ offset < input.size /\ Len(out) = offset
    /\ j \in 1..Rfc!Count(input.iterations)
    /\ TermOf(j) \in [1..D -> Byte] /\ SumOf(j) \in [1..D -> Byte]
    /\ block = BlockOf(TermOf(j))
    /\ t = SumOf(j)

\* The object is never changed, and the offset is that of the block.
ArgumentsOK ==
  /\ pc \in {"outer", "inner", "done"}
  /\ input \in Input
  /\ prf = NewMac(input.password)
  /\ block_index \in Nat \ {0}
  /\ offset \in Nat /\ offset = (block_index - 1) * D
  /\ out \in Seq(Byte)

IInv == ArgumentsOK /\ OuterOK /\ InnerOK

\* The arguments are sequences of bytes, and the loop runs to the count.
LEMMA InputIs ==
  ASSUME input \in Input
  PROVE  /\ input.password \in Seq(Byte) /\ input.salt \in Seq(Byte)
         /\ input.iterations \in 0..MaxCount /\ input.size \in Nat
         /\ Rfc!Count(input.iterations) \in 1..MaxCount
         /\ \A n \in 1..Rfc!Count(input.iterations) :
              /\ n < input.iterations => n + 1 <= Rfc!Count(input.iterations)
              /\ n >= input.iterations => n = Rfc!Count(input.iterations)
<1>1. /\ input.password \in Passwords /\ input.salt \in Salts
      /\ input.iterations \in 0..MaxCount /\ input.size \in 0..MaxSize
  BY DEF Input
<1>2. MaxCount \in Nat \ {0} /\ MaxSize \in Nat
  BY ArgumentsAssumption
<1> QED
  BY <1>1, <1>2, ArgumentsAssumption DEF Rfc!Count

\* INT(i) is four bytes.
LEMMA IndexBytesType ==
  ASSUME NEW i \in Nat
  PROVE  IndexBytes(i) \in Seq(Byte)
<1>1. ASSUME NEW k \in 1..4
      PROVE  Octet((i \div (256 ^ (4 - k))) % 256) \in Byte
  <2>1. PICK e \in Nat \ {0} : e = 256 ^ (4 - k)
    BY SmallPowers, 4 - k \in 0..3
  <2>2. (i \div e) % 256 \in 0..255
    BY <2>1
  <2> QED
    BY <2>1, <2>2, OctetAssumption
<1>2. IndexBytes(i) \in [1..4 -> Byte]
  BY <1>1 DEF IndexBytes
<1>3. PICK n \in Nat : n = 4
  OBVIOUS
<1>4. IndexBytes(i) \in [1..n -> Byte]
  BY <1>2, <1>3
<1> QED
  BY <1>4

\* A code is a digest.
LEMMA HmacType ==
  ASSUME BytesClosed, NEW key \in Seq(Byte), NEW x \in Seq(Byte)
  PROVE  HmacOf(key, x) \in [1..D -> Byte]
<1> DEFINE ip == KeyPad(key, Ipad)
           op == KeyPad(key, Opad)
           d == HashOf(ip \o x)
<1>1. ip \in Seq(Byte) /\ op \in Seq(Byte)
  BY PadsAre, PadBytes
<1>2. HmacOf(key, x) = HashOf(op \o d)
  BY DEF HmacOf, KeyPad, KeyOf, ip, op
<1> HIDE DEF ip, op
<1>3. ip \o x \in Seq(Byte)
  BY <1>1
<1>4. d \in Seq(Byte)
  BY <1>3, HashPads, StoreType DEF HashOf
<1> HIDE DEF d
<1>5. op \o d \in Seq(Byte)
  BY <1>1, <1>4
<1> QED
  BY <1>2, <1>5, HashPads, StoreType DEF HashOf

\* The terms and sums of a step do not change while the block does not.
LEMMA SameTerms ==
  ASSUME UNCHANGED <<input, block_index>>
  PROVE  \A n : TermOf(n)' = TermOf(n) /\ SumOf(n)' = SumOf(n)
BY DEF TermOf, SumOf, Rfc!U, Rfc!T, Rfc!XorBytes, Rfc!HmacOf,
       Rfc!Int4

\* The first term.
LEMMA FirstTermIs ==
  ASSUME BytesClosed, IInv, FirstTerm
  PROVE  IInv'
<1>1. /\ pc = "outer" /\ offset < input.size
      /\ HasTail(block) /\ Len(out) = offset
      /\ input \in Input /\ prf = NewMac(input.password) /\ block_index \in Nat \ {0}
  BY DEF IInv, ArgumentsOK, OuterOK, FirstTerm
<1> DEFINE first == MacTag(MacUpdate(MacUpdate(prf, input.salt), IndexBytes(block_index)))
<1>2. /\ block' = CopyInto(block, 0, first) /\ t' = first
      /\ j' = 1 /\ pc' = "inner"
      /\ UNCHANGED <<input, prf, block_index, offset, out>>
  BY DEF FirstTerm
<1>3. /\ input.password \in Seq(Byte) /\ input.salt \in Seq(Byte)
      /\ 1 \in 1..Rfc!Count(input.iterations)
  BY <1>1, InputIs
<1>4. IndexBytes(block_index) \in Seq(Byte)
  BY <1>1, IndexBytesType
<1>5. first = HmacOf(input.password, input.salt \o IndexBytes(block_index))
  BY <1>1, <1>3, <1>4, TagIsHmac
<1>6. first \in [1..D -> Byte]
  <2>1. input.salt \o IndexBytes(block_index) \in Seq(Byte)
    BY <1>3, <1>4
  <2> QED
    BY <1>3, <1>5, <2>1, HmacType
<1>7. TermOf(1) = first /\ SumOf(1) = first
  BY <1>5, Terms, Sums DEF TermOf, SumOf
<1> HIDE DEF first
<1>8. block' = BlockOf(first)
  BY <1>1, <1>2, <1>6, TailStays
<1>9. TermOf(1)' = first /\ SumOf(1)' = first
  BY <1>2, <1>7, SameTerms
<1>10. ArgumentsOK'
  BY <1>2 DEF IInv, ArgumentsOK, Input
<1>11. OuterOK'
  BY <1>2 DEF OuterOK
<1>12. InnerOK'
  <2>1. /\ (offset < input.size)' /\ (Len(out) = offset)'
        /\ (j \in 1..Rfc!Count(input.iterations))'
    BY <1>1, <1>2, <1>3 DEF Rfc!Count
  <2>2. TermOf(j)' = first /\ SumOf(j)' = first
    BY <1>2, <1>9 DEF TermOf, SumOf
  <2>3. BlockOf(TermOf(j))' = BlockOf(first)
    BY <2>2 DEF BlockOf, PaddedTail
  <2> QED
    BY <1>2, <1>6, <1>8, <2>1, <2>2, <2>3 DEF InnerOK
<1> QED
  BY <1>10, <1>11, <1>12 DEF IInv

\* A further term.
LEMMA NextTermIs ==
  ASSUME BytesClosed, IInv, NextTerm
  PROVE  IInv'
<1>1. /\ pc = "inner" /\ j < input.iterations
      /\ offset < input.size /\ Len(out) = offset
      /\ j \in 1..Rfc!Count(input.iterations)
      /\ block = BlockOf(TermOf(j)) /\ TermOf(j) \in [1..D -> Byte]
      /\ t = SumOf(j) /\ SumOf(j) \in [1..D -> Byte]
      /\ input \in Input /\ prf = NewMac(input.password)
  BY DEF IInv, ArgumentsOK, InnerOK, NextTerm
<1>2. /\ input.password \in Seq(Byte)
      /\ j + 1 \in 2..MaxCount /\ (j + 1) - 1 = j
      /\ j + 1 \in 1..Rfc!Count(input.iterations)
  <2>1. /\ input.password \in Seq(Byte)
        /\ Rfc!Count(input.iterations) \in 1..MaxCount
        /\ j + 1 <= Rfc!Count(input.iterations)
    BY <1>1, InputIs
  <2>2. j \in Nat /\ j >= 1 /\ MaxCount \in Nat
    BY <1>1, ArgumentsAssumption
  <2> QED
    BY <2>1, <2>2
<1> DEFINE u == TermOf(j)
           inner == Compress(prf.inner_state, block)
           between == CopyInto(block, 0, Store(inner))
           next == Store(Compress(prf.outer_state, between))
<1>3. /\ block' = CopyInto(between, 0, next)
      /\ t' = [k \in 1..D |-> Xor(t[k], block'[k])]
      /\ j' = j + 1 /\ pc' = "inner"
      /\ UNCHANGED <<input, prf, block_index, offset, out>>
  BY DEF NextTerm
<1>4. /\ next = HmacOf(input.password, u) /\ next \in [1..D -> Byte]
      /\ CopyInto(between, 0, next) = BlockOf(next)
  BY <1>1, <1>2, NextIsHmac
<1>5. next = TermOf(j + 1)
  BY <1>2, <1>4, Terms DEF TermOf
<1> HIDE DEF next, between, inner, u
<1>6. \A k \in 1..D : block'[k] = next[k]
  <2>1. D \in Nat /\ D <= B /\ B \in Nat
    BY DigestAssumption, BlockAssumption
  <2> QED
    BY <1>3, <1>4, <2>1 DEF BlockOf
<1>7. t' = [k \in 1..D |-> Xor(SumOf(j)[k], next[k])]
  BY <1>1, <1>3, <1>6
<1>8. SumOf(j + 1) = [k \in 1..D |-> Xor(SumOf(j)[k], TermOf(j + 1)[k])]
  <2>1. ASSUME NEW n \in 2..MaxCount, n - 1 = j
        PROVE  SumOf(n) = [k \in 1..D |-> Xor(SumOf(j)[k], TermOf(n)[k])]
    <3> DEFINE F(m) == Rfc!T(input.password, input.salt, block_index, m)
               U == Rfc!U(input.password, input.salt, block_index)
    <3>1. \A m \in 2..MaxCount : F(m) = Rfc!XorBytes(F(m - 1), U[m])
      BY Sums
    <3> HIDE DEF F, U
    <3>2. F(n) = Rfc!XorBytes(F(n - 1), U[n])
      BY <3>1
    <3>3. F(n - 1) = F(j)
      BY <2>1
    <3> QED
      BY <3>2, <3>3 DEF F, U, SumOf, TermOf, Rfc!XorBytes
  <2> QED
    BY <1>2, <2>1
<1>9. t' = SumOf(j + 1)
  BY <1>5, <1>7, <1>8
<1>10. SumOf(j + 1) \in [1..D -> Byte]
  <2>1. \A k \in 1..D : SumOf(j)[k] \in Byte /\ next[k] \in Byte
    BY <1>1, <1>4
  <2>2. \A k \in 1..D : Xor(SumOf(j)[k], next[k]) \in Byte
    BY <2>1 DEF BytesClosed
  <2> QED
    BY <1>7, <1>9, <2>2
<1>11. TermOf(j)' = next /\ SumOf(j)' = t'
  BY <1>3, <1>5, <1>9, SameTerms DEF TermOf, SumOf
<1>12. ArgumentsOK'
  BY <1>3 DEF IInv, ArgumentsOK, Input
<1>13. OuterOK'
  BY <1>3 DEF OuterOK
<1>14. InnerOK'
  <2>1. /\ (offset < input.size)' /\ (Len(out) = offset)'
        /\ (j \in 1..Rfc!Count(input.iterations))'
    BY <1>1, <1>2, <1>3 DEF Rfc!Count
  <2>2. BlockOf(TermOf(j))' = BlockOf(next)
    BY <1>11 DEF BlockOf, PaddedTail
  <2> QED
    BY <1>3, <1>4, <1>9, <1>10, <1>11, <2>1, <2>2 DEF InnerOK
<1> QED
  BY <1>12, <1>13, <1>14 DEF IInv

\* What is written of a block: the whole sum, or what is left of the size.
LEMMA WriteOutIs ==
  ASSUME IInv, WriteOut
  PROVE  /\ IInv'
         /\ Rfc!WriteBlock
<1>1. /\ pc = "inner" /\ j >= input.iterations
      /\ offset < input.size /\ Len(out) = offset
      /\ j \in 1..Rfc!Count(input.iterations)
      /\ block = BlockOf(TermOf(j)) /\ TermOf(j) \in [1..D -> Byte]
      /\ t = SumOf(j) /\ SumOf(j) \in [1..D -> Byte]
      /\ input \in Input /\ block_index \in Nat \ {0} /\ out \in Seq(Byte)
      /\ offset \in Nat /\ offset = (block_index - 1) * D
  BY DEF IInv, ArgumentsOK, InnerOK, WriteOut
<1>2. j = Rfc!Count(input.iterations) /\ input.size \in Nat
  BY <1>1, InputIs
<1>3. D \in Nat \ {0}
  BY DigestAssumption
<1> DEFINE left == input.size - offset
           part == SubSeq(t, 1, IF left < D THEN left ELSE D)
<1>4. /\ out' = out \o part /\ offset' = offset + D
      /\ block_index' = block_index + 1 /\ pc' = "outer"
      /\ UNCHANGED <<input, prf, block, t, j>>
  BY DEF WriteOut
<1>5. t \in Seq(Byte) /\ Len(t) = D
  BY <1>1, <1>3
<1>6. /\ left \in Nat /\ left > 0
      /\ part \in Seq(Byte) /\ Len(part) = IF left < D THEN left ELSE D
      /\ part = IF left < D THEN SubSeq(t, 1, left) ELSE t
  <2>1. left \in Nat /\ left > 0
    BY <1>1, <1>2
  <2> HIDE DEF left
  <2>2. part \in Seq(Byte) /\ Len(part) = IF left < D THEN left ELSE D
    BY <1>3, <1>5, <2>1
  <2>3. SubSeq(t, 1, D) = t
    BY <1>5, SubSeqFull
  <2> QED
    BY <2>1, <2>2, <2>3
<1>7. IInv'
  <2>1. out' \in Seq(Byte) /\ Len(out') = Len(out) + Len(part)
    BY <1>1, <1>4, <1>6, ConcatProperties
  <2>2. Len(out') = IF offset' < input.size THEN offset' ELSE input.size
    <3> HIDE DEF part
    <3> QED
      BY <1>1, <1>2, <1>3, <1>4, <1>6, <2>1
  <2>3. /\ offset' \in Nat /\ block_index' \in Nat \ {0}
        /\ offset' = (block_index' - 1) * D
    <3>1. ((block_index + 1) - 1) * D = (block_index - 1) * D + D
      <4> DEFINE q == block_index - 1
      <4>1. q \in Nat /\ (block_index + 1) - 1 = q + 1
        BY <1>1
      <4> HIDE DEF q
      <4>2. (q + 1) * D = q * D + D
        BY <1>3, <4>1
      <4> QED
        BY <4>1, <4>2 DEF q
    <3> QED
      BY <1>1, <1>3, <1>4, <3>1
  <2>4. HasTail(block)
    BY <1>1, TailStays
  <2>5. HasTail(block)'
    BY <1>4, <2>4 DEF HasTail, PaddedTail
  <2>6. OuterOK'
    BY <1>4, <2>2, <2>5 DEF OuterOK
  <2>7. InnerOK'
    BY <1>4 DEF InnerOK
  <2>8. ArgumentsOK'
    <3>1. prf' = NewMac(input.password)'
      BY <1>4 DEF IInv, ArgumentsOK
    <3> QED
      BY <1>1, <1>4, <2>1, <2>3, <3>1 DEF ArgumentsOK, Input
  <2> QED
    BY <2>6, <2>7, <2>8 DEF IInv
<1>8. Rfc!WriteBlock
  <2>1. (Len(out) \div D) + 1 = block_index
    <3> DEFINE q == block_index - 1
    <3>1. q \in Nat /\ Len(out) = q * D /\ q + 1 = block_index
      BY <1>1
    <3> HIDE DEF q
    <3>2. (q * D) \div D = q
      BY <1>3, <3>1
    <3> QED
      BY <3>1, <3>2
  <2>2. /\ input.size - Len(out) = left
        /\ Rfc!T(input.password, input.salt, (Len(out) \div D) + 1,
                     Rfc!Count(input.iterations)) = t
    BY <1>1, <1>2, <2>1 DEF SumOf
  <2>3. out' = out \o (IF left < D THEN SubSeq(t, 1, left) ELSE t)
    BY <1>4, <1>6
  <2> HIDE DEF left, part
  <2> QED
    BY <1>4, <1>6, <2>2, <2>3 DEF Rfc!WriteBlock
<1> QED
  BY <1>7, <1>8

\* Every step keeps the invariant.
LEMMA StepIInv == BytesClosed /\ IInv /\ [Next]_vars => IInv'
<1> SUFFICES ASSUME BytesClosed, IInv, [Next]_vars
             PROVE  IInv'
  OBVIOUS
<1>1. CASE FirstTerm
  BY <1>1, FirstTermIs
<1>2. CASE NextTerm
  BY <1>2, NextTermIs
<1>3. CASE WriteOut
  BY <1>3, WriteOutIs
<1>4. CASE Return
  BY <1>4 DEF Return, IInv, ArgumentsOK, OuterOK, InnerOK, Input
<1>5. CASE UNCHANGED vars
  <2>1. \A n : TermOf(n)' = TermOf(n) /\ SumOf(n)' = SumOf(n)
    BY <1>5, SameTerms DEF vars
  <2>2. TermOf(j)' = TermOf(j) /\ SumOf(j)' = SumOf(j)
    BY <1>5, <2>1 DEF vars, TermOf, SumOf
  <2>3. BlockOf(TermOf(j))' = BlockOf(TermOf(j))
    BY <2>2 DEF BlockOf, PaddedTail
  <2>4. HasTail(block)' <=> HasTail(block)
    BY <1>5 DEF vars, HasTail, PaddedTail
  <2>5. Rfc!Count(input.iterations)' = Rfc!Count(input.iterations)
    BY <1>5 DEF vars, Rfc!Count
  <2>6. InnerOK'
    BY <1>5, <2>2, <2>3, <2>5 DEF vars, IInv, InnerOK
  <2>7. OuterOK'
    BY <1>5, <2>4 DEF vars, IInv, OuterOK
  <2>8. ArgumentsOK'
    BY <1>5 DEF vars, IInv, ArgumentsOK, Input
  <2> QED
    BY <2>6, <2>7, <2>8 DEF IInv
<1> QED
  BY <1>1, <1>2, <1>3, <1>4, <1>5 DEF Next

\* The first call begins with the tail and without output.
LEMMA InitIInv == Init => IInv
<1> SUFFICES ASSUME Init PROVE IInv
  OBVIOUS
<1>1. ArgumentsOK
  <2>1. (1 - 1) * D = 0
    BY DigestAssumption
  <2> QED
    BY <2>1 DEF Init, ArgumentsOK
<1>2. OuterOK
  <2>1. input.size \in Nat
    BY InputIs DEF Init
  <2>2. Len(out) = 0 /\ offset = 0
    BY DEF Init
  <2>3. HasTail(block)
    BY TailStays DEF Init
  <2> QED
    BY <2>1, <2>2, <2>3 DEF OuterOK
<1>3. InnerOK
  BY DEF Init, InnerOK
<1> QED
  BY <1>1, <1>2, <1>3 DEF IInv

\* The buffer of the inner loop is the term of RFC 8018 behind which the padding
\* stays, and t the sum of the terms so far (pbkdf2.cpp:41-56): in every pass of
\* every block, for all passwords, salts, counts and sizes.
THEOREM BufferIsAlwaysTerm == ASSUME BytesClosed PROVE Spec => []BufferIsTerm
<1>1. IInv => BufferIsTerm
  <2> SUFFICES ASSUME IInv, pc = "inner"
               PROVE  /\ SubSeq(block, D + 1, B) = Padding(B + D)
                      /\ SubSeq(block, 1, D) = TermOf(j)
                      /\ t = SumOf(j)
    BY DEF BufferIsTerm, TermOf, SumOf
  <2>1. block = BlockOf(TermOf(j)) /\ TermOf(j) \in [1..D -> Byte] /\ t = SumOf(j)
        /\ input \in Input
    BY DEF IInv, InnerOK, ArgumentsOK
  <2>2. KeyPad(input.password, Ipad) \in Seq(Byte) /\ Len(KeyPad(input.password, Ipad)) = B
    BY <2>1, InputIs, PadsAre, PadBytes
  <2> QED
    BY <2>1, <2>2, BlockPads
<1>2. BytesClosed /\ IInv /\ [Next]_vars => IInv'
  BY StepIInv
<1>3. IInv /\ [Next]_vars => IInv'
  BY <1>2
<1> QED
  BY <1>1, <1>3, InitIInv, PTL DEF Spec

\* Every behaviour of the function writes the derived key of RFC 8018, block by
\* block: the other steps change nothing the caller sees.
THEOREM ImplementsPromise == ASSUME BytesClosed PROVE Spec => KeepsRfc8018
<1>1. Init => Rfc!Init
  BY DEF Init, Rfc!Init
<1>2. IInv /\ [Next]_vars => [Rfc!WriteBlock]_Rfc!vars
  <2> SUFFICES ASSUME IInv, [Next]_vars
               PROVE  [Rfc!WriteBlock]_Rfc!vars
    OBVIOUS
  <2>1. CASE FirstTerm
    BY <2>1 DEF FirstTerm, Rfc!vars
  <2>2. CASE NextTerm
    BY <2>2 DEF NextTerm, Rfc!vars
  <2>3. CASE WriteOut
    BY <2>3, WriteOutIs
  <2>4. CASE Return
    BY <2>4 DEF Return, Rfc!vars
  <2>5. CASE UNCHANGED vars
    BY <2>5 DEF vars, Rfc!vars
  <2> QED
    BY <2>1, <2>2, <2>3, <2>4, <2>5 DEF Next
<1>3. IInv /\ [Next]_vars => IInv'
  BY StepIInv
<1> QED
  BY <1>1, <1>2, <1>3, InitIInv, PTL DEF Spec, KeepsRfc8018, Rfc!Spec
=============================================================================
