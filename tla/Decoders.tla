------------------------------ MODULE Decoders ------------------------------
(***************************************************************************)
(* The images the encoders are given, and readers of the formats they      *)
(* write, from the definitions of the formats only.                        *)
(*                                                                         *)
(* Deflate streams of one block with the fixed code, after RFC 1951:       *)
(* sections 3.1.1 (the order of the bits), 3.2.5 (the lengths and          *)
(* distances, as a formula for the tables there) and 3.2.6 (the code).     *)
(*                                                                         *)
(* Baseline JPEG files, after ITU-T T.81: annex B (the segments, and that  *)
(* a byte FF of data is followed by 00), F.2.2.3 (the next symbol, from    *)
(* the smallest code of each length), F.2.2.1 and F.2.2.2 (the blocks) and *)
(* F.12 (EXTEND).                                                          *)
(***************************************************************************)
EXTENDS Integers, Sequences, FiniteSetsExt

-----------------------------------------------------------------------------
(* Images *)

\* [width, height, rgba], where rgba has a pixel <<r, g, b, a>> per element.
ImageWithin(image, largest) ==
  /\ image.width \in 1..largest /\ image.height \in 1..largest
  /\ image.rgba \in Seq(Seq(0..255)) /\ Len(image.rgba) = image.width * image.height
  /\ \A p \in DOMAIN image.rgba : Len(image.rgba[p]) = 4

\* One channel over the matte.
Flatten(value, a, matte) == (a * value + (255 - a) * matte + 127) \div 255

-----------------------------------------------------------------------------
(* Deflate *)

\* The bits of a sequence of bytes, in the order they are read.
BitsOf(bytes) ==
  [k \in 1..(8 * Len(bytes)) |->
     (bytes[((k - 1) \div 8) + 1] \div 2 ^ ((k - 1) % 8)) % 2]

\* Past the end there are zeros.
BitAt(bits, p) == IF p \in DOMAIN bits THEN bits[p] ELSE 0

\* n bits from position p as a number: the first is the lowest, or the highest.
Number(bits, p, n) ==
  LET sum[k \in 0..n] == IF k = 0 THEN 0
                         ELSE sum[k - 1] + BitAt(bits, p + k - 1) * 2 ^ (k - 1)
  IN  sum[n]
Code(bits, p, n) ==
  LET sum[k \in 0..n] == IF k = 0 THEN 0 ELSE 2 * sum[k - 1] + BitAt(bits, p + k - 1)
  IN  sum[n]

\* A symbol of the fixed code and how many bits it takes.
Symbol(bits, p) ==
  LET c7 == Code(bits, p, 7)
      c8 == Code(bits, p, 8)
      c9 == Code(bits, p, 9)
  IN  IF c7 <= 23 THEN [value |-> 256 + c7, size |-> 7]
      ELSE IF c8 <= 191 THEN [value |-> c8 - 48, size |-> 8]
      ELSE IF c8 <= 199 THEN [value |-> 280 + c8 - 192, size |-> 8]
      ELSE [value |-> 144 + c9 - 400, size |-> 9]

LengthExtra(symbol) ==
  IF symbol < 265 \/ symbol = 285 THEN 0 ELSE (symbol - 261) \div 4
LengthBase(symbol) ==
  IF symbol = 285 THEN 258
  ELSE IF symbol < 265 THEN symbol - 254
  ELSE 3 + (4 + ((symbol - 265) % 4)) * 2 ^ LengthExtra(symbol)

DistExtra(code) == IF code < 4 THEN 0 ELSE (code - 2) \div 2
DistBase(code) ==
  IF code < 4 THEN code + 1 ELSE 1 + (2 + (code % 2)) * 2 ^ DistExtra(code)

\* What follows at position p: a byte, a copy of so many bytes from so far
\* back, or the end of the block; and where the next one is.
Token(bits, p) ==
  LET s == Symbol(bits, p)
      q == p + s.size
  IN  IF s.value < 256
      THEN [kind |-> "byte", value |-> s.value, next |-> q]
      ELSE IF s.value = 256 THEN [kind |-> "end", next |-> q]
      ELSE LET r == q + LengthExtra(s.value)
               d == Code(bits, r, 5)
           IN  [kind |-> "copy",
                length |-> LengthBase(s.value)
                             + Number(bits, q, LengthExtra(s.value)),
                dist |-> DistBase(d) + Number(bits, r + 5, DistExtra(d)),
                next |-> r + 5 + DistExtra(d)]

\* A copy may reach into what it produces.
Copied(data, length, dist) ==
  data \o [k \in 1..length |-> data[Len(data) - dist + 1 + ((k - 1) % dist)]]

\* What a reader has after one token more.  It stops at the end of the block, past
\* the position last and at a copy from before the first byte.
TokenAdded(s, t, last) ==
  LET Reading == s.going /\ s.next <= last
  IN  IF Reading /\ t.kind = "byte"
      THEN [data |-> Append(s.data, t.value), next |-> t.next, going |-> TRUE, ended |-> FALSE]
      ELSE IF Reading /\ t.kind = "copy" /\ t.dist <= Len(s.data)
      THEN [data |-> Copied(s.data, t.length, t.dist), next |-> t.next, going |-> TRUE,
            ended |-> FALSE]
      ELSE IF Reading /\ t.kind = "end"
      THEN [data |-> s.data, next |-> t.next, going |-> FALSE, ended |-> TRUE]
      ELSE [data |-> s.data, next |-> s.next, going |-> FALSE, ended |-> s.ended]

WithToken(s, bits, last) == TokenAdded(s, Token(bits, s.next), last)

\* The bytes of the tokens from position p on, and whether the end of the block was
\* read.  A token has at least seven bits.
Read(bits, p) ==
  LET after[m \in 0..(Len(bits) \div 7)] ==
        IF m = 0 THEN [data |-> <<>>, next |-> p, going |-> TRUE, ended |-> FALSE]
        ELSE WithToken(after[m - 1], bits, Len(bits))
  IN  after[Len(bits) \div 7]

\* The last block, with the fixed code.
IsLastFixedBlock(bits) == Number(bits, 1, 1) = 1 /\ Number(bits, 2, 2) = 1

-----------------------------------------------------------------------------
(* The entropy-coded data of JPEG *)

\* No FF but those followed by 00, which is a marker otherwise.
NoMarker(bytes) ==
  \A p \in 1..Len(bytes) : bytes[p] = 255 => p < Len(bytes) /\ bytes[p + 1] = 0

\* The data without the zeros after FF.
Unstuffed(bytes) ==
  LET Kept[p \in 0..Len(bytes)] ==
        IF p = 0 THEN <<>>
        ELSE IF p > 1 /\ bytes[p - 1] = 255 THEN Kept[p - 1]
        ELSE Append(Kept[p - 1], bytes[p])
  IN  Kept[Len(bytes)]

\* The most significant bit of a byte comes first.
BitsOfBytes(bytes) ==
  [k \in 1..(8 * Len(bytes)) |->
     (bytes[((k - 1) \div 8) + 1] \div 2 ^ (7 - ((k - 1) % 8))) % 2]

\* n bits from position p.
Receive(bits, p, n) ==
  LET value[k \in 0..n] ==
        IF k = 0 THEN 0 ELSE 2 * value[k - 1] + bits[p + k - 1]
  IN  value[n]

Extend(value, n) ==
  IF n = 0 THEN 0
  ELSE IF value < 2 ^ (n - 1) THEN value - 2 ^ n + 1 ELSE value

\* The smallest code of each length, and how many codes are shorter.
SmallestCodes(table) ==
  LET first[n \in 1..16] ==
        IF n = 1 THEN 0 ELSE 2 * (first[n - 1] + table.counts[n - 1])
  IN  first

ShorterCodes(table) ==
  LET count[n \in 1..16] ==
        IF n = 1 THEN 0 ELSE count[n - 1] + table.counts[n - 1]
  IN  count

\* The tables as a decoder keeps them.
Decoder(table) ==
  [counts |-> table.counts, symbols |-> table.symbols,
   first |-> SmallestCodes(table), shorter |-> ShorterCodes(table)]

\* The symbol at position p and the number of its bits.
NextSymbol(bits, p, decoder) ==
  LET Above(n) == Receive(bits, p, n) - decoder.first[n]
      size == Min({n \in 1..16 : n <= Len(bits) - p + 1
                                 /\ Above(n) \in 0..(decoder.counts[n] - 1)})
  IN  [value |-> decoder.symbols[decoder.shorter[size] + Above(size) + 1],
       size |-> size]

\* The coefficients of a block after the first: what a code and the bits behind it add,
\* as long as there may be more.
WithCoefficient(r, bits, ac) ==
  LET s == NextSymbol(bits, r.next, ac)
      run == s.value \div 16
      size == s.value % 16
      q == r.next + s.size
  IN  IF r.k > 63 THEN r
      ELSE IF s.value = 0 THEN [r EXCEPT !.next = q, !.k = 64]
      ELSE IF size = 0 THEN [r EXCEPT !.next = q, !.k = @ + 16]
      ELSE [zz |-> [r.zz EXCEPT ![r.k + run] = Extend(Receive(bits, q, size), size)],
            next |-> q + size, k |-> r.k + run + 1]

ReadCoefficients(bits, p, ac, zz) ==
  LET after[m \in 0..63] ==
        IF m = 0 THEN [zz |-> zz, next |-> p, k |-> 1]
        ELSE WithCoefficient(after[m - 1], bits, ac)
  IN  after[63]

ReadBlock(bits, p, dc, ac, previous) ==
  LET s == NextSymbol(bits, p, dc)
      q == p + s.size
      diff == Extend(Receive(bits, q, s.value), s.value)
  IN  ReadCoefficients(bits, q + s.value, ac,
        [i \in 0..63 |-> IF i = 0 THEN previous + diff ELSE 0])

\* So many blocks of a scan of three components with the tables of each, and
\* where the next one begins.
ReadScan(bits, tables, count) ==
  LET Blocks[m \in 0..count] ==
        IF m = 0 THEN [blocks |-> <<>>, next |-> 1]
        ELSE LET before == Blocks[m - 1]
                 c == (m - 1) % 3
                 r == ReadBlock(bits, before.next, tables[c].dc, tables[c].ac,
                                IF m > 3 THEN before.blocks[m - 3][0] ELSE 0)
             IN  [blocks |-> Append(before.blocks, r.zz), next |-> r.next]
  IN  Blocks[count]

-----------------------------------------------------------------------------
(* The segments of T.81, annex B *)

BE16At(bytes, p) == 256 * bytes[p] + bytes[p + 1]

NothingRead ==
  [width |-> 0, height |-> 0, quantisers |-> <<>>, tables |-> <<>>, components |-> <<>>,
   data |-> <<>>]

\* Whatever the length is, a table has as many symbols as its counts say.
HuffmanTable(bytes, p) ==
  LET counts == SubSeq(bytes, p, p + 15)
      Total[j \in 0..16] == IF j = 0 THEN 0 ELSE Total[j - 1] + counts[j]
  IN  [counts |-> counts, symbols |-> SubSeq(bytes, p + 16, p + 15 + Total[16])]

\* What a segment adds to what has been found.
WithSegment(found, bytes, p) ==
  LET id == bytes[p + 4]
      Entry(f, value) == [x \in DOMAIN f \cup {id} |-> IF x = id THEN value ELSE f[x]]
  IN  CASE bytes[p + 1] = 219 ->
             [found EXCEPT !.quantisers = Entry(@, SubSeq(bytes, p + 5, p + 68))]
        [] bytes[p + 1] = 196 -> [found EXCEPT !.tables = Entry(@, HuffmanTable(bytes, p + 5))]
        [] bytes[p + 1] = 192 -> [found EXCEPT !.height = BE16At(bytes, p + 5),
                                               !.width = BE16At(bytes, p + 7)]
        [] OTHER -> found

\* Enough for four quantisers, eight tables, a frame, the scan and two more.
MaxSegments == 16

\* The scan, whose data reaches to the last marker.
WithScan(found, bytes, p) ==
  [found EXCEPT
     !.components = [c \in 1..3 |-> [dc |-> bytes[p + 4 + 2 * c] \div 16,
                                     ac |-> bytes[p + 4 + 2 * c] % 16]],
     !.data = SubSeq(bytes, p + 2 + BE16At(bytes, p + 2), Len(bytes) - 2)]

\* One segment more, up to the scan or to what is no segment.
NextSegment(s, bytes) ==
  LET next == s.next + 2 + BE16At(bytes, s.next + 2)
  IN  IF ~s.going THEN s
      ELSE IF bytes[s.next + 1] = 218
      THEN [found |-> WithScan(s.found, bytes, s.next), next |-> next, going |-> FALSE]
      ELSE IF next >= Len(bytes) \/ bytes[next] # 255
      THEN [found |-> s.found, next |-> next, going |-> FALSE]
      ELSE [found |-> WithSegment(s.found, bytes, s.next), next |-> next, going |-> TRUE]

ReadSegments(bytes) ==
  LET after[m \in 0..MaxSegments] ==
        IF m = 0 THEN [found |-> NothingRead, next |-> 3, going |-> TRUE]
        ELSE NextSegment(after[m - 1], bytes)
  IN  after[MaxSegments].found
=============================================================================
