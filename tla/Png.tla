-------------------------------- MODULE Png --------------------------------
(***************************************************************************)
(* encode of src/png.cpp: the pixels become rows of bytes with a filter    *)
(* byte in front, with or without alpha; deflate_fixed compresses them,    *)
(* one token a step, with greedy matches one pixel or one row back; and    *)
(* the chunks are put around the stream.  The stream is written by         *)
(* bit_writer, which packs bits from the least significant bit of each     *)
(* byte; on top of it are the fixed code of literals and lengths, and the  *)
(* tables that split a length and a distance into a code and extra bits.   *)
(* The CRC of a chunk is a symbol for what it is the CRC of.               *)
(***************************************************************************)
EXTENDS Integers, Sequences, SequencesExt, FiniteSetsExt, Decoders

-----------------------------------------------------------------------------
(* bit_writer *)

NewWriter == [out |-> <<>>, acc |-> 0, used |-> 0]

\* The loop moves out every whole byte.
Put(w, bits, count) ==
  LET acc   == w.acc + bits * 2 ^ w.used
      used  == w.used + count
      whole == used \div 8
  IN  [out  |-> w.out \o [k \in 1..whole |-> (acc \div 2 ^ (8 * (k - 1))) % 256],
       acc  |-> acc \div 2 ^ (8 * whole),
       used |-> used % 8]

Bit(n, k) == (n \div 2 ^ k) % 2

\* What a power of two is takes induction to prove.
ASSUME PowersOfTwoAssumption ==
  2 ^ 0 = 1 /\ \A e \in 0..29 : 2 ^ e \in Nat \ {0} /\ 2 ^ (e + 1) = 2 * 2 ^ e

\* Huffman codes are sent most significant bit first.
PutCode(w, code, count) ==
  LET reversed[k \in 0..count] ==
        IF k = 0 THEN 0 ELSE 2 * reversed[k - 1] + Bit(code, k - 1)
  IN  Put(w, reversed[count], count)

\* Mutant: the bits left over are never written.
FlushNothing(w) == w

Flush(w) ==
  IF w.used # 0
  THEN [out |-> Append(w.out, w.acc % 256), acc |-> 0, used |-> 0]
  ELSE w

-----------------------------------------------------------------------------
(* The fixed code *)

PutSymbol(w, symbol) ==
  IF symbol < 144 THEN PutCode(w, 48 + symbol, 8)
  ELSE IF symbol < 256 THEN PutCode(w, 400 + (symbol - 144), 9)
  ELSE IF symbol < 280 THEN PutCode(w, symbol - 256, 7)
  ELSE PutCode(w, 192 + (symbol - 280), 8)

length_base == <<3, 4, 5, 6, 7, 8, 9, 10, 11, 13, 15, 17, 19, 23, 27, 31, 35,
                 43, 51, 59, 67, 83, 99, 115, 131, 163, 195, 227, 258>>
length_extra == <<0, 0, 0, 0, 0, 0, 0, 0, 1, 1, 1, 1, 2, 2, 2, 2, 3, 3, 3, 3,
                  4, 4, 4, 4, 5, 5, 5, 5, 0>>
dist_base == <<1, 2, 3, 4, 5, 7, 9, 13, 17, 25, 33, 49, 65, 97, 129, 193, 257,
               385, 513, 769, 1025, 1537, 2049, 3073, 4097, 6145, 8193, 12289,
               16385, 24577>>
dist_extra == <<0, 0, 0, 0, 1, 1, 2, 2, 3, 3, 4, 4, 5, 5, 6, 6, 7, 7, 8, 8, 9,
                9, 10, 10, 11, 11, 12, 12, 13, 13>>

\* Mutant: the search stops short of a base that is met exactly.
LastBelow(base, n) ==
  CHOOSE k \in DOMAIN base :
    /\ base[k] < n \/ k = 1
    /\ \A j \in DOMAIN base : j > k => base[j] >= n

\* Both loops come down from the end of a table to the last base that is not
\* larger.
LastNotAbove(base, n) ==
  CHOOSE k \in DOMAIN base :
    base[k] <= n /\ \A j \in DOMAIN base : j > k => base[j] > n

PutMatch(w, length, dist) ==
  LET li == LastNotAbove(length_base, length)
      di == LastNotAbove(dist_base, dist)
      w1 == PutSymbol(w, 257 + li - 1)
      w2 == Put(w1, length - length_base[li], length_extra[li])
      w3 == PutCode(w2, di - 1, 5)
  IN  Put(w3, dist - dist_base[di], dist_extra[di])

-----------------------------------------------------------------------------
(* The encoder *)

CONSTANTS Images,     \* the images encoded
          Lengths,    \* lengths and distances of matches tried in passing
          Distances

ASSUME ImagesAssumption == \A image \in Images : ImageWithin(image, 4096)

\* A row of 4096 pixels has 16385 bytes.
ASSUME MatchAssumption ==
  Lengths \subseteq 3..258 /\ Distances \subseteq 1..16385

VARIABLES pc,    \* "deflate" or "done"
          img,   \* the argument
          raw,   \* the rows of bytes
          i,     \* how many bytes of raw are compressed
          w,     \* the bit writer, which appends to zlib
          file   \* out: the chunks after the signature

-----------------------------------------------------------------------------
(* The rows of bytes *)

Opaque == \A p \in DOMAIN img.rgba : img.rgba[p][4] = 255

bpp == IF Opaque THEN 3 ELSE 4
stride == 1 + img.width * bpp

\* A row of bytes, after a filter type of 0.
Row(y) ==
  <<0>> \o FlattenSeq([x \in 1..img.width |->
                         SubSeq(img.rgba[y * img.width + x], 1, bpp)])

-----------------------------------------------------------------------------
(* deflate_fixed *)

\* How many bytes from i on repeat the ones d before them.
MatchLength(d) ==
  IF i < d THEN 0
  ELSE LET limit == Min({258, Len(raw) - i})
       IN  Min({k \in 0..limit :
                  k = limit \/ raw[i + k + 1] # raw[i + k + 1 - d]})

\* The row above is taken only if it matches more than the pixel before.
Nearest == MatchLength(stride) <= MatchLength(bpp)
best == IF Nearest THEN MatchLength(bpp) ELSE MatchLength(stride)
dist == IF Nearest THEN bpp ELSE stride

\* BFINAL and BTYPE go in front.
PngInit ==
  /\ img \in Images
  /\ pc = "deflate"
  /\ raw = FlattenSeq([y \in 1..img.height |-> Row(y - 1)])
  /\ i = 0
  /\ w = Put(Put(NewWriter, 1, 1), 1, 2)
  /\ file = <<>>

Match ==
  /\ pc = "deflate" /\ i < Len(raw) /\ best >= 3
  /\ w' = PutMatch(w, best, dist)
  /\ i' = i + best
  /\ UNCHANGED <<pc, img, raw, file>>

Literal ==
  /\ pc = "deflate" /\ i < Len(raw) /\ best < 3
  /\ w' = PutSymbol(w, raw[i + 1])
  /\ i' = i + 1
  /\ UNCHANGED <<pc, img, raw, file>>

-----------------------------------------------------------------------------
(* The container *)

BE32(high, low) == <<high \div 256, high % 256, low \div 256, low % 256>>
PutBE32(n) == BE32(n \div 65536, n % 65536)

\* adler32, which Adler32 models in detail: the sums of the bytes and of the
\* sums, each in 16 bits.
Sums(data) ==
  FoldLeft(LAMBDA s, byte : <<(s[1] + byte) % 65521, (s[2] + s[1] + byte) % 65521>>,
           <<1, 0>>, data)
Adler(data) == LET sums == Sums(data) IN BE32(sums[2], sums[1])

PutChunk(type, data) ==
  [length |-> PutBE32(Len(data)), type |-> type, data |-> data,
   crc |-> <<"crc", type, data>>]

Ihdr == PutBE32(img.width) \o PutBE32(img.height)
          \o <<8, IF Opaque THEN 2 ELSE 6, 0, 0, 0>>

\* The end of the block, the checksum and the chunks.
EndBlock ==
  /\ pc = "deflate" /\ i = Len(raw)
  /\ w' = Flush(PutSymbol(w, 256))
  /\ file' = <<PutChunk("IHDR", Ihdr),
               PutChunk("sRGB", <<0>>),
               PutChunk("IDAT", <<120, 1>> \o w'.out \o Adler(raw)),
               PutChunk("IEND", <<>>)>>
  /\ pc' = "done"
  /\ UNCHANGED <<img, raw, i>>

PngNext == Match \/ Literal \/ EndBlock

png_vars == <<pc, img, raw, i, w, file>>

PngSpec == PngInit /\ [][PngNext]_png_vars

-----------------------------------------------------------------------------
(* Properties *)

\* The number of bits the code of a match and its extra bits take.
MatchSize(length, d) ==
  LET s == CHOOSE k \in 257..285 :
             length \in LengthBase(k)..(LengthBase(k) + 2 ^ LengthExtra(k) - 1)
      t == CHOOSE k \in 0..29 :
             d \in DistBase(k)..(DistBase(k) + 2 ^ DistExtra(k) - 1)
  IN  (IF s < 280 THEN 7 ELSE 8) + LengthExtra(s) + 5 + DistExtra(t)

\* A match put behind the bits that wait in the accumulator: a reader gets its
\* length and its distance, from the shortest code there is, and the bits that waited
\* are in front of it as they were.
MatchDecodes(length, d) ==
  LET after == PutMatch([w EXCEPT !.out = <<>>], length, d)
      bits  == BitsOf(after.out) \o [k \in 1..after.used |-> Bit(after.acc, k - 1)]
      t     == Token(bits, w.used + 1)
  IN  /\ \A k \in 1..w.used : bits[k] = Bit(w.acc, k - 1)
      /\ t.kind = "copy" /\ t.length = length /\ t.dist = d
      /\ t.next = Len(bits) + 1
      /\ length # 258 => Len(bits) = w.used + MatchSize(length, d)
      /\ after.used < 8 /\ after.acc < 2 ^ after.used

\* Images as small as these have few matches.  So at every step any match at
\* all is tried (png.cpp:80-99).
AnyMatchDecodes ==
  pc = "deflate" => /\ \A length \in Lengths : MatchDecodes(length, 1)
                    /\ \A d \in Distances : MatchDecodes(3, d)

\* The pixels a reader of PNG makes of rows without filters.
BE32At(bytes, p) == 65536 * BE16At(bytes, p) + BE16At(bytes, p + 2)
Unpacked(header, data) ==
  LET width == BE32At(header, 1)
      size  == IF header[10] = 2 THEN 3 ELSE 4
      At(p, c) == data[((p - 1) \div width) * (1 + width * size)
                         + 1 + ((p - 1) % width) * size + c]
  IN  [p \in 1..(width * BE32At(header, 5)) |->
         <<At(p, 1), At(p, 2), At(p, 3), IF size = 4 THEN At(p, 4) ELSE 255>>]

\* The file is a PNG file of these pixels: the chunks are in the order and of the
\* lengths the format asks for, and the stream ends with its block, whose checksum is
\* that of what it decodes to.
DecodesTo(pixels) ==
  LET idat == file[3].data
      body == SubSeq(idat, 3, Len(idat) - 4)
      bits == BitsOf(body)
      r    == Read(bits, 4)
  IN  /\ [k \in 1..4 |-> file[k].type] = <<"IHDR", "sRGB", "IDAT", "IEND">>
      /\ \A k \in 1..4 : /\ file[k].length = PutBE32(Len(file[k].data))
                         /\ file[k].crc = <<"crc", file[k].type, file[k].data>>
      /\ (256 * idat[1] + idat[2]) % 31 = 0
      /\ IsLastFixedBlock(bits)
      /\ r.ended /\ (r.next - 1 + 7) \div 8 = Len(body)
      /\ SubSeq(idat, Len(idat) - 3, Len(idat)) = Adler(r.data)
      /\ Unpacked(file[1].data, r.data) = pixels
=============================================================================
