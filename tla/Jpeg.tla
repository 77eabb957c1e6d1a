-------------------------------- MODULE Jpeg --------------------------------
(***************************************************************************)
(* encode of src/jpeg.cpp: an image becomes blocks of 8 by 8 samples of    *)
(* three components, in turn; each goes through the integer transform with *)
(* 13-bit constants, its coefficients are divided and written in the order *)
(* of the zigzag as Huffman codes of runs and sizes, with the tables of    *)
(* src/jpeg_tables.hpp; and the headers are put around the scan.           *)
(***************************************************************************)
EXTENDS Integers, Sequences, SequencesExt, FiniteSetsExt, Decoders

CONSTANTS JpegImages,   \* images, with the matte and the quality
          Scans,        \* sequences of blocks of coefficients, times eight, of
                        \* which few images would make all
          Divisors      \* for these: per luminance and chrominance, 1..255

ASSUME JpegImagesAssumption ==
  \A job \in JpegImages : /\ job.quality \in 50..100 /\ job.matte \in [1..3 -> 0..255]
                          /\ ImageWithin(job.img, 4096)
ASSUME ScansAssumption ==
  \A blocks \in Scans :
    \A m \in DOMAIN blocks : /\ DOMAIN blocks[m] = 0..63
                             /\ blocks[m][0] \in -8192..8128
ASSUME DivisorsAssumption ==
  \A t \in 0..1 : \A i \in 0..63 : Divisors[t][i] \in 1..255

-----------------------------------------------------------------------------
(* The tables *)

jpeg_zigzag ==
  <<0, 1, 8, 16, 9, 2, 3, 10, 17, 24, 32, 25, 18, 11, 4, 5, 12, 19, 26, 33, 40, 48,
    41, 34, 27, 20, 13, 6, 7, 14, 21, 28, 35, 42, 49, 56, 57, 50, 43, 36, 29, 22, 15, 23,
    30, 37, 44, 51, 58, 59, 52, 45, 38, 31, 39, 46, 53, 60, 61, 54, 47, 55, 62, 63>>

jpeg_luminance_quantiser ==
  <<16, 11, 10, 16, 24, 40, 51, 61, 12, 12, 14, 19, 26, 58, 60, 55,
    14, 13, 16, 24, 40, 57, 69, 56, 14, 17, 22, 29, 51, 87, 80, 62,
    18, 22, 37, 56, 68, 109, 103, 77, 24, 35, 55, 64, 81, 104, 113, 92,
    49, 64, 78, 87, 103, 121, 120, 101, 72, 92, 95, 98, 112, 100, 103, 99>>

\* All but the first fifteen or so are 99.
jpeg_chrominance_quantiser ==
  <<17, 18, 24, 47, 99, 99, 99, 99, 18, 21, 26, 66, 99, 99, 99, 99,
    24, 26, 56, 99, 99, 99, 99, 99, 47, 66>> \o [i \in 1..38 |-> 99]

\* At 100 everything is divided by 1.
ScaledQuantiser(base, quality) ==
  [i \in 0..63 |-> Max({1, Min({255, (base[i + 1] * (200 - 2 * quality) + 50) \div 100})})]

Quantisers(quality) ==
  [t \in 0..1 |-> ScaledQuantiser(IF t = 0 THEN jpeg_luminance_quantiser
                                  ELSE jpeg_chrominance_quantiser, quality)]

-----------------------------------------------------------------------------
(* The Huffman tables: how many codes there are of each length from 1 to 16, and the
   symbols in the order of their codes *)

JpegDcSymbols == [k \in 1..12 |-> k - 1]

JpegAcLuminanceSymbols ==
  <<1, 2, 3, 0, 4, 17, 5, 18, 33, 49, 65, 6, 19, 81, 97, 7, 34, 113, 20, 50,
    129, 145, 161, 8, 35, 66, 177, 193, 21, 82, 209, 240, 36, 51, 98, 114,
    130, 9, 10, 22, 23, 24, 25, 26, 37, 38, 39, 40, 41, 42, 52, 53, 54, 55,
    56, 57, 58, 67, 68, 69, 70, 71, 72, 73, 74, 83, 84, 85, 86, 87, 88, 89,
    90, 99, 100, 101, 102, 103, 104, 105, 106, 115, 116, 117, 118, 119, 120,
    121, 122, 131, 132, 133, 134, 135, 136, 137, 138, 146, 147, 148, 149, 150,
    151, 152, 153, 154, 162, 163, 164, 165, 166, 167, 168, 169, 170, 178, 179,
    180, 181, 182, 183, 184, 185, 186, 194, 195, 196, 197, 198, 199, 200, 201,
    202, 210, 211, 212, 213, 214, 215, 216, 217, 218, 225, 226, 227, 228, 229,
    230, 231, 232, 233, 234, 241, 242, 243, 244, 245, 246, 247, 248, 249, 250>>

JpegAcChrominanceSymbols ==
  <<0, 1, 2, 3, 17, 4, 5, 33, 49, 6, 18, 65, 81, 7, 97, 113, 19, 34, 50, 129,
    8, 20, 66, 145, 161, 177, 193, 9, 35, 51, 82, 240, 21, 98, 114, 209, 10,
    22, 36, 52, 225, 37, 241, 23, 24, 25, 26, 38, 39, 40, 41, 42, 53, 54, 55,
    56, 57, 58, 67, 68, 69, 70, 71, 72, 73, 74, 83, 84, 85, 86, 87, 88, 89,
    90, 99, 100, 101, 102, 103, 104, 105, 106, 115, 116, 117, 118, 119, 120,
    121, 122, 130, 131, 132, 133, 134, 135, 136, 137, 138, 146, 147, 148, 149,
    150, 151, 152, 153, 154, 162, 163, 164, 165, 166, 167, 168, 169, 170, 178,
    179, 180, 181, 182, 183, 184, 185, 186, 194, 195, 196, 197, 198, 199, 200,
    201, 202, 210, 211, 212, 213, 214, 215, 216, 217, 218, 226, 227, 228, 229,
    230, 231, 232, 233, 234, 242, 243, 244, 245, 246, 247, 248, 249, 250>>

JpegDcLuminance ==
  [counts |-> <<0, 1, 5, 1, 1, 1, 1, 1, 1, 0, 0, 0, 0, 0, 0, 0>>,
   symbols |-> JpegDcSymbols]
JpegDcChrominance ==
  [counts |-> <<0, 3, 1, 1, 1, 1, 1, 1, 1, 1, 1, 0, 0, 0, 0, 0>>,
   symbols |-> JpegDcSymbols]
JpegAcLuminance ==
  [counts |-> <<0, 2, 1, 3, 3, 2, 4, 3, 5, 5, 4, 4, 0, 0, 1, 125>>,
   symbols |-> JpegAcLuminanceSymbols]
JpegAcChrominance ==
  [counts |-> <<0, 2, 1, 2, 4, 4, 3, 4, 7, 5, 4, 4, 0, 1, 2, 119>>,
   symbols |-> JpegAcChrominanceSymbols]

-----------------------------------------------------------------------------
(* Blocks of an image *)

Components(r, g, b) ==
  <<(19595 * r + 38470 * g + 7471 * b + 32768) \div 65536 - 128,
    (-11059 * r - 21709 * g + 32768 * b + 8421375) \div 65536 - 128,
    (32768 * r - 27439 * g - 5329 * b + 8421375) \div 65536 - 128>>

\* The last column and the last row stand for what lies beyond them.
PixelAt(img, x, y) ==
  img.rgba[Min({y, img.height - 1}) * img.width + Min({x, img.width - 1}) + 1]

Samples(img, matte, bx, by, c) ==
  [i \in 0..63 |->
     LET p == PixelAt(img, bx + (i % 8), by + (i \div 8))
     IN  Components(Flatten(p[1], p[4], matte[1]), Flatten(p[2], p[4], matte[2]),
                    Flatten(p[3], p[4], matte[3]))[c]]

\* From left to right and from top to bottom, three for every place.
BlocksOf(img, matte) ==
  LET across == (img.width + 7) \div 8
      down   == (img.height + 7) \div 8
  IN  [m \in 1..(3 * across * down) |->
         LET place == (m - 1) \div 3
         IN  [kind |-> "samples",
              at |-> Samples(img, matte, 8 * (place % across), 8 * (place \div across),
                             ((m - 1) % 3) + 1)]]

-----------------------------------------------------------------------------
(* forward_dct *)

\* floor((x + 2^(n-1)) / 2^n)
Descale(x, n) == (x + 2 ^ (n - 1)) \div 2 ^ n

\* The values a pass begins with: t0 + t3, t1 + t2, t1 - t2, t0 - t3, and t4 to t7.
Butterfly(d) ==
  [t10 |-> d[1] + d[8] + (d[4] + d[5]), t11 |-> d[2] + d[7] + (d[3] + d[6]),
   t12 |-> d[2] + d[7] - (d[3] + d[6]), t13 |-> d[1] + d[8] - (d[4] + d[5]),
   t4 |-> d[4] - d[5], t5 |-> d[3] - d[6], t6 |-> d[2] - d[7], t7 |-> d[1] - d[8]]

\* Mutant: the first pass keeps one bit more than there is room for.
KeptBitsTooMany(first) == IF first THEN [n |-> 10, even |-> 8] ELSE [n |-> 15, even |-> 0]

\* How far the results are shifted; the first pass multiplies the even ones.
KeptBits(first) == IF first THEN [n |-> 11, even |-> 4] ELSE [n |-> 15, even |-> 0]

\* The odd results, from the first.
OddPart(t, n) ==
  LET z5 == (t.t4 + t.t6 + t.t5 + t.t7) * 9633
      z1 == -(t.t4 + t.t7) * 7373
      z2 == -(t.t5 + t.t6) * 20995
      z3 == -(t.t4 + t.t6) * 16069 + z5
      z4 == -(t.t5 + t.t7) * 3196 + z5
  IN  <<Descale(t.t7 * 12299 + z1 + z4, n), Descale(t.t6 * 25172 + z2 + z3, n),
        Descale(t.t5 * 16819 + z2 + z4, n), Descale(t.t4 * 2446 + z1 + z3, n)>>

\* One pass over eight values.
dct_pass(d, first) ==
  LET t    == Butterfly(d)
      bits == KeptBits(first)
      Even(x) == IF first THEN x * bits.even ELSE Descale(x, 2)
      z1   == (t.t12 + t.t13) * 4433
      odd  == OddPart(t, bits.n)
  IN  <<Even(t.t10 + t.t11), odd[1], Descale(z1 + t.t13 * 6270, bits.n), odd[2],
        Even(t.t10 - t.t11), odd[3], Descale(z1 - t.t12 * 15137, bits.n), odd[4]>>

RowAt(block, y) == [x \in 1..8 |-> block[8 * y + x - 1]]
ColumnAt(block, x) == [y \in 1..8 |-> block[8 * (y - 1) + x]]

RowPass(block) ==
  LET rows == [y \in 1..8 |-> dct_pass(RowAt(block, y - 1), TRUE)]
  IN  [i \in 0..63 |-> rows[(i \div 8) + 1][(i % 8) + 1]]

ColumnPass(block) ==
  LET columns == [x \in 1..8 |-> dct_pass(ColumnAt(block, x - 1), FALSE)]
  IN  [i \in 0..63 |-> columns[(i % 8) + 1][(i \div 8) + 1]]

-----------------------------------------------------------------------------
(* What the transform is held against *)

\* Whether a pass over these values stays in 32 bits: all its products and sums are
\* sums of products by constants, whose absolute values are added up here.
PassFits(d) ==
  LET t == Butterfly(d)
      Small(x, room) == x <= room /\ -x <= room
  IN  /\ \A odd \in {t.t4, t.t5, t.t6, t.t7} : Small(odd, 2147483647 \div 137832)
      /\ Small(t.t12, 2147483647 \div 24004) /\ Small(t.t13, 2147483647 \div 24004)
      /\ Small(t.t10, 2147483647 \div 1024) /\ Small(t.t11, 2147483647 \div 1024)

\* 4096 times the square root of 2 times the cosine of k * pi / 16.
Cosine(k) ==
  LET table == <<5793, 5681, 5352, 4816, 4096, 3218, 2217, 1130, 0>>
      q == k % 32
      r == IF q > 16 THEN 32 - q ELSE q
  IN  IF r <= 8 THEN table[r + 1] ELSE -table[17 - r]

Wave(u, x) == IF u = 0 THEN 4096 ELSE Cosine((2 * x + 1) * u)

Sum8(f) == f[0] + f[1] + f[2] + f[3] + f[4] + f[5] + f[6] + f[7]

\* Eight times the coefficients as T.81, A.3.3 defines them.
Coefficients(samples) ==
  LET across == [i \in 0..63 |->
                   Sum8([x \in 0..7 |-> samples[8 * (i \div 8) + x] * Wave(i % 8, x)]) \div 512]
  IN  [i \in 0..63 |->
         Sum8([y \in 0..7 |-> across[8 * y + (i % 8)] * Wave(i \div 8, y)]) \div 32768]

-----------------------------------------------------------------------------
(* The state of encode *)

VARIABLES jpeg_pc,      \* "block", "rows", "columns", "divide", "coefficients", "done"
          extent,       \* width and height of the image
          quantiser,    \* per luminance and chrominance
          scan,         \* the blocks to be written
          n,            \* how many have been begun
          block,        \* the current one
          zz,           \* it divided, in the order of the zigzag
          k,            \* the next coefficient of it
          previous_dc,  \* per component
          jw,           \* the scan writer
          jpeg          \* the file

jpeg_vars == <<jpeg_pc, extent, quantiser, scan, n, block, zz, k, previous_dc, jw, jpeg>>

-----------------------------------------------------------------------------
(* build *)

\* The codes of T.81 annex C: one after another, and doubled for every bit they
\* are longer.  A symbol without a code has length 0.
Build(table) ==
  LET first[size \in 1..16] ==
        IF size = 1 THEN 0
        ELSE 2 * (first[size - 1] + table.counts[size - 1])
      codes == FlattenSeq(
        [size \in 1..16 |->
           [i \in 1..table.counts[size] |->
              [code |-> first[size] + i - 1, length |-> size]]])
  IN  [symbol \in 0..255 |->
         IF Contains(table.symbols, symbol)
         THEN codes[CHOOSE j \in DOMAIN codes : table.symbols[j] = symbol]
         ELSE [code |-> 0, length |-> 0]]

DcLuminance == Build(JpegDcLuminance)
DcChrominance == Build(JpegDcChrominance)
AcLuminance == Build(JpegAcLuminance)
AcChrominance == Build(JpegAcChrominance)

-----------------------------------------------------------------------------
(* scan_writer *)

NewScanWriter == [out |-> <<>>, acc |-> 0, used |-> 0]

\* A zero follows FF.
Stuffed(byte) == IF byte = 255 THEN <<255, 0>> ELSE <<byte>>

\* Whole bytes go out; acc is what acc_ holds of bits still to go.
PutBits(writer, bits, count) ==
  LET acc   == writer.acc * 2 ^ count + (bits % 2 ^ count)
      used  == writer.used + count
      whole == used \div 8
      Byte(b) == (acc \div 2 ^ (used - 8 * b)) % 256
  IN  [out  |-> writer.out \o FlattenSeq([b \in 1..whole |-> Stuffed(Byte(b))]),
       acc  |-> acc % 2 ^ (used % 8),
       used |-> used % 8]

\* finish: the last byte is filled with ones.
Filled(writer) ==
  IF writer.used = 0 THEN writer
  ELSE PutBits(writer, 2 ^ (8 - writer.used) - 1, 8 - writer.used)

PutHuffman(writer, encoder, symbol) ==
  PutBits(writer, encoder[symbol].code, encoder[symbol].length)

\* The number of bits of the absolute value.
Category(v) == Min({bits \in 0..16 : v < 2 ^ bits /\ -v < 2 ^ bits})

\* A negative value is sent as the complement of its absolute value.
PutValue(writer, v, bits) ==
  IF bits = 0 THEN writer
  ELSE PutBits(writer, IF v >= 0 THEN v ELSE v + 2 ^ bits - 1, bits)

-----------------------------------------------------------------------------
(* encode and encode_block *)

Clamped(value) == Max({-1023, Min({1023, value})})

\* Halves are rounded away from zero; the tables end at ten bits, the one for
\* the first coefficient at eleven.
Quantised(i, coefficient, q) ==
  LET divisor == 8 * q
      value == IF coefficient >= 0
               THEN (coefficient + divisor \div 2) \div divisor
               ELSE -((-coefficient + divisor \div 2) \div divisor)
  IN  IF i # 0 THEN Clamped(value) ELSE value

NoBlock == [i \in 0..63 |-> 0]

JpegInit ==
  /\ \/ \E job \in JpegImages :
          /\ scan = BlocksOf(job.img, job.matte)
          /\ quantiser = Quantisers(job.quality)
          /\ extent = <<job.img.width, job.img.height>>
     \/ /\ \E blocks \in Scans :
             scan = [m \in DOMAIN blocks |-> [kind |-> "coefficients", at |-> blocks[m]]]
        /\ quantiser = Divisors
        /\ extent = <<8, 8>>
  /\ jpeg_pc = "block" /\ n = 0 /\ block = NoBlock
  /\ zz = NoBlock /\ k = 0
  /\ previous_dc = <<0, 0, 0>>
  /\ jw = NewScanWriter /\ jpeg = <<>>

\* The component of the block after m others: 1 is luminance.
Component(m) == (m % 3) + 1
Dc(c) == IF c = 1 THEN DcLuminance ELSE DcChrominance
Ac(c) == IF c = 1 THEN AcLuminance ELSE AcChrominance

\* Mutant: the difference is to the block before, of whatever component.
DifferenceToLast(c, dc) ==
  [diff |-> dc - previous_dc[1], previous |-> [x \in 1..3 |-> dc]]

Difference(c, dc) ==
  [diff |-> dc - previous_dc[c], previous |-> [previous_dc EXCEPT ![c] = dc]]

\* The next block is filled with its samples.
FillBlock ==
  /\ jpeg_pc = "block" /\ n < Len(scan)
  /\ block' = scan[n + 1].at
  /\ n' = n + 1
  /\ jpeg_pc' = IF scan[n + 1].kind = "samples" THEN "rows" ELSE "divide"
  /\ UNCHANGED <<extent, quantiser, scan, zz, k, previous_dc, jw, jpeg>>

TransformRows ==
  /\ jpeg_pc = "rows"
  /\ block' = RowPass(block) /\ jpeg_pc' = "columns"
  /\ UNCHANGED <<extent, quantiser, scan, n, zz, k, previous_dc, jw, jpeg>>

TransformColumns ==
  /\ jpeg_pc = "columns"
  /\ block' = ColumnPass(block) /\ jpeg_pc' = "divide"
  /\ UNCHANGED <<extent, quantiser, scan, n, zz, k, previous_dc, jw, jpeg>>

DivisorAt(c, i) == quantiser[IF c = 1 THEN 0 ELSE 1][jpeg_zigzag[i + 1]]

\* The block is divided, and its first coefficient written.
BeginBlock ==
  LET c == Component(n - 1)
      d == Difference(c, zz'[0])
      bits == Category(d.diff)
  IN  /\ jpeg_pc = "divide"
      /\ zz' = [i \in 0..63 |->
                  Quantised(i, block[jpeg_zigzag[i + 1]], DivisorAt(c, i))]
      /\ jw' = PutValue(PutHuffman(jw, Dc(c), bits), d.diff, bits)
      /\ previous_dc' = d.previous
      /\ k' = 1 /\ jpeg_pc' = "coefficients"
      /\ UNCHANGED <<extent, quantiser, scan, n, block, jpeg>>

\* The coefficients that are left and not zero.
Left == {j \in k..63 : zz[j] # 0}

\* How many times sixteen zeros are written on their own.
LongRuns(run) == run \div 16

\* The next coefficient that is not zero, after the zeros before it.
Coefficient ==
  LET c == Component(n - 1)
      j == Min(Left)
      run == j - k
      bits == Category(zz[j])
      zeros[m \in 0..LongRuns(run)] ==
        IF m = 0 THEN jw ELSE PutHuffman(zeros[m - 1], Ac(c), 240)
      symbol == 16 * (run - 16 * LongRuns(run)) + bits
  IN  /\ jpeg_pc = "coefficients" /\ Left # {}
      /\ jw' = PutValue(PutHuffman(zeros[LongRuns(run)], Ac(c), symbol),
                       zz[j], bits)
      /\ k' = j + 1
      /\ UNCHANGED <<jpeg_pc, extent, quantiser, scan, n, block, zz, previous_dc, jpeg>>

\* Zeros that are left make an end of block.
EndCoefficients ==
  /\ jpeg_pc = "coefficients" /\ Left = {}
  /\ jw' = IF k <= 63 THEN PutHuffman(jw, Ac(Component(n - 1)), 0) ELSE jw
  /\ jpeg_pc' = "block"
  /\ UNCHANGED <<extent, quantiser, scan, n, block, zz, k, previous_dc, jpeg>>

-----------------------------------------------------------------------------
(* The file *)

PutBE16(v) == <<(v \div 256) % 256, v % 256>>

PutQuantiser(id) ==
  <<255, 219>> \o PutBE16(67) \o <<id>> \o [i \in 1..64 |-> quantiser[id][jpeg_zigzag[i]]]

PutTable(id, table) ==
  <<255, 196>> \o PutBE16(2 + 1 + 16 + Len(table.symbols)) \o <<id>>
    \o table.counts \o table.symbols

\* SOI, APP0 with the name and version of JFIF, the tables, the frame and the scan.
Headers ==
  <<255, 216, 255, 224, 0, 16, 74, 70, 73, 70, 0, 1, 2, 0, 0, 1, 0, 1, 0, 0>>
    \o PutQuantiser(0) \o PutQuantiser(1)
    \o <<255, 192>> \o PutBE16(17) \o <<8>> \o PutBE16(extent[2]) \o PutBE16(extent[1])
    \o <<3, 1, 17, 0, 2, 17, 1, 3, 17, 1>>
    \o PutTable(0, JpegDcLuminance) \o PutTable(16, JpegAcLuminance)
    \o PutTable(1, JpegDcChrominance) \o PutTable(17, JpegAcChrominance)
    \o <<255, 218, 0, 12, 3, 1, 0, 2, 17, 3, 17, 0, 63, 0>>

\* The scan is finished, and EOI put behind it.
EndScan ==
  /\ jpeg_pc = "block" /\ n = Len(scan)
  /\ jw' = Filled(jw)
  /\ jpeg' = Headers \o jw'.out \o <<255, 217>>
  /\ jpeg_pc' = "done"
  /\ UNCHANGED <<extent, quantiser, scan, n, block, zz, k, previous_dc>>

JpegNext ==
  FillBlock \/ TransformRows \/ TransformColumns \/ BeginBlock \/ Coefficient
    \/ EndCoefficients \/ EndScan

-----------------------------------------------------------------------------
(* Properties *)

\* The values a pass of the transform begins with are small enough for all its sums
\* to stay in 32 bits, and its result is that of the cosine transform T.81 defines,
\* to within half a unit of the quantiser's finest step; the first coefficient is
\* the sum of the samples, so that differences have at most 11 bits
\* (jpeg.cpp:19-93, 285-286 "DC values stay within -1024..1016 by construction").
TransformIsDct ==
  /\ jpeg_pc = "rows" => \A y \in 0..7 : PassFits(RowAt(block, y))
  /\ jpeg_pc = "columns" => \A x \in 0..7 : PassFits(ColumnAt(block, x))
  /\ jpeg_pc = "divide" /\ scan[n].kind = "samples" =>
       LET exact == Coefficients(scan[n].at)
           sum == FoldLeft(LAMBDA s, x : s + x, 0, [i \in 1..64 |-> scan[n].at[i - 1]])
       IN  /\ block[0] = sum
           /\ \A i \in 0..63 : block[i] - exact[i] \in -4..4

\* What a decoder makes of a coefficient is the nearest multiple of the
\* divisor, or the largest it may be.
Near(i, value, coefficient, q) ==
  LET divisor == 8 * q
      error == value * divisor - coefficient
  IN  \/ 2 * error <= divisor /\ -2 * error <= divisor
      \/ i # 0 /\ value = 1023 /\ error < 0
      \/ i # 0 /\ value = -1023 /\ error > 0

\* The coefficients of a block: those it came with, or those of its samples.
CoefficientsOf(m) ==
  IF scan[m].kind = "samples" THEN ColumnPass(RowPass(scan[m].at)) ELSE scan[m].at

\* The last block begun, as a decoder gets it from these divisors.
IsBlock(m, values, divisors) ==
  LET coefficients == CoefficientsOf(m)
  IN  \A i \in 0..63 :
        Near(i, values[i], coefficients[jpeg_zigzag[i + 1]],
             divisors[IF Component(m - 1) = 1 THEN 0 ELSE 1][jpeg_zigzag[i + 1]])

\* A reader that knows only the format finds in a finished file the size, divisors
\* and tables, and with these a scan of all the blocks of the image, without a
\* marker in it, that ends with less than a byte of ones: no code is missing from the
\* tables, no run or size is taken for another, and no difference is lost
\* (jpeg.cpp:118-193, 231-298).
FileReads ==
  jpeg_pc = "done" =>
    LET found == ReadSegments(jpeg)
        bits == BitsOfBytes(Unstuffed(found.data))
        tables == [c \in 0..2 |->
                     LET id == found.components[c + 1]
                     IN  [dc |-> Decoder(found.tables[id.dc]),
                          ac |-> Decoder(found.tables[16 + id.ac])]]
        r == ReadScan(bits, tables, n)
        blocks == ((found.width + 7) \div 8) * ((found.height + 7) \div 8) * 3
    IN  /\ found.width = extent[1] /\ found.height = extent[2]
        /\ NoMarker(found.data)
        /\ scan[1].kind = "samples" => blocks = Len(scan)
        /\ \A m \in 1..n : IsBlock(m, r.blocks[m],
                                    [t \in 0..1 |->
                                       [i \in 0..63 |->
                                          found.quantisers[t][
                                            CHOOSE z \in 1..64 : jpeg_zigzag[z] = i]]])
        /\ Len(bits) - r.next < 7
        /\ \A p \in r.next..Len(bits) : bits[p] = 1
=============================================================================
