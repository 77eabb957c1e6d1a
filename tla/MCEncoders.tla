----------------------------- MODULE MCEncoders -----------------------------
(***************************************************************************)
(* The encoders, each with images of its own, chosen at the start.         *)
(*                                                                         *)
(* PNG: every image of up to four pixels of three kinds, whose bytes lie   *)
(* on the two sides of 144, where the code of a byte grows to nine bits;   *)
(* and three images long enough for matches of 258 bytes.  The sheets of   *)
(* the laboratory have rings of six positions and chains of two, which     *)
(* rows of a few pixels go round, and a hash that collides.                *)
(*                                                                         *)
(* JPEG: for every coefficient the two images that make it largest, which  *)
(* take the transform to its limits; images of sizes that are no multiple  *)
(* of eight, some with alpha; every run and size of coefficients; and      *)
(* scans of four blocks with the largest differences, runs around 16 and   *)
(* at the end, values that are clamped, and codes that make FF.            *)
(*                                                                         *)
(* BMP: rows of every padding.                                             *)
(***************************************************************************)
EXTENDS LabPng, Jpeg, Bmp

-----------------------------------------------------------------------------
(* PNG *)

Pixels == {<<0, 143, 144, 255>>, <<144, 144, 144, 255>>, <<0, 0, 0, 0>>}

Sizes == {<<1, 1>>, <<2, 1>>, <<1, 2>>, <<1, 3>>, <<2, 2>>, <<1, 4>>, <<4, 1>>}

ImagesOf(size, pixels) ==
  [width : {size[1]}, height : {size[2]}, rgba : [1..(size[1] * size[2]) -> pixels]]

Uniform(width, height, pixel) ==
  [width |-> width, height |-> height, rgba |-> [p \in 1..(width * height) |-> pixel]]

\* Two rows of pixels that all differ, one like the other.
TwoRows(width) ==
  [width |-> width, height |-> 2,
   rgba |-> [p \in 1..(2 * width) |-> <<(p % width) + 120, 7, 9, 128>>]]

MCImages ==
  UNION {ImagesOf(size, Pixels) : size \in Sizes}
    \cup {Uniform(88, 2, <<9, 9, 9, 255>>), Uniform(66, 1, <<0, 0, 0, 0>>), TwoRows(65)}

\* The two ends of every row of the tables, whose lengths reach to the first
\* of the next one.
MCLengths == (3..19) \cup {22, 23, 26, 27, 30, 31, 34, 35, 42, 43, 50, 51, 58, 59, 66, 67,
                          82, 83, 98, 99, 114, 115, 130, 131, 162, 163, 194, 195,
                          226, 227, 256, 257, 258}

MCDistances ==
  {1, 2, 3, 4, 5, 6, 7, 8, 9, 12, 13, 16, 17, 24, 25, 32, 33, 48, 49, 64, 65,
   96, 97, 128, 129, 192, 193, 256, 257, 384, 385, 512, 513, 768, 769, 1024,
   1025, 1536, 1537, 2048, 2049, 3072, 3073, 4096, 4097, 6144, 6145, 8192,
   8193, 12288, 12289, 16384, 16385}

\* Of nine pixels in a row the bytes go round a ring of six positions many times.
Grey(v) == <<v, v, v, 255>>
MCCanvases ==
  ImagesOf(<<6, 1>>, {Grey(0), <<0, 0, 5, 0>>}) \cup ImagesOf(<<2, 2>>, Pixels)
    \cup {Uniform(30, 3, Grey(7))}

MCHashOf(a, b, c) == (a + b + c) % 2

-----------------------------------------------------------------------------
(* JPEG *)

Image(width, height, At(_, _)) ==
  [width |-> width, height |-> height,
   rgba |-> [p \in 1..(width * height) |-> At((p - 1) % width, (p - 1) \div width)]]

\* White where the wave of a coefficient is above zero, or below.
Extreme(u, v, sign) ==
  LET At(xx, yy) == Grey(IF sign * Wave(u, xx) * (IF Wave(v, yy) > 0 THEN 1 ELSE -1) > 0
                         THEN 255 ELSE 0)
  IN  Image(8, 8, At)

Colours(width, height) ==
  LET At(xx, yy) == <<(61 * xx + 97 * yy) % 256, (130 * xx) % 256, (200 * yy) % 256,
                      IF xx = yy THEN 128 ELSE 255>>
  IN  Image(width, height, At)

Job(image, matte, quality) == [img |-> image, matte |-> matte, quality |-> quality]

MCJpegImages ==
  {Job(Extreme(u, v, sign), <<0, 0, 0>>, 100) : u \in 0..7, v \in 0..7, sign \in {1, -1}}
    \cup {Job(Colours(size[1], size[2]), <<255, 0, 9>>, quality) :
            size \in {<<1, 1>>, <<9, 8>>, <<7, 17>>}, quality \in {50, 92, 100}}

Zeros == [z \in 0..63 |-> 0]

\* Given in the order of the zigzag.
Ordered(zigzag) ==
  [z \in 0..63 |-> zigzag[(CHOOSE j \in 1..64 : jpeg_zigzag[j] = z) - 1]]

With(dc, j, v) == [Zeros EXCEPT ![0] = 8 * dc, ![j] = 8 * v]

\* The two values of each size farthest from zero, after every run.
RunsAndSizes ==
  {Ordered(With(0, run + 1, sign * (2 ^ size - 1))) :
     run \in 0..16, size \in 1..10, sign \in {1, -1}}

Several ==
  {Zeros,
   Ordered([With(-1024, 17, 5) EXCEPT ![1] = 10500, ![63] = -10500]),
   Ordered(With(1016, 33, -512)),
   Ordered(With(127, 63, 1))}

Full == [z \in 0..63 |-> IF z = 0 THEN 8128 ELSE -4]

MCScans ==
  {<<b>> : b \in RunsAndSizes} \cup {<<Zeros, b>> : b \in RunsAndSizes}
    \cup {<<a, b, c, d>> : a \in Several, b \in Several,
                           c \in Several, d \in Several}
    \cup {<<Full, Full, a, Full>> : a \in Several}

MCDivisors == [t \in 0..1 |-> [z \in 0..63 |-> IF z = jpeg_zigzag[34] THEN 2 + t ELSE 1]]

-----------------------------------------------------------------------------
(* BMP *)

MCBmpImages ==
  {[img |-> Colours(size, height), matte |-> <<255, 0, 9>>] : size \in 1..9, height \in 1..3}

-----------------------------------------------------------------------------
(* One of them *)

PngIdle ==
  /\ pc = "idle" /\ img = <<>> /\ raw = <<>> /\ i = 0 /\ w = NewWriter /\ file = <<>>
LabIdle == with_alpha = FALSE /\ head = <<>> /\ prev = <<>>
JpegIdle ==
  /\ jpeg_pc = "idle" /\ extent = <<>> /\ quantiser = <<>> /\ scan = <<>> /\ n = 0
  /\ block = NoBlock /\ zz = NoBlock /\ k = 0 /\ previous_dc = <<0, 0, 0>>
  /\ jw = NewScanWriter /\ jpeg = <<>>
BmpIdle == bmp_pc = "idle" /\ job = <<>> /\ rows = 0 /\ bmp = <<>>

Init ==
  \/ PngInit /\ LabIdle /\ JpegIdle /\ BmpIdle
  \/ LabPngInit /\ JpegIdle /\ BmpIdle
  \/ JpegInit /\ PngIdle /\ LabIdle /\ BmpIdle
  \/ BmpInit /\ PngIdle /\ LabIdle /\ JpegIdle

Next ==
  \/ PngNext /\ UNCHANGED <<with_alpha, head, prev, jpeg_vars, bmp_vars>>
  \/ LabPngNext /\ UNCHANGED <<jpeg_vars, bmp_vars>>
  \/ JpegNext /\ UNCHANGED <<lab_vars, bmp_vars>>
  \/ BmpNext /\ UNCHANGED <<lab_vars, jpeg_vars>>

Spec == Init /\ [][Next]_<<lab_vars, jpeg_vars, bmp_vars>>
=============================================================================
