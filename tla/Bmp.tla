-------------------------------- MODULE Bmp --------------------------------
(***************************************************************************)
(* encode of src/bmp.cpp: a header, and the rows from the last one to the  *)
(* first, flattened over a matte and filled up to four bytes.              *)
(***************************************************************************)
EXTENDS Integers, Sequences, SequencesExt, Decoders

CONSTANT BmpImages   \* images, with the matte

ASSUME BmpImagesAssumption ==
  \A arguments \in BmpImages : /\ ImageWithin(arguments.img, 4096)
                               /\ arguments.matte \in [1..3 -> 0..255]

VARIABLES bmp_pc,  \* "row" or "done"
          job,     \* the arguments
          rows,    \* y of the code: how many rows are left
          bmp      \* out

bmp_vars == <<bmp_pc, job, rows, bmp>>

PutLE16(v) == <<v % 256, (v \div 256) % 256>>
PutLE32(v) == PutLE16(v % 65536) \o PutLE16(v \div 65536)

\* Mutant: a row always gets at least one byte more.
PaddedRowSize(width) == 4 * ((3 * width + 4) \div 4)

RowSize(width) == 4 * ((3 * width + 3) \div 4)

BmpHeader(img) ==
  LET data == RowSize(img.width) * img.height
  IN  <<66, 77>> \o PutLE32(54 + data) \o PutLE16(0) \o PutLE16(0) \o PutLE32(54)
        \o PutLE32(40) \o PutLE32(img.width) \o PutLE32(img.height)
        \o PutLE16(1) \o PutLE16(24) \o PutLE32(0) \o PutLE32(data)
        \o PutLE32(2835) \o PutLE32(2835) \o PutLE32(0) \o PutLE32(0)

BmpInit ==
  /\ job \in BmpImages
  /\ bmp_pc = "row" /\ rows = job.img.height /\ bmp = BmpHeader(job.img)

\* Blue, green and red of every pixel, and zeros.
PutRow ==
  LET width == job.img.width
      Pixel(x) == LET p == job.img.rgba[(rows - 1) * width + x]
                  IN  [c \in 1..3 |-> Flatten(p[4 - c], p[4], job.matte[4 - c])]
  IN  /\ bmp_pc = "row" /\ rows > 0
      /\ bmp' = bmp \o FlattenSeq([x \in 1..width |-> Pixel(x)])
                    \o [pad \in 1..(RowSize(width) - 3 * width) |-> 0]
      /\ rows' = rows - 1
      /\ UNCHANGED <<bmp_pc, job>>

EndRows ==
  /\ bmp_pc = "row" /\ rows = 0
  /\ bmp_pc' = "done"
  /\ UNCHANGED <<job, rows, bmp>>

BmpNext == PutRow \/ EndRows

BmpSpec == BmpInit /\ [][BmpNext]_bmp_vars

-----------------------------------------------------------------------------
(* Properties *)

LE32At(bytes, p) ==
  bytes[p + 1] + 256 * bytes[p + 2] + 65536 * (bytes[p + 3] + 256 * bytes[p + 4])

\* A reader that takes the sizes, the place of the pixels and the bits of a pixel
\* from the header, and rows of whole words of 32 bits as the format has them, finds
\* every pixel of the image, flattened to the nearest value, and nothing behind them
\* (bmp.cpp:22-52).
BitmapReads ==
  bmp_pc = "done" =>
    LET start  == LE32At(bmp, 10)
        width  == LE32At(bmp, 18)
        height == LE32At(bmp, 22)
        stride == ((width * bmp[29] + 31) \div 32) * 4
        At(x, row, c) == bmp[start + (height - 1 - row) * stride + 3 * x + 4 - c]
        Weighed(x, row, c) ==
          LET p == job.img.rgba[row * job.img.width + x + 1]
          IN  p[4] * p[c] + (255 - p[4]) * job.matte[c]
    IN  /\ width = job.img.width /\ height = job.img.height
        /\ LE32At(bmp, 2) = Len(bmp) /\ LE32At(bmp, 34) = stride * height
        /\ Len(bmp) = start + stride * height
        /\ \A x \in 0..(width - 1), row \in 0..(height - 1), c \in 1..3 :
             2 * (255 * At(x, row, c) - Weighed(x, row, c)) \in -255..255
=============================================================================
