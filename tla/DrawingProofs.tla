--------------------------- MODULE DrawingProofs ---------------------------
(***************************************************************************)
(* Proofs about what a picture is drawn from, for every size an image can  *)
(* have, every shape and every style that is allowed for it, every layout, *)
(* and every colour and alpha of eight bits: no sample of the grid area is *)
(* outside the outline or on the frame, so the pixels that rasterise does  *)
(* not look at are those of the definition; the colour of a pixel is a     *)
(* rounded mean of the two it is mixed from, computed in 32 bits; a        *)
(* background is refused exactly if a figure is hidden on it; and layout   *)
(* and tag read back to the bits of every fingerprint.                     *)
(***************************************************************************)
EXTENDS Raster, Mix, Contrast, Features, GeometryProofs, FiniteSetTheorems,
        SequenceTheorems

-----------------------------------------------------------------------------
(* make_geometry *)

\* A square image keeps the width of the formula, and a round one only widths
\* that have been found to fit.
Found ==
  /\ shape = "square" /\ pc = "done" => cell = SquareCell(size)
  /\ shape = "round" => cell = 0 \/ Fits(size, style, cell)
  /\ shape = "round" /\ pc = "done" => ~Fits(size, style, cell + 1)

GeometryIInv == TypeOK /\ Found

\* The strengthened invariant holds initially.
LEMMA InitGeometryIInv == GeometryInit => GeometryIInv
BY DEF GeometryInit, GeometryIInv, TypeOK, Found

\* Every step keeps it.
LEMMA StepGeometryIInv == GeometryIInv /\ [GeometryNext]_geometry_vars => GeometryIInv'
<1> SUFFICES ASSUME GeometryIInv, [GeometryNext]_geometry_vars
             PROVE  GeometryIInv'
  OBVIOUS
<1> USE DEF GeometryIInv, TypeOK, Found
<1>1. CASE SquareCells
  <2>1. size \in 16..1024
    BY SizesAssumption
  <2>2. SquareCell(size) \in Nat
    BY <2>1, SquareSide, SMTT(60)
  <2> QED
    BY <1>1, <2>2 DEF SquareCells
<1>2. CASE CountOne
  BY <1>2 DEF CountOne
<1>3. CASE Stop
  BY <1>3 DEF Stop
<1>4. CASE UNCHANGED geometry_vars
  BY <1>4 DEF geometry_vars
<1> QED
  BY <1>1, <1>2, <1>3, <1>4 DEF GeometryNext

\* The widths are natural numbers, and the shape and the style go together.
THEOREM GeometryTypeCorrect == GeometrySpec => []TypeOK
<1>1. GeometryIInv => TypeOK
  BY DEF GeometryIInv
<1> QED
  BY <1>1, InitGeometryIInv, StepGeometryIInv, PTL DEF GeometrySpec

\* The grid area is plain once the cells are found.
LEMMA GridIsPlainWhenFound == GeometryIInv => GridIsPlain
<1> SUFFICES ASSUME GeometryIInv, pc = "done", cell >= 1,
                    NEW x \in GridRange(g), NEW y \in GridRange(g),
                    NEW u \in Samples(x), NEW v \in Samples(y)
             PROVE  /\ u \in 0..(8 * size) /\ v \in 0..(8 * size)
                    /\ InOutline(g, shape, style, u, v)
                    /\ ~OnFrame(g, shape, style, u, v)
  BY DEF GridIsPlain
<1>1. size \in 16..1024 /\ cell \in Nat
  BY SizesAssumption DEF GeometryIInv, TypeOK
<1>2. CASE shape = "square"
  <2>1. style \in SquareStyles /\ cell = SquareCell(size)
    BY <1>2 DEF GeometryIInv, TypeOK, Found, FrameAllowed
  <2>2. 4 * cell + 3 * Gutter(size) + 8 * Line(size) <= size
    BY <1>1, <2>1, SquareSide
  <2>3. Line(size) \in Nat /\ Gutter(size) = Line(size)
    BY <1>1, Lines, ZenonT(120)
  <2>4. 4 * cell + 3 * Gutter(size) <= size
    BY <1>1, <2>2, <2>3
  <2>5. u \in 0..(8 * size) /\ v \in 0..(8 * size)
    BY <1>1, <2>4, FarFromSides, ZenonT(120) DEF g
  <2>6. /\ InOutline(g, "square", style, u, v)
        /\ ~OnSquareFrame(g, style, u, v)
    BY <1>1, <2>1, <2>2, SquareFrames, ZenonT(120) DEF g
  <2> QED
    BY <1>2, <2>5, <2>6 DEF OnFrame
<1>3. CASE shape = "round"
  <2>1. style \in RoundStyles /\ Fits(size, style, cell)
    BY <1>3, <1>1 DEF GeometryIInv, TypeOK, Found, FrameAllowed
  <2>2. 4 * cell + 3 * Gutter(size) <= size
    BY <1>1, <2>1, FitsInUnits, ZenonT(120)
  <2>3. u \in 0..(8 * size) /\ v \in 0..(8 * size)
    BY <1>1, <2>2, NearMiddle, ZenonT(120) DEF g
  <2>4. /\ InOutline(g, "round", style, u, v)
        /\ ~OnRoundFrame(g, style, u, v)
    BY <1>1, <2>1, RoundFrames, ZenonT(120) DEF g
  <2> QED
    BY <1>3, <2>3, <2>4 DEF OnFrame
<1> QED
  BY <1>2, <1>3 DEF GeometryIInv, TypeOK, Shape

\* The premise of the shortcut of rasterise (raster.cpp:262-263), and of
\* SPEC.md:313, for every size of image: the grid area is plain.
THEOREM GridAlwaysPlain == GeometrySpec => []GridIsPlain
BY GridIsPlainWhenFound, InitGeometryIInv, StepGeometryIInv, PTL DEF GeometrySpec

\* The width of the cells of a round image is the largest that fits, as
\* SPEC.md:195 defines it, for every size.
THEOREM AlwaysLargest == GeometrySpec => []LargestThatFits
<1>1. GeometryIInv => LargestThatFits
  <2> SUFFICES ASSUME GeometryIInv, pc = "done", shape = "round", NEW t \in 0..size
               PROVE  (t = 0 \/ Fits(size, style, t)) <=> t <= cell
    BY DEF LargestThatFits
  <2>1. /\ size \in 16..1024 /\ cell \in Nat /\ t \in Nat
        /\ style \in RoundStyles
    BY SizesAssumption DEF GeometryIInv, TypeOK, FrameAllowed
  <2>2. cell = 0 \/ Fits(size, style, cell)
    BY DEF GeometryIInv, Found
  <2>3. ~Fits(size, style, cell + 1)
    BY DEF GeometryIInv, Found
  <2>4. CASE t <= cell
    <3>1. CASE cell = 0
      BY <2>1, <2>4, <3>1
    <3>2. CASE Fits(size, style, cell)
      BY <2>1, <2>4, <3>2, NarrowerFits, ZenonT(120)
    <3> QED
      BY <2>2, <3>1, <3>2
  <2>5. CASE cell + 1 <= t
    <3>1. ~Fits(size, style, t)
      BY <2>1, <2>3, <2>5, NarrowerFits, cell + 1 \in Nat, ZenonT(120)
    <3> QED
      BY <2>1, <2>5, <3>1
  <2> QED
    BY <2>1, <2>4, <2>5
<1> QED
  BY <1>1, InitGeometryIInv, StepGeometryIInv, PTL DEF GeometrySpec

\* Only a round image with a double or thick frame below 18 pixels has no room
\* for cells (SPEC.md:176-177).
THEOREM OnlyDocumentedRefusals == GeometrySpec => []NoRoomAsDocumented
<1>1. GeometryIInv => NoRoomAsDocumented
  <2> SUFFICES ASSUME GeometryIInv, pc = "done"
               PROVE  cell < 1 <=> /\ shape = "round"
                                   /\ style \in {"double_line", "thick"}
                                   /\ size < 18
    BY DEF NoRoomAsDocumented
  <2>1. size \in 16..1024 /\ cell \in Nat
    BY SizesAssumption DEF GeometryIInv, TypeOK
  <2>2. CASE shape = "square"
    <3>1. cell >= 1
      BY <2>1, <2>2, SquareSide DEF GeometryIInv, Found
    <3> QED
      BY <2>1, <2>2, <3>1
  <2>3. CASE shape = "round"
    <3>1. style \in RoundStyles
      BY <2>3 DEF GeometryIInv, TypeOK, FrameAllowed
    <3>2. cell = 0 \/ Fits(size, style, cell)
      BY <2>3 DEF GeometryIInv, Found
    <3>3. ~Fits(size, style, cell + 1)
      BY <2>3 DEF GeometryIInv, Found
    <3>4. cell < 1 <=> ~Fits(size, style, 1)
      <4>1. CASE cell = 0
        <5>1. cell + 1 = 1
          BY <4>1
        <5> QED
          BY <3>3, <4>1, <5>1
      <4>2. CASE cell >= 1
        <5>1. Fits(size, style, cell)
          BY <3>2, <4>2
        <5>2. Fits(size, style, 1)
          BY <2>1, <3>1, <4>2, <5>1, NarrowerFits, 1 \in Nat, ZenonT(120)
        <5> QED
          BY <2>1, <4>2, <5>2
      <4> QED
        BY <2>1, <4>1, <4>2
    <3> QED
      BY <2>1, <2>3, <3>1, <3>4, SmallestCell
  <2> QED
    BY <2>2, <2>3 DEF GeometryIInv, TypeOK, Shape
<1> QED
  BY <1>1, InitGeometryIInv, StepGeometryIInv, PTL DEF GeometrySpec

-----------------------------------------------------------------------------
(* The pixels *)

\* What the surface shows at a pixel when every sample is looked at.
GroundOf(geo, sh, st, p) ==
  FramePixel(Cardinality(Framed(geo, sh, st, p[1], p[2])),
             Cardinality(Inside(geo, sh, st, p[1], p[2]))
               - Cardinality(Framed(geo, sh, st, p[1], p[2])))

\* The pixels of a cell, whether it shows at a pixel, and what it shows.
BoxOf(geo, i) ==
  (CellStart(geo, i % 4)..(CellStart(geo, i % 4) + geo.cell - 1))
    \X (CellStart(geo, i \div 4)..(CellStart(geo, i \div 4) + geo.cell - 1))

Shows(cs, geo, i, p) == cs[i + 1].figure # "none" /\ p \in BoxOf(geo, i)

FigureOf(cs, geo, i, p) ==
  LET k == Cardinality(Figured(geo, cs[i + 1].figure,
                               p[1] - CellStart(geo, i % 4),
                               p[2] - CellStart(geo, i \div 4)))
  IN  FigurePixel(cs[i + 1].colour, k, 16 - k)

\* What a pixel shows when the first k cells are drawn.
AfterCells(cs, geo, sh, st, k, p) ==
  IF \E i \in 0..(k - 1) : Shows(cs, geo, i, p)
  THEN FigureOf(cs, geo, CHOOSE i \in 0..15 : Shows(cs, geo, i, p), p)
  ELSE GroundOf(geo, sh, st, p)

\* A pixel has sixteen samples.
LEMMA SixteenSamples ==
  ASSUME NEW x \in Int, NEW y \in Int
  PROVE  /\ IsFiniteSet(Samples(x) \X Samples(y))
         /\ Cardinality(Samples(x) \X Samples(y)) = 16
<1>1. ASSUME NEW z \in Int
      PROVE  IsFiniteSet(Samples(z)) /\ Cardinality(Samples(z)) = 4
  <2>1. Samples(z) = (({8 * z + 1} \cup {8 * z + 3}) \cup {8 * z + 5}) \cup {8 * z + 7}
    <3>1. 0..3 = {0, 1, 2, 3}
      OBVIOUS
    <3> QED
      BY <3>1 DEF Samples
  <2>2. IsFiniteSet({8 * z + 1}) /\ Cardinality({8 * z + 1}) = 1
    BY FS_Singleton
  <2> DEFINE two == {8 * z + 1} \cup {8 * z + 3}
             three == two \cup {8 * z + 5}
             four == three \cup {8 * z + 7}
  <2>3. 8 * z + 3 \notin {8 * z + 1} /\ 8 * z + 5 \notin two /\ 8 * z + 7 \notin three
    OBVIOUS
  <2>4. IsFiniteSet(two) /\ Cardinality(two) = 2
    BY <2>2, <2>3, FS_AddElement
  <2> HIDE DEF two
  <2>5. IsFiniteSet(three) /\ Cardinality(three) = 3
    BY <2>3, <2>4, FS_AddElement
  <2> HIDE DEF three
  <2>6. IsFiniteSet(four) /\ Cardinality(four) = 4
    BY <2>3, <2>5, FS_AddElement
  <2> QED
    BY <2>1, <2>6 DEF three, two
<1> QED
  BY <1>1, FS_Product, 4 * 4 = 16

\* The grid area is plain: GridIsPlain without its premise.
GridPlain ==
  \A x, y \in GridRange(g) :
    \A u \in Samples(x), v \in Samples(y) :
      InOutline(g, shape, style, u, v) /\ ~OnFrame(g, shape, style, u, v)

\* So the surface shows there what the code writes without looking.
LEMMA PlainIsSurface ==
  ASSUME GridPlain, size \in 16..1024, cell \in Nat,
         NEW x \in GridRange(g), NEW y \in GridRange(g)
  PROVE  GroundOf(g, shape, style, <<x, y>>) = Surface
<1>1. x \in Int /\ y \in Int
  <2>1. Gutter(size) \in Nat
    BY Lines, ZenonT(120)
  <2>2. g.offset \in Int /\ g.grid \in Int
    BY <2>1 DEF g, GeometryOf
  <2> QED
    BY <2>2 DEF GridRange
<1>2. \A s \in Samples(x) \X Samples(y) :
        InOutline(g, shape, style, s[1], s[2]) /\ ~OnFrame(g, shape, style, s[1], s[2])
  BY DEF GridPlain
<1>3. Inside(g, shape, style, x, y) = Samples(x) \X Samples(y)
  BY <1>2 DEF Inside
<1>4. Framed(g, shape, style, x, y) = {}
  BY <1>2, <1>3 DEF Framed
<1>5. Cardinality(Inside(g, shape, style, x, y)) = 16
  BY <1>1, <1>3, SixteenSamples
<1>6. Cardinality(Framed(g, shape, style, x, y)) = 0
  BY <1>4, FS_EmptySet
<1>7. <<x, y>>[1] = x /\ <<x, y>>[2] = y
  OBVIOUS
<1> QED
  BY <1>5, <1>6, <1>7 DEF GroundOf, Surface

\* A geometry whose cells do not overlap.
Apart(geo) == geo.offset \in Int /\ geo.cell \in Nat /\ geo.gutter \in Nat

LEMMA CellsApart ==
  ASSUME NEW s \in 16..1024, NEW c \in Nat
  PROVE  Apart(GeometryOf(s, c))
<1>1. Gutter(s) \in Nat
  BY Lines, ZenonT(120)
<1>2. PICK w \in Nat : w = Gutter(s)
  BY <1>1
<1>3. 4 * c + 3 * w \in Nat /\ (s - (4 * c + 3 * w)) \div 2 \in Int
  OBVIOUS
<1>4. PICK geo : geo = GeometryOf(s, c)
  OBVIOUS
<1>5. geo.offset = (s - (4 * c + 3 * w)) \div 2 /\ geo.cell = c /\ geo.gutter = w
  BY <1>2, <1>4 DEF GeometryOf
<1> QED
  BY <1>3, <1>4, <1>5 DEF Apart

\* A coordinate is in one column or row of cells at most.
LEMMA OneColumn ==
  ASSUME NEW geo, Apart(geo), NEW i \in 0..3, NEW j \in 0..3, NEW x,
         x \in CellStart(geo, i)..(CellStart(geo, i) + geo.cell - 1),
         x \in CellStart(geo, j)..(CellStart(geo, j) + geo.cell - 1)
  PROVE  i = j
<1>1. PICK o \in Int, c \in Nat, w \in Nat :
        o = geo.offset /\ c = geo.cell /\ w = geo.gutter
  BY DEF Apart
<1>2. /\ x \in (o + i * (c + w))..(o + i * (c + w) + c - 1)
      /\ x \in (o + j * (c + w))..(o + j * (c + w) + c - 1)
  BY <1>1 DEF CellStart
<1>3. \A a \in 0..3 : a = 0 \/ a = 1 \/ a = 2 \/ a = 3
  OBVIOUS
<1> QED
  BY <1>2, <1>3

\* One cell at most shows at a pixel.
LEMMA OneShows ==
  ASSUME NEW geo, Apart(geo), NEW cs, NEW p,
         NEW i \in 0..15, NEW j \in 0..15,
         Shows(cs, geo, i, p), Shows(cs, geo, j, p)
  PROVE  i = j
<1>1. /\ i % 4 \in 0..3 /\ i \div 4 \in 0..3 /\ i = 4 * (i \div 4) + (i % 4)
      /\ j % 4 \in 0..3 /\ j \div 4 \in 0..3 /\ j = 4 * (j \div 4) + (j % 4)
  OBVIOUS
<1>2. /\ p[1] \in CellStart(geo, i % 4)..(CellStart(geo, i % 4) + geo.cell - 1)
      /\ p[2] \in CellStart(geo, i \div 4)..(CellStart(geo, i \div 4) + geo.cell - 1)
      /\ p[1] \in CellStart(geo, j % 4)..(CellStart(geo, j % 4) + geo.cell - 1)
      /\ p[2] \in CellStart(geo, j \div 4)..(CellStart(geo, j \div 4) + geo.cell - 1)
  BY DEF Shows, BoxOf
<1>3. i % 4 = j % 4
  BY <1>1, <1>2, OneColumn
<1>4. i \div 4 = j \div 4
  BY <1>1, <1>2, OneColumn
<1> QED
  BY <1>1, <1>3, <1>4

\* One more cell is drawn over what is there.
LEMMA NextCell ==
  ASSUME NEW geo, Apart(geo), NEW cs, NEW sh, NEW st, NEW p, NEW k \in 0..15
  PROVE  AfterCells(cs, geo, sh, st, k + 1, p)
           = IF Shows(cs, geo, k, p) THEN FigureOf(cs, geo, k, p)
             ELSE AfterCells(cs, geo, sh, st, k, p)
<1>1. 0..((k + 1) - 1) = 0..(k - 1) \cup {k} /\ 0..(k - 1) \subseteq 0..15
  OBVIOUS
<1>2. CASE Shows(cs, geo, k, p)
  <2>1. \A i \in 0..15 : Shows(cs, geo, i, p) => i = k
    BY <1>2, OneShows
  <2>2. (CHOOSE i \in 0..15 : Shows(cs, geo, i, p)) = k
    BY <1>2, <2>1
  <2>3. \E i \in 0..((k + 1) - 1) : Shows(cs, geo, i, p)
    BY <1>1, <1>2
  <2> QED
    BY <1>2, <2>2, <2>3 DEF AfterCells
<1>3. CASE ~Shows(cs, geo, k, p)
  <2>1. (\E i \in 0..((k + 1) - 1) : Shows(cs, geo, i, p))
          <=> (\E i \in 0..(k - 1) : Shows(cs, geo, i, p))
    BY <1>1, <1>3
  <2> QED
    BY <1>3, <2>1 DEF AfterCells
<1> QED
  BY <1>2, <1>3

\* Before the first cell there is the surface.
LEMMA NoCell ==
  ASSUME NEW geo, NEW cs, NEW sh, NEW st, NEW p
  PROVE  AfterCells(cs, geo, sh, st, 0, p) = GroundOf(geo, sh, st, p)
<1>1. 0..(0 - 1) = {}
  OBVIOUS
<1> QED
  BY <1>1 DEF AfterCells

\* The inductive invariant: the table of colours maps a number of samples to
\* their colour, the rows behind are the surface, and the cells behind are
\* drawn over it.
Beginning == pc \in {"cell", "done"} =>
  GeometryIInv /\ row = 0 /\ index = 0 /\ known = <<>>

Painting == pc \in {"surface", "figures", "drawn"} =>
  /\ size \in 16..1024 /\ cell \in Nat
  /\ GridPlain
  /\ cells \in Seq([figure : STRING, colour : 0..3]) /\ Len(cells) = 16
  /\ rgba = [p \in Canvas |-> rgba[p]]
  /\ \A c \in DOMAIN known : known[c] = FramePixel(c[2], c[1] - c[2])

RowsDone == pc = "surface" =>
  /\ row \in 0..(size - 1) /\ index = 0
  /\ \A p \in Canvas : p[2] < row => rgba[p] = GroundOf(g, shape, style, p)

CellsDone == pc \in {"figures", "drawn"} =>
  /\ index \in 0..16 /\ (pc = "drawn" <=> index = 16)
  /\ \A p \in Canvas :
       rgba[p] = AfterCells(cells, g, shape, style, index, p)

RasterIInv ==
  /\ pc \in {"cell", "done", "surface", "figures", "drawn"}
  /\ Beginning /\ Painting /\ RowsDone /\ CellsDone

LEMMA InitRasterIInv == RasterInit => RasterIInv
<1> SUFFICES ASSUME RasterInit PROVE RasterIInv
  OBVIOUS
<1>1. GeometryIInv /\ pc = "cell" /\ row = 0 /\ index = 0 /\ known = <<>>
  BY InitGeometryIInv DEF RasterInit, GeometryInit
<1> QED
  BY <1>1 DEF RasterIInv, Beginning, Painting, RowsDone, CellsDone

\* The geometry is found as before.
LEMMA FindGeometryKeeps ==
  ASSUME RasterIInv, FindGeometry
  PROVE  RasterIInv'
<1>1. pc = "cell" /\ GeometryNext /\ UNCHANGED canvas_vars
  BY DEF FindGeometry, GeometryNext, SquareCells, CountOne, Stop
<1>2. GeometryIInv /\ row = 0 /\ index = 0 /\ known = <<>>
  BY <1>1 DEF RasterIInv, Beginning
<1>3. GeometryIInv'
  BY <1>1, <1>2, StepGeometryIInv
<1>4. pc' \in {"cell", "done"}
  BY <1>3 DEF GeometryIInv, TypeOK
<1>5. row' = 0 /\ index' = 0 /\ known' = <<>>
  BY <1>1, <1>2 DEF canvas_vars
<1> QED
  BY <1>3, <1>4, <1>5 DEF RasterIInv, Beginning, Painting, RowsDone, CellsDone

\* No pixel is written yet, and the grid area is known to be plain.
LEMMA BeginKeeps ==
  ASSUME RasterIInv, Begin
  PROVE  RasterIInv'
<1>1. PICK chosen \in Layouts, look \in BOOLEAN :
        /\ pc = "done" /\ size \in Drawn
        /\ cell >= 1
        /\ pc' = "surface"
        /\ cells' = chosen /\ reference' = look
        /\ rgba' = [p \in Canvas |-> Stale]
        /\ UNCHANGED <<size, shape, style, cell, row, index, known>>
  BY Zenon DEF Begin
<1>2. GeometryIInv /\ row = 0 /\ index = 0 /\ known = <<>>
  BY <1>1 DEF RasterIInv, Beginning
<1>3. size \in 16..1024 /\ cell \in Nat
  BY <1>2, SizesAssumption DEF GeometryIInv, TypeOK
<1>4. GridIsPlain
  BY <1>2, GridIsPlainWhenFound
<1>5. GridPlain
  BY <1>1, <1>4 DEF GridIsPlain, GridPlain
<1>6. g' = g /\ Canvas' = Canvas
  BY <1>1 DEF g, Canvas
<1>7. GridPlain'
  BY <1>1, <1>5, <1>6 DEF GridPlain
<1>8. chosen \in Seq([figure : STRING, colour : 0..3]) /\ Len(chosen) = 16
  BY LayoutsAssumption
<1>9. rgba' = [p \in Canvas' |-> rgba'[p]]
  BY <1>1, <1>6
<1>10. known' = <<>> /\ DOMAIN known' = {}
  BY <1>1, <1>2
<1>11. Painting'
  BY <1>1, <1>3, <1>7, <1>8, <1>9, <1>10 DEF Painting
<1>12. RowsDone'
  <2>1. row' = 0 /\ index' = 0 /\ size' \in 16..1024
    BY <1>1, <1>2, <1>3
  <2>2. ASSUME NEW p \in Canvas'
        PROVE  ~(p[2] < row')
    <3>1. p[2] \in 0..(size' - 1)
      BY DEF Canvas
    <3> QED
      BY <2>1, <3>1
  <2>3. 0 \in 0..(size' - 1)
    <3>1. PICK s \in 16..1024 : s = size'
      BY <2>1
    <3>2. 0 \in 0..(s - 1)
      OBVIOUS
    <3> QED
      BY <3>1, <3>2
  <2> QED
    BY <2>1, <2>2, <2>3 DEF RowsDone
<1> QED
  BY <1>1, <1>11, <1>12 DEF RasterIInv, Beginning, CellsDone

\* The table never says anything else than the formula, and the pixels that
\* are not looked at are those of the grid area.
LEMMA SurfaceRowKeeps ==
  ASSUME RasterIInv, SurfaceRow
  PROVE  RasterIInv'
<1> DEFINE count == [x \in (0..(size - 1)) \ Skipped(row) |->
                       <<Cardinality(Inside(g, shape, style, x, row)),
                         Cardinality(Framed(g, shape, style, x, row))>>]
           seen  == DOMAIN known \cup Range(count)
<1>1. /\ pc = "surface" /\ row < size
      /\ known' = [c \in seen |-> LookUp(known, c[1], c[2])]
      /\ rgba' = [p \in DOMAIN rgba |->
                    IF p[2] # row THEN rgba[p]
                    ELSE IF p[1] \in Skipped(row) THEN Surface
                    ELSE known'[count[p[1]]]]
      /\ row' = row + 1
      /\ pc' = IF row' = size THEN "figures" ELSE "surface"
      /\ UNCHANGED <<size, shape, style, cell, cells, reference, index>>
  BY Zenon DEF SurfaceRow
<1>2. /\ size \in 16..1024 /\ cell \in Nat /\ GridPlain
      /\ cells \in Seq([figure : STRING, colour : 0..3]) /\ Len(cells) = 16
      /\ rgba = [p \in Canvas |-> rgba[p]]
      /\ \A c \in DOMAIN known : known[c] = FramePixel(c[2], c[1] - c[2])
      /\ row \in 0..(size - 1) /\ index = 0
      /\ \A p \in Canvas : p[2] < row => rgba[p] = GroundOf(g, shape, style, p)
  BY <1>1 DEF RasterIInv, Painting, RowsDone
<1>3. DOMAIN rgba = Canvas
  BY <1>2
<1>4. g' = g /\ Canvas' = Canvas
  BY <1>1 DEF g, Canvas
<1>5. \A c : LookUp(known, c[1], c[2]) = FramePixel(c[2], c[1] - c[2])
  <2> SUFFICES ASSUME NEW c
               PROVE  LookUp(known, c[1], c[2]) = FramePixel(c[2], c[1] - c[2])
    OBVIOUS
  <2>1. CASE <<c[1], c[2]>> \in DOMAIN known
    <3>1. <<c[1], c[2]>>[1] = c[1] /\ <<c[1], c[2]>>[2] = c[2]
      OBVIOUS
    <3> QED
      BY <1>2, <2>1, <3>1 DEF LookUp
  <2>2. CASE <<c[1], c[2]>> \notin DOMAIN known
    BY <2>2 DEF LookUp
  <2> QED
    BY <2>1, <2>2
<1>6. /\ DOMAIN known' = seen
      /\ \A c \in seen : known'[c] = FramePixel(c[2], c[1] - c[2])
  <2> HIDE DEF seen
  <2> QED
    BY <1>1, <1>5
<1>7. ASSUME NEW x \in (0..(size - 1)) \ Skipped(row)
      PROVE  known'[count[x]] = GroundOf(g, shape, style, <<x, row>>)
  <2>1. count[x] = <<Cardinality(Inside(g, shape, style, x, row)),
                     Cardinality(Framed(g, shape, style, x, row))>>
    BY Zenon
  <2>2. count[x] \in seen
    <3>1. x \in DOMAIN count
      BY Zenon
    <3> HIDE DEF count
    <3> QED
      BY <3>1 DEF Range
  <2>3. known'[count[x]] = FramePixel(count[x][2], count[x][1] - count[x][2])
    BY <1>6, <2>2
  <2> HIDE DEF count
  <2>4. /\ count[x][1] = Cardinality(Inside(g, shape, style, x, row))
        /\ count[x][2] = Cardinality(Framed(g, shape, style, x, row))
    BY <2>1
  <2>5. <<x, row>>[1] = x /\ <<x, row>>[2] = row
    OBVIOUS
  <2> QED
    BY <2>3, <2>4, <2>5 DEF GroundOf
<1>8. ASSUME NEW x \in Skipped(row)
      PROVE  Surface = GroundOf(g, shape, style, <<x, row>>)
  <2>1. x \in GridRange(g) /\ row \in GridRange(g)
    BY DEF Skipped
  <2> QED
    BY <1>2, <2>1, PlainIsSurface
<1>9. ASSUME NEW p \in Canvas, p[2] <= row
      PROVE  rgba'[p] = GroundOf(g, shape, style, p)
  <2>1. /\ p = <<p[1], p[2]>> /\ p[1] \in 0..(size - 1) /\ p[2] \in 0..(size - 1)
    BY DEF Canvas
  <2>2. rgba'[p] = IF p[2] # row THEN rgba[p]
                   ELSE IF p[1] \in Skipped(row) THEN Surface
                   ELSE known'[count[p[1]]]
    <3> HIDE DEF count
    <3> QED
      BY <1>1, <1>3
  <2> HIDE DEF count
  <2>3. CASE p[2] # row
    <3>1. p[2] < row
      BY <1>2, <1>9, <2>1, <2>3
    <3> QED
      BY <1>2, <2>2, <2>3, <3>1
  <2>4. CASE p[2] = row /\ p[1] \in Skipped(row)
    BY <1>8, <2>1, <2>2, <2>4
  <2>5. CASE p[2] = row /\ p[1] \notin Skipped(row)
    <3>1. known'[count[p[1]]] = GroundOf(g, shape, style, <<p[1], row>>)
      BY <1>7, <2>1, <2>5
    <3> QED
      BY <2>1, <2>2, <2>5, <3>1
  <2> QED
    BY <2>3, <2>4, <2>5
<1>10. Painting'
  <2>1. rgba' = [p \in Canvas' |-> rgba'[p]]
    <3>1. DOMAIN rgba' = Canvas'
      <4> HIDE DEF count
      <4> QED
        BY <1>1, <1>3, <1>4
    <3>2. rgba' = [p \in DOMAIN rgba' |-> rgba'[p]]
      <4> HIDE DEF count
      <4> QED
        BY <1>1
    <3> QED
      BY <3>1, <3>2
  <2>2. GridPlain'
    BY <1>1, <1>2, <1>4 DEF GridPlain
  <2>3. \A c \in DOMAIN known' : known'[c] = FramePixel(c[2], c[1] - c[2])
    <3> HIDE DEF seen
    <3> QED
      BY <1>6
  <2>4. size' \in 16..1024 /\ cell' \in Nat /\ cells' = cells
    BY <1>1, <1>2
  <2> HIDE DEF seen, count
  <2> QED
    BY <1>2, <2>1, <2>2, <2>3, <2>4 DEF Painting
<1> HIDE DEF seen, count
<1>11. RowsDone'
  <2> SUFFICES ASSUME pc' = "surface"
               PROVE  RowsDone'
    BY DEF RowsDone
  <2>1. row' # size /\ row' = row + 1 /\ size' = size /\ index' = 0
        /\ shape' = shape /\ style' = style
    BY <1>1, <1>2
  <2>2. row' \in 0..(size' - 1)
    <3>1. row \in 0..(size - 1) /\ size \in 16..1024
      BY <1>2
    <3>2. row + 1 # size
      BY <2>1
    <3>3. row + 1 \in 0..(size - 1)
      BY <3>1, <3>2
    <3> QED
      BY <2>1, <3>3
  <2>3. ASSUME NEW p \in Canvas', p[2] < row'
        PROVE  rgba'[p] = GroundOf(g', shape', style', p)
    <3>1. p \in Canvas /\ p[2] \in 0..(size - 1)
      BY <1>4 DEF Canvas
    <3>2. p[2] <= row
      BY <1>2, <2>1, <2>3, <3>1
    <3> QED
      BY <1>4, <1>9, <2>1, <3>1, <3>2
  <2> QED
    BY <2>1, <2>2, <2>3 DEF RowsDone
<1>12. CellsDone'
  <2> SUFFICES ASSUME pc' = "figures"
               PROVE  CellsDone'
    BY <1>1 DEF CellsDone
  <2>1. row' = size /\ row' = row + 1 /\ index' = 0 /\ UNCHANGED <<shape, style, cells>>
    BY <1>1, <1>2
  <2>2. ASSUME NEW p \in Canvas'
        PROVE  rgba'[p] = AfterCells(cells', g', shape', style', index', p)
    <3>1. p \in Canvas /\ p[2] \in 0..(size - 1)
      BY <1>4 DEF Canvas
    <3>2. p[2] <= row
      BY <1>2, <2>1, <3>1
    <3>3. rgba'[p] = GroundOf(g, shape, style, p)
      BY <1>9, <3>1, <3>2
    <3>4. AfterCells(cells, g, shape, style, 0, p) = GroundOf(g, shape, style, p)
      BY NoCell
    <3> QED
      BY <1>4, <2>1, <3>3, <3>4
  <2>3. index' \in 0..16 /\ (pc' = "drawn" <=> index' = 16)
    BY <2>1
  <2> QED
    BY <2>2, <2>3 DEF CellsDone
<1>13. pc' \in {"surface", "figures"}
  BY <1>1
<1> QED
  BY <1>10, <1>11, <1>12, <1>13 DEF RasterIInv, Beginning

\* A figure replaces what is under it, and nothing else.
LEMMA DrawCellKeeps ==
  ASSUME RasterIInv, DrawCell
  PROVE  RasterIInv'
<1> DEFINE drawing == cells[index + 1]
           m(p) == Cardinality(Figured(g, drawing.figure,
                                       p[1] - CellStart(g, index % 4),
                                       p[2] - CellStart(g, index \div 4)))
<1>1. /\ pc = "figures" /\ index < Len(cells)
      /\ rgba' = IF drawing.figure = "none" THEN rgba
                 ELSE [p \in DOMAIN rgba |->
                         IF p \in CellPixels(index)
                         THEN FigurePixel(drawing.colour, m(p), 16 - m(p))
                         ELSE rgba[p]]
      /\ index' = index + 1
      /\ pc' = IF index' = Len(cells) THEN "drawn" ELSE "figures"
      /\ UNCHANGED <<size, shape, style, cell, cells, reference, row, known>>
  BY Zenon DEF DrawCell
<1>2. /\ size \in 16..1024 /\ cell \in Nat /\ GridPlain
      /\ cells \in Seq([figure : STRING, colour : 0..3]) /\ Len(cells) = 16
      /\ rgba = [p \in Canvas |-> rgba[p]]
      /\ \A c \in DOMAIN known : known[c] = FramePixel(c[2], c[1] - c[2])
      /\ index \in 0..16
      /\ \A p \in Canvas : rgba[p] = AfterCells(cells, g, shape, style, index, p)
  BY <1>1 DEF RasterIInv, Painting, CellsDone
<1>3. DOMAIN rgba = Canvas /\ index \in 0..15
  BY <1>1, <1>2
<1>4. g' = g /\ Canvas' = Canvas
  BY <1>1 DEF g, Canvas
<1>5. Apart(g)
  BY <1>2, CellsApart DEF g
<1>6. ASSUME NEW p \in Canvas
      PROVE  rgba'[p] = AfterCells(cells, g, shape, style, index + 1, p)
  <2>1. AfterCells(cells, g, shape, style, index + 1, p)
          = IF Shows(cells, g, index, p) THEN FigureOf(cells, g, index, p)
            ELSE AfterCells(cells, g, shape, style, index, p)
    BY <1>3, <1>5, NextCell
  <2>2. Shows(cells, g, index, p) <=> drawing.figure # "none" /\ p \in CellPixels(index)
    BY DEF Shows, BoxOf, CellPixels, CellRange
  <2>3. FigureOf(cells, g, index, p) = FigurePixel(drawing.colour, m(p), 16 - m(p))
    BY DEF FigureOf
  <2>4. rgba'[p] = IF drawing.figure # "none" /\ p \in CellPixels(index)
                   THEN FigurePixel(drawing.colour, m(p), 16 - m(p))
                   ELSE rgba[p]
    <3> HIDE DEF m, drawing
    <3>1. CASE drawing.figure = "none"
      BY <1>1, <3>1
    <3>2. CASE drawing.figure # "none"
      BY <1>1, <1>3, <3>2
    <3> QED
      BY <3>1, <3>2
  <2> HIDE DEF m, drawing
  <2> QED
    BY <1>2, <2>1, <2>2, <2>3, <2>4
<1>7. rgba' = [p \in Canvas' |-> rgba'[p]]
  <2> HIDE DEF m, drawing
  <2>1. CASE drawing.figure = "none"
    BY <1>1, <1>2, <1>4, <2>1
  <2>2. CASE drawing.figure # "none"
    BY <1>1, <1>3, <1>4, <2>2
  <2> QED
    BY <2>1, <2>2
<1> HIDE DEF m, drawing
<1>8. Painting'
  <2>1. GridPlain'
    BY <1>1, <1>2, <1>4 DEF GridPlain
  <2>2. size' \in 16..1024 /\ cell' \in Nat /\ cells' = cells /\ known' = known
    BY <1>1, <1>2
  <2> QED
    BY <1>2, <1>7, <2>1, <2>2 DEF Painting
<1>9. CellsDone'
  <2>1. index' = index + 1 /\ UNCHANGED <<shape, style, cells>>
    BY <1>1
  <2>2. index' \in 0..16 /\ (pc' = "drawn" <=> index' = 16)
    BY <1>1, <1>2, <1>3, <2>1
  <2>3. \A p \in Canvas' : rgba'[p] = AfterCells(cells', g', shape', style', index', p)
    BY <1>4, <1>6, <2>1
  <2> QED
    BY <2>2, <2>3 DEF CellsDone
<1>10. pc' \in {"figures", "drawn"}
  BY <1>1
<1> QED
  BY <1>8, <1>9, <1>10 DEF RasterIInv, Beginning, RowsDone

LEMMA StepRasterIInv == RasterIInv /\ [RasterNext]_raster_vars => RasterIInv'
<1> SUFFICES ASSUME RasterIInv, [RasterNext]_raster_vars PROVE RasterIInv'
  OBVIOUS
<1>1. CASE UNCHANGED raster_vars
  <2>1. /\ UNCHANGED <<pc, size, shape, style, cell>>
        /\ UNCHANGED <<cells, reference, row, index, known, rgba>>
    BY <1>1 DEF raster_vars, geometry_vars, canvas_vars
  <2>2. g' = g /\ Canvas' = Canvas
    BY <2>1 DEF g, Canvas
  <2>3. GridPlain' = GridPlain
    BY <2>1, <2>2 DEF GridPlain
  <2>4. GeometryIInv' = GeometryIInv
    BY <2>1 DEF GeometryIInv, TypeOK, Found
  <2> QED
    BY <2>1, <2>2, <2>3, <2>4 DEF RasterIInv, Beginning, Painting, RowsDone, CellsDone
<1> QED
  BY <1>1, FindGeometryKeeps, BeginKeeps, SurfaceRowKeeps, DrawCellKeeps DEF RasterNext

\* Neither the pixels that rasterise does not look at, nor its table of
\* colours, show in the image: every pixel is the one of SPEC.md section 8.5,
\* for every size, shape, style and layout.
THEOREM ImageAlwaysExpected == RasterSpec => []ImageIsExpected
<1>1. RasterIInv => ImageIsExpected
  <2> SUFFICES ASSUME RasterIInv, pc = "drawn", NEW p \in DOMAIN rgba
               PROVE  rgba[p] = Expected(p)
    BY DEF ImageIsExpected
  <2>1. /\ rgba = [q \in Canvas |-> rgba[q]] /\ index = 16
        /\ \A q \in Canvas : rgba[q] = AfterCells(cells, g, shape, style, index, q)
    BY DEF RasterIInv, Painting, CellsDone
  <2>2. p \in Canvas
    BY <2>1
  <2>3. rgba[p] = AfterCells(cells, g, shape, style, 16, p)
    BY <2>1, <2>2
  <2>4. 0..(16 - 1) = 0..15
    OBVIOUS
  <2>5. \A i : BoxOf(g, i) = CellPixels(i)
    BY DEF BoxOf, CellPixels, CellRange
  <2>6. \A i : Shows(cells, g, i, p)
                 <=> cells[i + 1].figure # "none" /\ p \in CellPixels(i)
    BY <2>5 DEF Shows
  <2>7. (CHOOSE i \in 0..15 : Shows(cells, g, i, p))
          = CHOOSE i \in 0..15 : cells[i + 1].figure # "none" /\ p \in CellPixels(i)
    BY <2>6
  <2>8. (\E i \in 0..15 : Shows(cells, g, i, p))
          <=> \E i \in 0..15 : cells[i + 1].figure # "none" /\ p \in CellPixels(i)
    BY <2>6
  <2> DEFINE shown == CHOOSE i \in 0..15 : Shows(cells, g, i, p)
  <2>9. AfterCells(cells, g, shape, style, 16, p)
          = IF \E i \in 0..15 : Shows(cells, g, i, p) THEN FigureOf(cells, g, shown, p)
            ELSE GroundOf(g, shape, style, p)
    <3>1. (\E i \in 0..(16 - 1) : Shows(cells, g, i, p))
            <=> \E i \in 0..15 : Shows(cells, g, i, p)
      BY <2>4
    <3> QED
      BY <3>1, Zenon DEF AfterCells
  <2>10. Expected(p)
          = IF \E i \in 0..15 : Shows(cells, g, i, p) THEN FigureOf(cells, g, shown, p)
            ELSE GroundOf(g, shape, style, p)
    BY <2>7, <2>8, Zenon DEF Expected, FigureOf, GroundOf
  <2> QED
    BY <2>3, <2>9, <2>10
<1> QED
  BY <1>1, InitRasterIInv, StepRasterIInv, PTL DEF RasterSpec

-----------------------------------------------------------------------------
(* The colour of a pixel *)

\* What weighs the foreground's channel in the sum, and the background's.
Front(fa, nf) == nf * (255 * fa)
Back(fa, nf, ba, nb) == nf * (ba * (255 - fa)) + nb * (255 * ba)

\* The largest weight: sixteen samples of an opaque colour.
MostWeight == 1040400

\* A quotient is the largest number of whole parts.
LEMMA WholeParts ==
  ASSUME NEW s \in Nat, NEW a \in Nat, a > 0
  PROVE  /\ s \div a \in Nat
         /\ a * (s \div a) <= s
         /\ s < a * (s \div a) + a
  OBVIOUS

\* A product grows with its factors.
LEMMA Products ==
  ASSUME NEW a \in Nat, NEW b \in Nat, NEW c \in Nat, b <= c
  PROVE  a * b <= a * c /\ a * b \in Nat /\ a * c \in Nat
  OBVIOUS

\* The rounded weighted mean of two numbers lies between them.
LEMMA MeanBetween ==
  ASSUME NEW v \in Nat, NEW w \in Nat, v + w > 0,
         NEW f \in Nat, NEW b \in Nat, NEW low \in Nat, NEW high \in Nat,
         low <= f, low <= b, f <= high, b <= high
  PROVE  (v * f + w * b + (v + w) \div 2) \div (v + w) \in low..high
<1> DEFINE a == v + w
           s == v * f + w * b
           q == (s + a \div 2) \div a
<1>1. v * low + w * low <= s /\ s <= v * high + w * high /\ s \in Nat
  BY Products
<1>2. v * low + w * low = a * low /\ v * high + w * high = a * high
  OBVIOUS
<1>3. a \in Nat /\ a > 0 /\ a \div 2 \in Nat /\ a \div 2 < a
  OBVIOUS
<1> HIDE DEF a, s
<1>4. q \in Nat /\ a * q <= s + a \div 2 /\ s + a \div 2 < a * q + a
  BY <1>1, <1>3, WholeParts
<1> HIDE DEF q
<1>5. low <= q
  <2> SUFFICES ASSUME q + 1 <= low PROVE FALSE
    BY <1>4
  <2>1. a * (q + 1) <= a * low
    BY <1>3, <1>4, Products
  <2>2. a * (q + 1) = a * q + a
    BY <1>3, <1>4
  <2>3. a * q \in Nat /\ a * low \in Nat
    BY <1>3, <1>4
  <2> QED
    BY <1>1, <1>2, <1>3, <1>4, <2>1, <2>2, <2>3
<1>6. q <= high
  <2> SUFFICES ASSUME high + 1 <= q PROVE FALSE
    BY <1>4
  <2>1. a * (high + 1) <= a * q
    BY <1>3, <1>4, Products
  <2>2. a * (high + 1) = a * high + a
    BY <1>3
  <2>3. a * q \in Nat /\ a * high \in Nat
    BY <1>3, <1>4
  <2> QED
    BY <1>1, <1>2, <1>3, <1>4, <2>1, <2>2, <2>3
<1> QED
  BY <1>4, <1>5, <1>6 DEF q, s, a

\* Sums within these bounds fit the types of the code.
LEMMA Fitting ==
  ASSUME NEW w \in Nat, w <= MostWeight, NEW s \in Nat, s <= 255 * MostWeight
  PROVE  /\ w <= 16 * 65025
         /\ s + w \div 2 <= LargestInt32
  BY SMT DEF MostWeight, LargestInt32

\* The sums of mix are those of a weighted mean, and how large they can be.
Weighs(f, fa, nf, b, ba, nb) ==
  /\ Front(fa, nf) \in Nat /\ Back(fa, nf, ba, nb) \in Nat
  /\ WeightOf(fa, nf, ba, nb) = Front(fa, nf) + Back(fa, nf, ba, nb)
  /\ ChannelSum(f, fa, nf, b, ba, nb)
       = Front(fa, nf) * f + Back(fa, nf, ba, nb) * b
  /\ WeightOf(fa, nf, ba, nb) <= MostWeight
  /\ ChannelSum(f, fa, nf, b, ba, nb) <= 255 * WeightOf(fa, nf, ba, nb)

\* mix weighs so whatever the colours and the counts.
LEMMA Weighted ==
  ASSUME NEW f \in 0..255, NEW fa \in 0..255, NEW nf \in Nat,
         NEW b \in 0..255, NEW ba \in 0..255, NEW nb \in Nat, nf + nb <= 16
  PROVE  Weighs(f, fa, nf, b, ba, nb)
<1> DEFINE r == 255 - fa
           x == 255 * fa
           y == ba * r
           z == 255 * ba
<1>1. /\ x \in Nat /\ y \in Nat /\ z \in Nat
      /\ x + y <= 65025 /\ z <= 65025
  <2>1. r \in Nat
    OBVIOUS
  <2>2. ba * r <= 255 * r /\ ba * r \in Nat
    BY <2>1, Products
  <2> QED
    BY <2>1, <2>2
<1>2. /\ 255 * fa * f = x * f /\ ba * (255 - fa) * b = y * b
      /\ nb * 255 * ba = nb * z /\ nb * 255 * ba * b = nb * z * b
  OBVIOUS
<1>3. /\ Front(fa, nf) = nf * x
      /\ Back(fa, nf, ba, nb) = nf * y + nb * z
      /\ WeightOf(fa, nf, ba, nb) = nf * (x + y) + nb * z
      /\ ChannelSum(f, fa, nf, b, ba, nb) = nf * (x * f + y * b) + nb * z * b
  BY <1>2 DEF Front, Back, WeightOf, ChannelSum
<1> HIDE DEF r, x, y, z
<1>4. nf * x \in Nat /\ nf * y \in Nat /\ nb * z \in Nat
  BY <1>1
<1>5. nf * (x + y) = nf * x + nf * y
  BY <1>1
<1>6. nf * (x * f + y * b) + nb * z * b = (nf * x) * f + (nf * y + nb * z) * b
  BY <1>1
<1>7. nf * (x + y) + nb * z <= MostWeight
  <2>1. nf * (x + y) <= nf * 65025 /\ nb * z <= nb * 65025
    BY <1>1, Products
  <2> QED
    BY <1>1, <2>1 DEF MostWeight
<1>8. (nf * x) * f + (nf * y + nb * z) * b
        <= 255 * (nf * x + (nf * y + nb * z))
  <2> DEFINE p == nf * x
             o == nf * y + nb * z
  <2>1. p \in Nat /\ o \in Nat
    BY <1>4
  <2> HIDE DEF p, o
  <2>2. /\ p * f <= p * 255 /\ p * f \in Nat
        /\ o * b <= o * 255 /\ o * b \in Nat
    BY <2>1, Products
  <2>3. p * 255 + o * 255 = 255 * (p + o) /\ p * 255 \in Nat /\ o * 255 \in Nat
    BY <2>1
  <2>4. p * f + o * b <= 255 * (p + o)
    BY <2>2, <2>3
  <2> QED
    BY <2>4 DEF p, o
<1>9. Front(fa, nf) \in Nat /\ Back(fa, nf, ba, nb) \in Nat
  BY <1>3, <1>4
<1>10. WeightOf(fa, nf, ba, nb) = Front(fa, nf) + Back(fa, nf, ba, nb)
  BY <1>3, <1>4, <1>5
<1>11. ChannelSum(f, fa, nf, b, ba, nb)
         = Front(fa, nf) * f + Back(fa, nf, ba, nb) * b
  BY <1>3, <1>6
<1>12. ChannelSum(f, fa, nf, b, ba, nb) <= 255 * WeightOf(fa, nf, ba, nb)
  BY <1>3, <1>8, <1>10, <1>11
<1>13. WeightOf(fa, nf, ba, nb) <= MostWeight
  BY <1>3, <1>7
<1> QED
  BY <1>9, <1>10, <1>11, <1>12, <1>13, Zenon DEF Weighs

\* The same of the sums of the pixel whose samples are counted.
LEMMA CountedWeighted ==
  ASSUME fg \in 0..255, fg_alpha \in 0..255, bg \in 0..255,
         bg_alpha \in 0..255, n_fg \in Nat, n_bg \in Nat, n_fg + n_bg <= 16
  PROVE  /\ Front(fg_alpha, n_fg) \in Nat
         /\ Back(fg_alpha, n_fg, bg_alpha, n_bg) \in Nat
         /\ TotalWeight = Front(fg_alpha, n_fg)
                            + Back(fg_alpha, n_fg, bg_alpha, n_bg)
         /\ TotalSum = Front(fg_alpha, n_fg) * fg
                         + Back(fg_alpha, n_fg, bg_alpha, n_bg) * bg
         /\ TotalWeight \in Nat /\ TotalWeight <= MostWeight
         /\ TotalSum \in Nat /\ TotalSum <= 255 * MostWeight
<1> DEFINE v == Front(fg_alpha, n_fg)
           o == Back(fg_alpha, n_fg, bg_alpha, n_bg)
           w == WeightOf(fg_alpha, n_fg, bg_alpha, n_bg)
           s == ChannelSum(fg, fg_alpha, n_fg, bg, bg_alpha, n_bg)
<1>1. /\ v \in Nat /\ o \in Nat
      /\ w = v + o /\ s = v * fg + o * bg
      /\ w <= MostWeight /\ s <= 255 * w
  <2>1. Weighs(fg, fg_alpha, n_fg, bg, bg_alpha, n_bg)
    BY Weighted, Zenon
  <2> QED
    BY <2>1, Zenon DEF Weighs
<1>2. TotalWeight = w /\ TotalSum = s
  BY DEF TotalWeight, TotalSum
<1> HIDE DEF v, o, w, s
<1>3. fg \in Nat /\ bg \in Nat
  OBVIOUS
<1>4. v * fg \in Nat /\ o * bg \in Nat
  BY <1>1, <1>3
<1>5. w \in Nat /\ s \in Nat /\ s <= 255 * MostWeight
  <2>1. w \in Nat /\ s \in Nat
    BY <1>1, <1>4
  <2>2. MostWeight \in Nat
    BY DEF MostWeight
  <2> QED
    BY <1>1, <2>1, <2>2
<1>6. /\ TotalWeight = v + o /\ TotalSum = v * fg + o * bg
      /\ TotalWeight \in Nat /\ TotalWeight <= MostWeight
      /\ TotalSum \in Nat /\ TotalSum <= 255 * MostWeight
  BY <1>1, <1>2, <1>5
<1> QED
  BY <1>1, <1>6, Zenon DEF v, o

\* The values are bytes, the samples are sixteen at most.
Counted ==
  /\ fg \in 0..255 /\ fg_alpha \in 0..255 /\ bg \in 0..255
  /\ bg_alpha \in 0..255
  /\ n_fg \in Nat /\ n_bg \in Nat /\ left \in Nat
  /\ n_fg + n_bg + left <= 16

\* A pixel that has been written is the mixture of all its samples.
IsMixed ==
  written => left = 0 /\ pixel = MixOf(fg, fg_alpha, n_fg, bg, bg_alpha, n_bg)

MixIInv == Counted /\ IsMixed

\* No sample is counted at first.
LEMMA InitMixIInv == MixInit => MixIInv
  BY ValuesAssumption DEF MixInit, MixIInv, Counted, IsMixed

\* A sample is counted once, and none after the pixel has been written.
LEMMA StepMixIInv == MixIInv /\ [MixNext]_mix_vars => MixIInv'
<1> SUFFICES ASSUME MixIInv, [MixNext]_mix_vars PROVE MixIInv'
  OBVIOUS
<1>1. CASE CountSample
  <2>1. PICK foreground \in 0..1, background \in 0..1 :
          /\ left > 0 /\ foreground + background <= 1
          /\ left' = left - 1
          /\ n_fg' = n_fg + foreground /\ n_bg' = n_bg + background
          /\ UNCHANGED <<fg, fg_alpha, bg, bg_alpha, written, pixel>>
    BY <1>1 DEF CountSample
  <2>2. Counted'
    BY <2>1 DEF MixIInv, Counted
  <2>3. ~written
    BY <2>1 DEF MixIInv, IsMixed, Counted
  <2> QED
    BY <2>1, <2>2, <2>3 DEF MixIInv, IsMixed
<1>2. CASE WritePixel
  BY <1>2 DEF WritePixel, MixIInv, Counted, IsMixed
<1>3. CASE UNCHANGED mix_vars
  BY <1>3 DEF mix_vars, MixIInv, Counted, IsMixed
<1> QED
  BY <1>1, <1>2, <1>3 DEF MixNext

\* No counter and no product of mix exceeds its type (raster.cpp:160-168).
THEOREM SumsAlwaysFit == MixSpec => []SumsFit
<1>1. MixIInv => SumsFit
  <2> SUFFICES ASSUME MixIInv PROVE SumsFit
    OBVIOUS
  <2>1. Counted /\ n_fg + n_bg <= 16
    BY DEF MixIInv, Counted
  <2>2. /\ TotalWeight \in Nat /\ TotalWeight <= MostWeight
        /\ TotalSum \in Nat /\ TotalSum <= 255 * MostWeight
    BY <2>1, CountedWeighted, Zenon DEF Counted
  <2>3. /\ TotalWeight <= 16 * 65025
        /\ TotalSum + TotalWeight \div 2 <= LargestInt32
    BY <2>2, Fitting
  <2>4. n_fg \in Nat /\ n_bg \in Nat /\ left \in Nat
        /\ n_fg + n_bg + left <= 16
    BY <2>1 DEF Counted
  <2> QED
    BY <2>2, <2>3, <2>4 DEF SumsFit
<1> QED
  BY <1>1, InitMixIInv, StepMixIInv, PTL DEF MixSpec

\* No sample of a colour adds anything of it.
LEMMA NoneIsZero ==
  ASSUME NEW n, n = 0, NEW c \in Nat, NEW d \in Nat
  PROVE  n * c = n * d
  OBVIOUS

\* Two bounds of the colours that have a weight.
Enclose(low, high) ==
  /\ low \in 0..255 /\ high \in 0..255 /\ low <= high
  /\ Front(fg_alpha, n_fg) = 0 \/ (low <= fg /\ fg <= high)
  /\ Back(fg_alpha, n_fg, bg_alpha, n_bg) = 0 \/ (low <= bg /\ bg <= high)

\* A pixel is its mixture: the conversions to eight bits change nothing, and the
\* channel lies between any two bounds of the two it is mixed from.
LEMMA PixelIsMean ==
  ASSUME MixIInv, written, pixel.alpha # 0,
         NEW low, NEW high, Enclose(low, high)
  PROVE  /\ pixel.channel \in low..high
         /\ pixel.channel = Mixed(TotalSum, TotalWeight)
         /\ pixel.alpha = AlphaOf(TotalWeight)
<1> DEFINE v == Front(fg_alpha, n_fg)
           o == Back(fg_alpha, n_fg, bg_alpha, n_bg)
           f == IF v = 0 THEN low ELSE fg
           b == IF o = 0 THEN low ELSE bg
<1>1. Counted /\ n_fg + n_bg <= 16
  BY DEF MixIInv, Counted
<1>2. /\ v \in Nat /\ o \in Nat /\ TotalWeight = v + o
      /\ TotalSum = v * fg + o * bg /\ TotalWeight <= MostWeight
  BY <1>1, CountedWeighted, Zenon DEF Counted
<1>3. pixel = IF AlphaOf(TotalWeight) = 0 THEN [channel |-> 0, alpha |-> 0]
              ELSE [channel |-> Mixed(TotalSum, TotalWeight) % 256,
                    alpha |-> AlphaOf(TotalWeight) % 256]
  BY DEF MixIInv, IsMixed, MixOf, TotalWeight, TotalSum
<1>4. AlphaOf(TotalWeight) # 0
  BY <1>3
<1>5. pixel.channel = Mixed(TotalSum, TotalWeight) % 256
      /\ pixel.alpha = AlphaOf(TotalWeight) % 256
  BY <1>3, <1>4
<1>6. fg \in Nat /\ bg \in Nat /\ fg <= 255 /\ bg <= 255
  BY <1>1 DEF Counted
<1>7. /\ f \in Nat /\ b \in Nat /\ low \in 0..255 /\ high \in 0..255
      /\ low <= f /\ low <= b /\ f <= high /\ b <= high
  BY <1>6 DEF Enclose
<1>8. v * fg = v * f /\ o * bg = o * b
  <2>1. v * fg = v * f
    <3>1. CASE v = 0
      BY <3>1, <1>6, <1>7, NoneIsZero
    <3>2. CASE v # 0
      BY <3>2
    <3> QED
      BY <3>1, <3>2
  <2>2. o * bg = o * b
    <3>1. CASE o = 0
      BY <3>1, <1>6, <1>7, NoneIsZero
    <3>2. CASE o # 0
      BY <3>2
    <3> QED
      BY <3>1, <3>2
  <2> QED
    BY <2>1, <2>2
<1> HIDE DEF v, o, f, b
<1>9. v + o > 0
  <2> SUFFICES ASSUME TotalWeight = 0 PROVE FALSE
    BY <1>2
  <2> QED
    BY <1>4 DEF AlphaOf
<1>10. Mixed(TotalSum, TotalWeight) \in low..high
  <2>1. (v * f + o * b + (v + o) \div 2) \div (v + o) \in low..high
    BY <1>2, <1>7, <1>9, MeanBetween
  <2> QED
    BY <1>2, <1>8, <2>1 DEF Mixed
<1>11. Mixed(TotalSum, TotalWeight) % 256 = Mixed(TotalSum, TotalWeight)
  BY <1>7, <1>10
<1>12. AlphaOf(TotalWeight) \in 0..255
  BY <1>2 DEF AlphaOf, MostWeight
<1>13. AlphaOf(TotalWeight) % 256 = AlphaOf(TotalWeight)
  BY <1>12
<1> QED
  BY <1>5, <1>10, <1>11, <1>13

\* The colour that shows lies between the foreground's and the background's.
THEOREM ColourAlwaysBetween == MixSpec => []ColourBetween
<1>1. MixIInv => ColourBetween
  <2> SUFFICES ASSUME MixIInv, written, pixel.alpha # 0
               PROVE  /\ fg <= bg => pixel.channel \in fg..bg
                      /\ bg <= fg => pixel.channel \in bg..fg
                      /\ bg_alpha = 0 => pixel.channel = fg
                      /\ n_fg = 0 => pixel.channel = bg
    BY DEF ColourBetween
  <2>1. fg \in 0..255 /\ bg \in 0..255 /\ n_fg \in Nat /\ n_bg \in Nat
        /\ fg_alpha \in 0..255 /\ bg_alpha \in 0..255
    BY DEF MixIInv, Counted
  <2>2. ASSUME fg <= bg PROVE pixel.channel \in fg..bg
    <3>1. Enclose(fg, bg)
      BY <2>1, <2>2 DEF Enclose
    <3> QED
      BY <3>1, PixelIsMean
  <2>3. ASSUME bg <= fg PROVE pixel.channel \in bg..fg
    <3>1. Enclose(bg, fg)
      BY <2>1, <2>3 DEF Enclose
    <3> QED
      BY <3>1, PixelIsMean
  <2>4. ASSUME bg_alpha = 0 PROVE pixel.channel = fg
    <3>1. Back(fg_alpha, n_fg, bg_alpha, n_bg) = 0
      BY <2>1, <2>4 DEF Back
    <3>2. Enclose(fg, fg)
      BY <2>1, <3>1 DEF Enclose
    <3>3. pixel.channel \in fg..fg
      BY <3>2, PixelIsMean
    <3> QED
      BY <2>1, <3>3
  <2>5. ASSUME n_fg = 0 PROVE pixel.channel = bg
    <3>1. Front(fg_alpha, n_fg) = 0
      BY <2>1, <2>5 DEF Front
    <3>2. Enclose(bg, bg)
      BY <2>1, <3>1 DEF Enclose
    <3>3. pixel.channel \in bg..bg
      BY <3>2, PixelIsMean
    <3> QED
      BY <2>1, <3>3
  <2> QED
    BY <2>2, <2>3, <2>4, <2>5
<1> QED
  BY <1>1, InitMixIInv, StepMixIInv, PTL DEF MixSpec

\* The short formulas of SPEC.md:316-317 are what mix computes.
THEOREM ReducesAlways == MixSpec => []ReducesAsSpecified
<1>1. MixIInv => ReducesAsSpecified
  <2> SUFFICES ASSUME MixIInv, written, n_fg + n_bg = 16
      PROVE  /\ fg_alpha = 255 /\ bg_alpha = 255 =>
                  pixel = [channel |-> (n_fg * fg + n_bg * bg + 8) \div 16,
                           alpha |-> 255]
             /\ fg_alpha = 255 /\ bg_alpha = 0 /\ n_fg > 0 =>
                  pixel = [channel |-> fg, alpha |-> (n_fg * 255 + 8) \div 16]
    BY DEF ReducesAsSpecified
  <2>1. fg \in 0..255 /\ bg \in 0..255 /\ n_fg \in Nat /\ n_bg \in Nat
        /\ fg_alpha \in 0..255 /\ bg_alpha \in 0..255
    BY DEF MixIInv, Counted
  <2>2. pixel = IF AlphaOf(TotalWeight) = 0 THEN [channel |-> 0, alpha |-> 0]
                ELSE [channel |-> Mixed(TotalSum, TotalWeight) % 256,
                      alpha |-> AlphaOf(TotalWeight) % 256]
    BY DEF MixIInv, IsMixed, MixOf, TotalWeight, TotalSum
  <2>3. ASSUME fg_alpha = 255, bg_alpha = 255
        PROVE  pixel = [channel |-> (n_fg * fg + n_bg * bg + 8) \div 16,
                        alpha |-> 255]
    <3> DEFINE total == n_fg * fg + n_bg * bg
    <3>1. total \in Nat /\ total <= 4080
      <4>1. n_fg * fg <= n_fg * 255 /\ n_bg * bg <= n_bg * 255
            /\ n_fg * fg \in Nat /\ n_bg * bg \in Nat
        BY <2>1, Products
      <4> QED
        BY <2>1, <4>1, SMTT(60)
    <3>2. TotalWeight = 1040400
      BY <2>1, <2>3 DEF TotalWeight, WeightOf
    <3>3. TotalSum = 65025 * total
      <4>1. TotalSum = n_fg * (65025 * fg) + n_bg * 65025 * bg
        BY <2>1, <2>3 DEF TotalSum, ChannelSum
      <4> QED
        BY <2>1, <4>1
    <3> HIDE DEF total
    <3>4. Mixed(TotalSum, TotalWeight) = (total + 8) \div 16
      BY <3>1, <3>2, <3>3 DEF Mixed
    <3>5. (total + 8) \div 16 \in 0..255
      BY <3>1
    <3>6. AlphaOf(TotalWeight) = 255
      BY <3>2 DEF AlphaOf
    <3>7. ((total + 8) \div 16) % 256 = (total + 8) \div 16
      BY <3>5
    <3> QED
      BY <2>2, <3>4, <3>6, <3>7 DEF total
  <2>4. ASSUME fg_alpha = 255, bg_alpha = 0, n_fg > 0
        PROVE  pixel = [channel |-> fg, alpha |-> (n_fg * 255 + 8) \div 16]
    <3>1. TotalWeight = 65025 * n_fg
      BY <2>1, <2>4 DEF TotalWeight, WeightOf
    <3>2. AlphaOf(TotalWeight) = (n_fg * 255 + 8) \div 16
      BY <2>1, <3>1 DEF AlphaOf
    <3>3. (n_fg * 255 + 8) \div 16 \in 1..255
      BY <2>1, <2>4
    <3>4. pixel = [channel |-> Mixed(TotalSum, TotalWeight) % 256,
                   alpha |-> AlphaOf(TotalWeight) % 256]
      BY <2>2, <3>2, <3>3
    <3>5. pixel.alpha = (n_fg * 255 + 8) \div 16 /\ pixel.alpha # 0
      BY <3>2, <3>3, <3>4
    <3>6. Back(fg_alpha, n_fg, bg_alpha, n_bg) = 0
      BY <2>1, <2>4 DEF Back
    <3>7. pixel.channel \in fg..fg
      <4>1. Enclose(fg, fg)
        BY <2>1, <3>6 DEF Enclose
      <4> QED
        BY <3>5, <4>1, PixelIsMean
    <3>8. pixel.channel = fg
      BY <2>1, <3>7
    <3> QED
      BY <3>4, <3>5, <3>8
  <2> QED
    BY <2>3, <2>4
<1> QED
  BY <1>1, InitMixIInv, StepMixIInv, PTL DEF MixSpec

-----------------------------------------------------------------------------
(* contrast: numbers of 64 bits, as pairs *)

\* A pair and the number it is.
Pair(x) == x[1] \in Nat /\ x[2] \in Nat /\ x[2] < 100000
Value(x) == 100000 * x[1] + x[2]

\* The value of a pair is a natural number.
LEMMA ValueType ==
  ASSUME NEW x, Pair(x)
  PROVE  Value(x) \in Nat
BY SMT DEF Pair, Value

\* Number makes the pair of a number given in thousands and a rest.
LEMMA NumberIs ==
  ASSUME NEW thousands \in Nat, NEW rest \in Nat
  PROVE  /\ Pair(Number(thousands, rest))
         /\ Value(Number(thousands, rest)) = 1000 * thousands + rest
<1> DEFINE t == thousands + rest \div 1000
<1>1. t \in Nat /\ rest \div 1000 \in Nat /\ rest % 1000 \in 0..999
      /\ rest = 1000 * (rest \div 1000) + (rest % 1000)
  BY SMT
<1>2. t \div 100 \in Nat /\ t % 100 \in 0..99 /\ t = 100 * (t \div 100) + (t % 100)
  BY SMT, <1>1
<1>3. Number(thousands, rest)[1] = t \div 100
      /\ Number(thousands, rest)[2] = 1000 * (t % 100) + (rest % 1000)
  BY SMT DEF Number
<1>4. t = thousands + rest \div 1000
  OBVIOUS
<1> HIDE DEF t
<1> QED
  BY SMT, <1>1, <1>2, <1>3, <1>4 DEF Pair, Value

\* Times multiplies, carrying from the lower part to the higher.
LEMMA TimesIs ==
  ASSUME NEW n \in Nat, NEW x, Pair(x)
  PROVE  Pair(Times(n, x)) /\ Value(Times(n, x)) = n * Value(x)
<1>1. PICK h \in Nat, l \in Nat : h = x[1] /\ l = x[2] /\ l < 100000
  BY SMT DEF Pair
<1>2. PICK p \in Nat, r \in Nat : p = n * l /\ r = n * h
  BY SMT
<1>3. p \div 100000 \in Nat /\ p % 100000 \in Nat /\ p % 100000 < 100000
      /\ p = 100000 * (p \div 100000) + (p % 100000)
  BY SMT
<1>4. Times(n, x)[1] = r + p \div 100000 /\ Times(n, x)[2] = p % 100000
  BY SMT, <1>1, <1>2 DEF Times
<1>5. Pair(Times(n, x)) /\ Value(Times(n, x)) = 100000 * r + p
  BY SMT, <1>3, <1>4 DEF Pair, Value
<1>6. n * (100000 * h + l) = 100000 * r + p
  BY SMT, <1>2
<1> QED
  BY SMT, <1>1, <1>5, <1>6 DEF Value

\* AtMost compares the numbers.
LEMMA AtMostIs ==
  ASSUME NEW x, NEW y, Pair(x), Pair(y)
  PROVE  AtMost(x, y) <=> Value(x) <= Value(y)
BY SMT DEF AtMost, Pair, Value

\* Division with a remainder.
LEMMA Divided ==
  ASSUME NEW a \in Nat, NEW b \in Nat \ {0}
  PROVE  \E q \in Nat : q * b <= a /\ a < (q + 1) * b
<1>1. a \div b \in Nat /\ (a \div b) * b <= a /\ a < (a \div b + 1) * b
  BY SMT
<1> QED
  BY <1>1

\* There is only one quotient.
LEMMA OneQuotient ==
  ASSUME NEW a \in Nat, NEW b \in Nat \ {0}, NEW q \in Nat, NEW r \in Nat,
         q * b <= a, a < (q + 1) * b, r * b <= a, a < (r + 1) * b
  PROVE  q = r
<1>1. CASE q < r
  <2>1. (q + 1) * b <= r * b
    BY SMT, <1>1
  <2> QED
    BY SMT, <2>1
<1>2. CASE r < q
  <2>1. (r + 1) * b <= q * b
    BY SMT, <1>2
  <2> QED
    BY SMT, <2>1
<1> QED
  BY SMT, <1>1, <1>2

\* The range the quotient is looked for in has it.
LEMMA QuotientIs ==
  ASSUME NEW x, NEW y, Pair(x), Pair(y), y[1] > 0
  PROVE  /\ Quotient(x, y) \in Nat
         /\ Quotient(x, y) * Value(y) <= Value(x)
         /\ Value(x) < (Quotient(x, y) + 1) * Value(y)
<1>1. PICK h \in Nat, l \in Nat : h = x[1] /\ l = x[2] /\ l < 100000 /\ Value(x) = 100000 * h + l
  BY SMT DEF Pair, Value
<1>2. PICK k \in Nat \ {0}, m \in Nat :
        k = y[1] /\ m = y[2] /\ m < 100000 /\ Value(y) = 100000 * k + m
  BY SMT DEF Pair, Value
<1>3. PICK a \in Nat, b \in Nat \ {0} : a = Value(x) /\ b = Value(y)
  BY SMT, <1>1, <1>2
<1>4. PICK q \in Nat : q * b <= a /\ a < (q + 1) * b
  BY Divided
<1>5. q \in (h \div (k + 1))..((h + 1) \div k)
  <2>1. PICK e \in Nat : e = h \div (k + 1) /\ e * (k + 1) <= h
    <3>1. h \div (k + 1) \in Nat /\ (h \div (k + 1)) * (k + 1) <= h
      BY SMT
    <3> QED
      BY <3>1
  <2>2. e <= q
    <3>1. e * b <= e * (100000 * (k + 1))
      BY SMT, <1>2, <1>3
    <3>2. e * (100000 * (k + 1)) = 100000 * (e * (k + 1))
      BY SMT
    <3>3. e * b <= a
      BY SMT, <1>1, <1>3, <2>1, <3>1, <3>2
    <3>4. CASE q < e
      <4>1. (q + 1) * b <= e * b
        BY SMT, <3>4
      <4> QED
        BY SMT, <1>4, <3>3, <4>1
    <3> QED
      BY SMT, <3>4
  <2>3. PICK f \in Nat : f = (h + 1) \div k /\ h + 1 < (f + 1) * k
    <3>1. (h + 1) \div k \in Nat /\ h + 1 < ((h + 1) \div k + 1) * k
      BY SMT
    <3> QED
      BY <3>1
  <2>4. q <= f
    <3>1. q * b = 100000 * (q * k) + q * m
      BY SMT, <1>2, <1>3
    <3>2. q * m >= 0 /\ q * k \in Nat
      BY SMT
    <3>3. q * k <= h
      BY SMT, <1>1, <1>3, <1>4, <3>1, <3>2
    <3>4. CASE f < q
      <4>1. (f + 1) * k <= q * k
        BY SMT, <3>4
      <4> QED
        BY SMT, <2>3, <3>2, <3>3, <4>1
    <3> QED
      BY SMT, <3>4
  <2> QED
    BY SMT, <2>1, <2>2, <2>3, <2>4
<1>6. ASSUME NEW r \in Nat
      PROVE  AtMost(Times(r, y), x) /\ ~AtMost(Times(r + 1, y), x)
               <=> r * b <= a /\ a < (r + 1) * b
  <2>1. Pair(Times(r, y)) /\ Value(Times(r, y)) = r * b
    BY SMT, <1>3, TimesIs
  <2>2. Pair(Times(r + 1, y)) /\ Value(Times(r + 1, y)) = (r + 1) * b
    BY SMT, <1>3, TimesIs
  <2>3. r * b \in Int /\ (r + 1) * b \in Int
    BY SMT
  <2> QED
    BY SMT, <1>3, <2>1, <2>2, <2>3, AtMostIs
<1>7. Quotient(x, y) = CHOOSE r \in (h \div (k + 1))..((h + 1) \div k) :
                         AtMost(Times(r, y), x) /\ ~AtMost(Times(r + 1, y), x)
  BY <1>1, <1>2 DEF Quotient
<1>8. AtMost(Times(q, y), x) /\ ~AtMost(Times(q + 1, y), x)
  BY <1>4, <1>6
<1>9. h \div (k + 1) \in Nat
  BY SMT
<1>10. PICK r \in (h \div (k + 1))..((h + 1) \div k) :
         /\ r = Quotient(x, y)
         /\ AtMost(Times(r, y), x) /\ ~AtMost(Times(r + 1, y), x)
  BY <1>5, <1>7, <1>8
<1>11. r \in Nat
  BY SMT, <1>9
<1> QED
  BY SMT, <1>3, <1>6, <1>10, <1>11

-----------------------------------------------------------------------------
(* contrast: luminances and contrasts *)

\* Three channels of eight bits.
IsColour(c) == \A i \in 1..3 : c[i] \in 0..255

\* The table of linear values has none above a million.
Linear(v) == v \in Nat /\ v <= 1000000

LEMMA LinIs == \A i \in 1..256 : Linear(lin[i])
BY SMTT(120) DEF lin, Linear

\* A channel as a linear value.
Lin(c, i) == lin[c[i] + 1]

\* Nor has a channel of a colour.
LEMMA LinOf ==
  ASSUME NEW c, IsColour(c), NEW i \in 1..3
  PROVE  Lin(c, i) \in Nat /\ Lin(c, i) <= 1000000
<1>1. PICK k \in 1..256 : k = c[i] + 1
  BY SMT DEF IsColour
<1>2. Linear(Lin(c, i))
  BY <1>1, LinIs, Zenon DEF Lin
<1> QED
  BY SMT, <1>2 DEF Linear

\* The luminance of a colour as a number.
Lum(c) == 2126 * Lin(c, 1) + 7152 * Lin(c, 2) + 722 * Lin(c, 3) + 500000000

\* Luminance is the pair of that number, which has 34 bits.
LEMMA LuminanceIs ==
  ASSUME NEW c, IsColour(c)
  PROVE  /\ Pair(Luminance(c)) /\ Value(Luminance(c)) = Lum(c)
         /\ Lum(c) \in Nat /\ Lum(c) >= 500000000 /\ Lum(c) <= 10500000000
<1>1. PICK r \in Nat, v \in Nat, b \in Nat :
        /\ r = Lin(c, 1) /\ v = Lin(c, 2) /\ b = Lin(c, 3)
        /\ r <= 1000000 /\ v <= 1000000 /\ b <= 1000000
  BY SMT, LinOf
<1> DEFINE th == 2126 * (r \div 1000) + 7152 * (v \div 1000) + 722 * (b \div 1000) + 500000
           rest == 2126 * (r % 1000) + 7152 * (v % 1000) + 722 * (b % 1000)
<1>2. Luminance(c) = Number(th, rest)
  BY SMT, <1>1 DEF Luminance, Lin
<1>3. /\ r = 1000 * (r \div 1000) + (r % 1000) /\ r \div 1000 \in Nat /\ r % 1000 \in Nat
      /\ v = 1000 * (v \div 1000) + (v % 1000) /\ v \div 1000 \in Nat /\ v % 1000 \in Nat
      /\ b = 1000 * (b \div 1000) + (b % 1000) /\ b \div 1000 \in Nat /\ b % 1000 \in Nat
  BY SMT
<1>4. th \in Nat /\ rest \in Nat
  BY SMT, <1>3
<1>5. 1000 * th + rest = 2126 * r + 7152 * v + 722 * b + 500000000
  BY SMT, <1>3
<1> HIDE DEF th, rest
<1>6. Pair(Luminance(c)) /\ Value(Luminance(c)) = 1000 * th + rest
  BY SMT, <1>2, <1>4, NumberIs
<1>7. Lum(c) = 2126 * r + 7152 * v + 722 * b + 500000000
  BY SMT, <1>1 DEF Lum
<1>8. Lum(c) \in Nat /\ Lum(c) >= 500000000 /\ Lum(c) <= 10500000000
  BY SMT, <1>1, <1>7
<1> QED
  BY SMT, <1>5, <1>6, <1>7, <1>8

\* The greater and the lesser of two luminances.
LEMMA LighterIs ==
  ASSUME NEW a, NEW b, IsColour(a), IsColour(b)
  PROVE  /\ Lum(Lighter(a, b)) = IF Lum(a) <= Lum(b) THEN Lum(b) ELSE Lum(a)
         /\ Lum(Darker(a, b)) = IF Lum(a) <= Lum(b) THEN Lum(a) ELSE Lum(b)
         /\ IsColour(Lighter(a, b)) /\ IsColour(Darker(a, b))
         /\ Lum(Lighter(a, b)) >= Lum(Darker(a, b))
<1>1. AtMost(Luminance(a), Luminance(b)) <=> Lum(a) <= Lum(b)
  BY SMT, LuminanceIs, AtMostIs
<1>2. Lum(a) \in Nat /\ Lum(b) \in Nat
  BY SMT, LuminanceIs
<1>3. CASE Lum(a) <= Lum(b)
  BY SMT, <1>1, <1>2, <1>3 DEF Lighter, Darker
<1>4. CASE ~(Lum(a) <= Lum(b))
  BY SMT, <1>1, <1>2, <1>4 DEF Lighter, Darker
<1> QED
  BY SMT, <1>3, <1>4

\* The contrast is the quotient, rounded down.
LEMMA ContrastIs ==
  ASSUME NEW a, NEW b, IsColour(a), IsColour(b)
  PROVE  \E q \in Nat, l \in Nat, d \in Nat :
           /\ q = contrast_x100(a, b)
           /\ l = Lum(Lighter(a, b)) /\ d = Lum(Darker(a, b))
           /\ d >= 500000000 /\ l >= d /\ l <= 10500000000
           /\ q * d <= 100 * l /\ 100 * l < (q + 1) * d
<1> DEFINE l == Lum(Lighter(a, b))
           d == Lum(Darker(a, b))
           x == Times(100, Luminance(Lighter(a, b)))
           y == Luminance(Darker(a, b))
<1>1. IsColour(Lighter(a, b)) /\ IsColour(Darker(a, b)) /\ l >= d
  BY SMT, LighterIs
<1>2. /\ Pair(Luminance(Lighter(a, b))) /\ Value(Luminance(Lighter(a, b))) = l
      /\ l \in Nat /\ l <= 10500000000
      /\ Pair(y) /\ Value(y) = d /\ d \in Nat /\ d >= 500000000
  BY <1>1, LuminanceIs, SMT
<1>3. Pair(x) /\ Value(x) = 100 * l
  BY <1>2, TimesIs, SMT
<1>4. contrast_x100(a, b) = Quotient(x, y)
  BY SMT DEF contrast_x100
<1> HIDE DEF l, d, x, y
<1>5. y[1] > 0
  BY SMT, <1>2 DEF Pair, Value
<1>6. /\ Quotient(x, y) \in Nat /\ Quotient(x, y) * d <= 100 * l
      /\ 100 * l < (Quotient(x, y) + 1) * d
  BY SMT, <1>2, <1>3, <1>5, QuotientIs
<1> QED
  BY SMT, <1>1, <1>2, <1>4, <1>6 DEF l, d

\* A contrast is below 2 exactly if twice the darker is lighter than the other.
LEMMA BelowTwo ==
  ASSUME NEW a, NEW b, IsColour(a), IsColour(b)
  PROVE  /\ contrast_x100(a, b) \in Nat
         /\ contrast_x100(a, b) < 200 <=> Close(a, b)
<1>1. PICK q \in Nat, l \in Nat, d \in Nat :
        /\ q = contrast_x100(a, b)
        /\ l = Lum(Lighter(a, b)) /\ d = Lum(Darker(a, b))
        /\ d >= 500000000 /\ l >= d /\ l <= 10500000000
        /\ q * d <= 100 * l /\ 100 * l < (q + 1) * d
  BY SMT, ContrastIs
<1>2. Close(a, b) <=> l < 2 * d
  <2>1. IsColour(Lighter(a, b)) /\ IsColour(Darker(a, b))
    BY SMT, LighterIs
  <2>2. /\ Pair(Luminance(Lighter(a, b))) /\ Value(Luminance(Lighter(a, b))) = l
        /\ Pair(Luminance(Darker(a, b))) /\ Value(Luminance(Darker(a, b))) = d
    BY SMT, <1>1, <2>1, LuminanceIs
  <2>3. /\ Pair(Times(2, Luminance(Darker(a, b))))
        /\ Value(Times(2, Luminance(Darker(a, b)))) = 2 * d
    BY SMT, <2>2, TimesIs
  <2>4. AtMost(Times(2, Luminance(Darker(a, b))), Luminance(Lighter(a, b))) <=> 2 * d <= l
    BY SMT, <2>2, <2>3, AtMostIs
  <2>5. 2 * d <= l <=> ~(l < 2 * d)
    BY SMT
  <2> QED
    BY SMT, <2>4, <2>5 DEF Close
<1>3. q < 200 <=> l < 2 * d
  <2>1. CASE q < 200
    <3>1. (q + 1) * d <= 200 * d
      BY SMT, <2>1
    <3>2. l < 2 * d
      BY SMT, <1>1, <3>1
    <3> QED
      BY SMT, <2>1, <3>2
  <2>2. CASE ~(q < 200)
    <3>1. 200 * d <= q * d
      BY SMT, <2>2
    <3>2. ~(l < 2 * d)
      BY SMT, <1>1, <3>1
    <3> QED
      BY SMT, <2>2, <3>2
  <2> QED
    BY <2>1, <2>2
<1> QED
  BY SMT, <1>1, <1>2, <1>3

\* A colour against itself.
LEMMA NoContrast ==
  ASSUME NEW a, IsColour(a)
  PROVE  contrast_x100(a, a) = 100
<1>1. PICK q \in Nat, l \in Nat, d \in Nat :
        /\ q = contrast_x100(a, a)
        /\ l = Lum(Lighter(a, a)) /\ d = Lum(Darker(a, a))
        /\ d >= 500000000 /\ l >= d /\ l <= 10500000000
        /\ q * d <= 100 * l /\ 100 * l < (q + 1) * d
  BY SMT, ContrastIs
<1>2. l = d
  BY SMT, <1>1, LighterIs
<1>3. CASE q < 100
  <2>1. (q + 1) * d <= 100 * d
    BY SMT, <1>3
  <2> QED
    BY SMT, <1>1, <1>2, <2>1
<1>4. CASE q > 100
  <2>1. 101 * d <= q * d
    BY SMT, <1>4
  <2> QED
    BY SMT, <1>1, <1>2, <2>1
<1> QED
  BY SMT, <1>1, <1>3, <1>4

-----------------------------------------------------------------------------
(* contrast: what a page makes of a colour *)

\* Rounded to the nearest 255th, and at most half from it.
Rounded(n) == (n + 127) \div 255
Near(v, n) == 2 * (255 * v - n) \in -255..255

\* Of 0..255 only one number is nearest to a quotient by 255.
LEMMA OneNearest ==
  ASSUME NEW n \in Nat, n <= 65025, NEW v \in 0..255
  PROVE  Near(v, n) <=> v = Rounded(n)
<1>1. PICK q \in Nat, r \in Nat : n + 127 = 255 * q + r /\ r < 255 /\ q = (n + 127) \div 255
  BY SMT
<1>2. 2 * (255 * v - n) = 510 * (v - q) + 254 - 2 * r
  BY SMT, <1>1
<1>3. v = q => 2 * (255 * v - n) \in -255..255
  BY SMT, <1>1, <1>2
<1>4. v < q => ~(2 * (255 * v - n) \in -255..255)
  BY SMT, <1>1, <1>2
<1>5. v > q => ~(2 * (255 * v - n) \in -255..255)
  BY SMT, <1>1, <1>2
<1>6. v = q \/ v < q \/ v > q
  BY SMT
<1>7. 2 * (255 * v - n) \in -255..255 <=> v = q
  BY <1>3, <1>4, <1>5, <1>6, SMT
<1> QED
  BY SMT, <1>1, <1>7 DEF Near, Rounded

\* A channel that is nearest to what is seen.
NearSeen(v, c, a, u, ch) == 2 * (255 * v - a * c[ch] - (255 - a) * u[ch]) \in -255..255

\* over rounds every channel to the nearest, and takes the colour below at alpha 0.
LEMMA OverIs ==
  ASSUME NEW c, NEW a \in 0..255, NEW u, IsColour(c), IsColour(u)
  PROVE  /\ IsColour(over(c, a, u))
         /\ over(c, a, u) = Shown(c, a, u)
         /\ a = 0 => \A ch \in 1..3 : over(c, a, u)[ch] = u[ch]
<1>1. ASSUME NEW ch \in 1..3
      PROVE  /\ over(c, a, u)[ch] \in 0..255
             /\ over(c, a, u)[ch] = CHOOSE v \in 0..255 : NearSeen(v, c, a, u, ch)
             /\ a = 0 => over(c, a, u)[ch] = u[ch]
  <2>1. PICK x \in 0..255, y \in 0..255 : x = c[ch] /\ y = u[ch]
    <3>1. c[ch] \in 0..255 /\ u[ch] \in 0..255
      BY SMT DEF IsColour
    <3> QED
      BY <3>1
  <2>2. PICK n \in Nat : n <= 65025 /\ n = a * x + (255 - a) * y
    <3>1. a * x <= a * 255 /\ a * x \in Nat
      BY SMT
    <3>2. (255 - a) * y <= (255 - a) * 255 /\ (255 - a) * y \in Nat
      BY SMT
    <3>3. a * 255 + (255 - a) * 255 = 65025
      BY SMT
    <3>4. /\ a * x + (255 - a) * y \in Nat
          /\ a * x + (255 - a) * y <= 65025
      BY SMT, <3>1, <3>2, <3>3
    <3> QED
      BY <3>4
  <2>3. over(c, a, u)[ch] = (n + 127) \div 255
    BY SMT, <2>1, <2>2 DEF over
  <2>4. PICK w \in 0..255 : w = (n + 127) \div 255
    <3>1. (n + 127) \div 255 \in Nat /\ (n + 127) \div 255 <= 255
      BY SMT, <2>2
    <3>2. (n + 127) \div 255 \in 0..255
      BY SMT, <3>1
    <3> QED
      BY <3>2
  <2>5. ASSUME NEW v \in 0..255
        PROVE  NearSeen(v, c, a, u, ch) <=> v = w
    <3>1. 2 * (255 * v - a * x - (255 - a) * y) = 2 * (255 * v - n)
      BY SMT, <2>2
    <3>2. 2 * (255 * v - n) \in -255..255 <=> v = w
      <4>1. n <= 65025
        BY SMT, <2>2
      <4>2. Near(v, n) <=> v = Rounded(n)
        BY SMT, <4>1, OneNearest
      <4> QED
        BY SMT, <2>4, <4>2 DEF Near, Rounded
    <3>3. NearSeen(v, c, a, u, ch)
            <=> 2 * (255 * v - a * x - (255 - a) * y) \in -255..255
      BY <2>1, SMT DEF NearSeen
    <3> QED
      BY <3>1, <3>2, <3>3, SMT
  <2>6. w = CHOOSE v \in 0..255 : NearSeen(v, c, a, u, ch)
    BY <2>5, Zenon
  <2>7. a = 0 => w = y
    BY SMT, <2>2, <2>4
  <2> QED
    BY <2>1, <2>3, <2>4, <2>6, <2>7, ZenonT(40)
<1>2. over(c, a, u) = <<over(c, a, u)[1], over(c, a, u)[2], over(c, a, u)[3]>>
  BY SMT DEF over
<1>3. IsColour(over(c, a, u))
  BY <1>1 DEF IsColour
<1> DEFINE Nearest(ch) == CHOOSE v \in 0..255 : NearSeen(v, c, a, u, ch)
<1>4. /\ over(c, a, u)[1] = Nearest(1) /\ over(c, a, u)[2] = Nearest(2)
      /\ over(c, a, u)[3] = Nearest(3)
  <2>1. 1 \in 1..3 /\ 2 \in 1..3 /\ 3 \in 1..3
    BY SMT
  <2> QED
    BY <1>1, <2>1
<1>5. Shown(c, a, u) = <<Nearest(1), Nearest(2), Nearest(3)>>
  BY DEF Shown, NearSeen
<1> HIDE DEF Nearest
<1> QED
  BY <1>1, <1>2, <1>3, <1>4, <1>5
-----------------------------------------------------------------------------
(* contrast: the palette over a page *)

\* The palette has four colours.
LEMMA PaletteIs ==
  /\ Len(palette) = 4 /\ DOMAIN palette = 1..4
  /\ \A i \in 1..4 : IsColour(palette[i])
  /\ IsColour(frame_colour)
<1>1. Len(palette) = 4 /\ DOMAIN palette = 1..4
  BY DEF palette
<1>2. /\ IsColour(palette[1]) /\ IsColour(palette[2])
      /\ IsColour(palette[3]) /\ IsColour(palette[4])
  BY SMT DEF palette, IsColour
<1>3. ASSUME NEW i \in 1..4 PROVE IsColour(palette[i])
  <2>1. i = 1 \/ i = 2 \/ i = 3 \/ i = 4
    BY SMT
  <2> QED
    BY <1>2, <2>1, Zenon
<1>4. IsColour(frame_colour)
  BY SMT DEF frame_colour, IsColour
<1> QED
  BY <1>1, <1>3, <1>4, Zenon

\* A luminance three times the other makes a contrast of 3 and more.
LEMMA AtLeastThree ==
  ASSUME NEW a, NEW b, IsColour(a), IsColour(b),
         3 * Lum(a) <= Lum(b) \/ 3 * Lum(b) <= Lum(a)
  PROVE  contrast_x100(a, b) >= 300
<1>1. PICK q \in Nat, l \in Nat, d \in Nat :
        /\ q = contrast_x100(a, b)
        /\ l = Lum(Lighter(a, b)) /\ d = Lum(Darker(a, b))
        /\ d >= 500000000 /\ l >= d /\ l <= 10500000000
        /\ q * d <= 100 * l /\ 100 * l < (q + 1) * d
  BY SMT, ContrastIs
<1>2. PICK m \in Nat, n \in Nat :
        m = Lum(a) /\ n = Lum(b) /\ m >= 500000000 /\ n >= 500000000
  BY SMT, LuminanceIs
<1>3. 3 * d <= l
  BY SMT, <1>1, <1>2, LighterIs
<1>4. CASE q < 300
  <2>1. (q + 1) * d <= 300 * d
    BY SMT, <1>4
  <2> QED
    BY SMT, <1>1, <1>3, <2>1
<1> QED
  BY SMT, <1>1, <1>4

\* The linear values of the palette, of white and of 121212.
LEMMA SomeLights ==
  /\ lin[1] = 0
  /\ lin[5] = 1214
  /\ lin[11] = 3035
  /\ lin[19] = 6049
  /\ lin[70] = 59511
  /\ lin[123] = 194618
  /\ lin[131] = 223228
  /\ lin[138] = 250158
  /\ lin[151] = 304987
  /\ lin[194] = 533276
  /\ lin[198] = 558340
  /\ lin[213] = 658375
  /\ lin[241] = 871367
  /\ lin[256] = 1000000
BY SMTT(120) DEF lin

\* The luminances of the palette.
LEMMA PaletteLights ==
  /\ Lum(palette[1]) = 3498146372
  /\ Lum(palette[2]) = 1682669202
  /\ Lum(palette[3]) = 1685394246
  /\ Lum(palette[4]) = 3496231906
<1>1. Lum(palette[1]) = 3498146372
  <2>1. palette[1][1] = 122 /\ palette[1][2] = 150 /\ palette[1][3] = 197
    BY SMT DEF palette
  <2>2. /\ Lin(palette[1], 1) = 194618 /\ Lin(palette[1], 2) = 304987
        /\ Lin(palette[1], 3) = 558340
    BY SMT, <2>1, SomeLights DEF Lin
  <2> QED
    BY SMT, <2>2 DEF Lum
<1>2. Lum(palette[2]) = 1682669202
  <2>1. palette[2][1] = 137 /\ palette[2][2] = 10 /\ palette[2][3] = 240
    BY SMT DEF palette
  <2>2. /\ Lin(palette[2], 1) = 250158 /\ Lin(palette[2], 2) = 3035
        /\ Lin(palette[2], 3) = 871367
    BY SMT, <2>1, SomeLights DEF Lin
  <2> QED
    BY SMT, <2>2 DEF Lum
<1>3. Lum(palette[3]) = 1685394246
  <2>1. palette[3][1] = 193 /\ palette[3][2] = 4 /\ palette[3][3] = 69
    BY SMT DEF palette
  <2>2. /\ Lin(palette[3], 1) = 533276 /\ Lin(palette[3], 2) = 1214
        /\ Lin(palette[3], 3) = 59511
    BY SMT, <2>1, SomeLights DEF Lin
  <2> QED
    BY SMT, <2>2 DEF Lum
<1>4. Lum(palette[4]) = 3496231906
  <2>1. palette[4][1] = 212 /\ palette[4][2] = 130 /\ palette[4][3] = 0
    BY SMT DEF palette
  <2>2. /\ Lin(palette[4], 1) = 658375 /\ Lin(palette[4], 2) = 223228
        /\ Lin(palette[4], 3) = 0
    BY SMT, <2>1, SomeLights DEF Lin
  <2> QED
    BY SMT, <2>2 DEF Lum
<1> QED
  BY SMT, <1>1, <1>2, <1>3, <1>4

\* On white and on 121212 every figure is three times as light or as dark.
LEMMA PageShows ==
  ASSUME NEW u, IsColour(u), NEW i \in 1..4,
         (\A ch \in 1..3 : u[ch] = 255) \/ (\A ch \in 1..3 : u[ch] = 18)
  PROVE  contrast_x100(palette[i], u) >= 300
<1>1. i = 1 \/ i = 2 \/ i = 3 \/ i = 4
  BY SMT
<1>2. Lum(palette[i]) >= 1682669202 /\ Lum(palette[i]) <= 3498146372
  BY SMT, <1>1, PaletteLights
<1>3. PICK m \in Nat : m = Lum(palette[i])
  BY SMT, PaletteIs, LuminanceIs
<1>4. CASE \A ch \in 1..3 : u[ch] = 255
  <2>1. u[1] = 255 /\ u[2] = 255 /\ u[3] = 255
    BY SMT, <1>4
  <2>2. Lum(u) = 10500000000
    BY SMT, <2>1, SomeLights DEF Lum, Lin
  <2>3. 3 * Lum(palette[i]) <= Lum(u)
    BY SMT, <1>2, <1>3, <2>2
  <2> QED
    BY <2>3, PaletteIs, AtLeastThree, Zenon
<1>5. CASE \A ch \in 1..3 : u[ch] = 18
  <2>1. u[1] = 18 /\ u[2] = 18 /\ u[3] = 18
    BY SMT, <1>5
  <2>2. Lum(u) = 560490000
    BY SMT, <2>1, SomeLights DEF Lum, Lin
  <2>3. 3 * Lum(u) <= Lum(palette[i])
    BY SMT, <1>2, <1>3, <2>2
  <2> QED
    BY <2>3, PaletteIs, AtLeastThree, Zenon
<1> QED
  BY <1>4, <1>5
-----------------------------------------------------------------------------
(* contrast: refusals and reports *)

\* The contrast of a figure's colour to what is behind it.
Against(i) == contrast_x100(palette[i], Behind)

\* The arguments are a use, two colours and two alphas.
OptionsIInv ==
  /\ use \in {"measure", "render"}
  /\ IsColour(options.background) /\ IsColour(page)
  /\ options.background_alpha \in 0..255 /\ options.frame_alpha \in 0..255

\* The contrast kept is the least of those that were taken.
LeastSoFar ==
  /\ colour \in 1..5
  /\ colour > 1 =>
       /\ use = "render" => options.background_alpha = 255
       /\ \A i \in 1..(colour - 1) : worst <= Against(i)
       /\ \E i \in 1..(colour - 1) : worst = Against(i)

ContrastIInv == OptionsIInv /\ LeastSoFar /\ RefusalIsExact

\* The invariant holds at first.
LEMMA InitContrastIInv == ContrastInit => ContrastIInv
<1> SUFFICES ASSUME ContrastInit PROVE ContrastIInv
  OBVIOUS
<1>1. ASSUME NEW c \in Backgrounds \cup Pages PROVE IsColour(c)
  <2>1. c \in Seq(0..255) /\ Len(c) = 3
    BY <1>1, ColoursAssumption
  <2>2. \A i \in 1..3 : c[i] \in 0..255
    BY <2>1, ElementOfSeq, Zenon
  <2> QED
    BY <2>2 DEF IsColour
<1>2. OptionsIInv
  BY <1>1, ColoursAssumption DEF ContrastInit, OptionsIInv
<1>3. LeastSoFar
  <2>1. 1 \in 1..5 /\ ~(1 > 1)
    BY SMT
  <2> QED
    BY <2>1, Zenon DEF ContrastInit, LeastSoFar
<1>4. RefusalIsExact
  BY Zenon DEF ContrastInit, RefusalIsExact
<1> QED
  BY <1>2, <1>3, <1>4 DEF ContrastIInv

\* What the contrast is taken against is a colour.
LEMMA BehindIs == OptionsIInv => IsColour(Behind)
<1>1. ASSUME OptionsIInv, use # "render" PROVE IsColour(Behind)
  <2>1. IsColour(over(options.background, options.background_alpha, page))
    BY <1>1, OverIs DEF OptionsIInv
  <2> QED
    BY <1>1, <2>1 DEF Behind
<1> QED
  BY <1>1 DEF OptionsIInv, Behind

\* Every contrast to it is below 2 exactly if the figure is hidden.
LEMMA AgainstIs ==
  ASSUME OptionsIInv
  PROVE  \A i \in 1..4 : /\ Against(i) \in Nat
                         /\ Against(i) < 200 <=> Close(palette[i], Behind)
<1> SUFFICES ASSUME NEW i \in 1..4
             PROVE  /\ Against(i) \in Nat
                    /\ Against(i) < 200 <=> Close(palette[i], Behind)
  OBVIOUS
<1>1. IsColour(palette[i]) /\ IsColour(Behind)
  BY PaletteIs, BehindIs
<1> QED
  BY <1>1, BelowTwo DEF Against

\* The next colour.
LEMMA MeasureKeepsLeast ==
  ASSUME ContrastIInv, MeasureColour
  PROVE  ContrastIInv'
<1>1. OptionsIInv /\ LeastSoFar /\ colour \in 1..4
  <2>1. OptionsIInv /\ LeastSoFar
    BY DEF ContrastIInv
  <2> QED
    BY SMT, <2>1, PaletteIs DEF LeastSoFar, MeasureColour
<1>2. /\ use' = use /\ options' = options /\ page' = page /\ answer' = answer
      /\ colour' = colour + 1 /\ answer = <<>>
      /\ use = "render" => options.background_alpha = 255
  BY DEF MeasureColour
<1>3. OptionsIInv'
  BY <1>1, <1>2, Zenon DEF OptionsIInv
<1>4. RefusalIsExact'
  BY <1>2, Zenon DEF RefusalIsExact
<1>5. Behind' = Behind
  BY <1>2 DEF Behind
<1>6. \A i \in 1..4 : Against(i)' = Against(i)
  BY <1>5 DEF Against
<1>7. \A i \in 1..4 : Against(i) \in Nat
  BY <1>1, AgainstIs
<1>8. worst' = IF colour = 1 THEN Against(colour) ELSE Weaker(worst, Against(colour))
  BY Zenon DEF MeasureColour, Against
<1>9. CASE colour = 1
  <2>1. colour' = 2 /\ worst' = Against(1)
    BY SMT, <1>2, <1>8, <1>9
  <2>2. /\ \A i \in 1..(colour' - 1) : i = 1
        /\ 1 \in 1..(colour' - 1)
    BY SMT, <2>1
  <2>3. Against(1)' = Against(1) /\ Against(1) \in Nat
    BY SMT, <1>6, <1>7
  <2>4. LeastSoFar'
    BY SMT, <1>2, <2>1, <2>2, <2>3 DEF LeastSoFar
  <2> QED
    BY <1>3, <1>4, <2>4 DEF ContrastIInv
<1>10. CASE colour # 1
  <2>1. /\ \A i \in 1..(colour - 1) : worst <= Against(i)
        /\ \E i \in 1..(colour - 1) : worst = Against(i)
    BY SMT, <1>1, <1>10 DEF LeastSoFar
  <2>2. PICK j \in 1..(colour - 1) : worst = Against(j)
    BY <2>1
  <2>3. PICK c \in Nat : c = Against(colour)
    BY SMT, <1>1, <1>7
  <2>4. PICK w \in Nat : w = worst
    BY SMT, <1>1, <1>7, <2>2
  <2>5. worst' = IF w < c THEN w ELSE c
    BY <1>8, <1>10, <2>3, <2>4 DEF Weaker
  <2>6. ASSUME NEW i \in 1..(colour' - 1)
        PROVE  worst' <= Against(i)'
    <3>1. i \in 1..4 /\ (i \in 1..(colour - 1) \/ i = colour)
      BY SMT, <1>1, <1>2
    <3>2. PICK a \in Nat : a = Against(i) /\ a = Against(i)'
      BY <1>6, <1>7, <3>1
    <3>3. w <= a \/ a = c
      BY <2>1, <2>3, <2>4, <3>1, <3>2
    <3> QED
      BY SMT, <2>5, <3>2, <3>3
  <2>7. \E i \in 1..(colour' - 1) : worst' = Against(i)'
    <3>1. j \in 1..(colour' - 1) /\ colour \in 1..(colour' - 1) /\ j \in 1..4
      BY SMT, <1>1, <1>2
    <3>2. worst' = Against(j) \/ worst' = Against(colour)
      BY <2>2, <2>3, <2>4, <2>5
    <3> QED
      BY <1>1, <1>6, <3>1, <3>2
  <2>8. colour' \in 1..5
    BY SMT, <1>1, <1>2
  <2>9. LeastSoFar'
    BY <1>2, <2>6, <2>7, <2>8 DEF LeastSoFar
  <2> QED
    BY <1>3, <1>4, <2>9 DEF ContrastIInv
<1> QED
  BY <1>9, <1>10

\* Whether a colour hides a figure.
Hides(c) == \E i \in DOMAIN palette : Close(palette[i], c)

\* The least contrast is below 2 exactly if a figure is hidden.
LEMMA LeastIsBelowTwo ==
  ASSUME ContrastIInv, colour = 5
  PROVE  /\ worst \in Nat
         /\ worst < 200 <=> Hides(Behind)
         /\ \E i \in 1..4 : worst = Against(i)
<1>1. OptionsIInv /\ LeastSoFar
  BY DEF ContrastIInv
<1>2. /\ \A i \in 1..4 : worst <= Against(i)
      /\ \E i \in 1..4 : worst = Against(i)
  <2>1. 5 - 1 = 4 /\ 5 > 1
    BY SMT
  <2> QED
    BY <1>1, <2>1, Zenon DEF LeastSoFar
<1>3. \A i \in 1..4 : /\ Against(i) \in Nat
                      /\ Against(i) < 200 <=> Close(palette[i], Behind)
  BY <1>1, AgainstIs
<1>4. PICK j \in 1..4 : worst = Against(j)
  BY <1>2
<1>5. worst \in Nat
  BY <1>3, <1>4
<1>6. worst < 200 => Hides(Behind)
  BY <1>3, <1>4, PaletteIs DEF Hides
<1>7. ASSUME Hides(Behind) PROVE worst < 200
  <2>1. PICK i \in 1..4 : Close(palette[i], Behind)
    BY <1>7, PaletteIs DEF Hides
  <2>2. PICK a \in Nat : a = Against(i) /\ a < 200 /\ worst <= a
    BY <1>2, <1>3, <2>1
  <2> QED
    BY SMT, <1>5, <2>2
<1> QED
  BY <1>2, <1>5, <1>6, <1>7

\* What a page makes of a colour is the colour the definition chooses.
LEMMA SeenIs ==
  ASSUME OptionsIInv, use = "measure"
  PROVE  /\ Behind = Shown(options.background, options.background_alpha, page)
         /\ options.background_alpha = 0 => \A ch \in 1..3 : Behind[ch] = page[ch]
<1>1. Behind = over(options.background, options.background_alpha, page)
  BY DEF Behind
<1>2. options.background_alpha \in 0..255 /\ IsColour(options.background) /\ IsColour(page)
  BY DEF OptionsIInv
<1> QED
  BY <1>1, <1>2, OverIs

\* contrast_x100 gives the contrast, to the hundredth.
LEMMA ContrastIsContrast ==
  ASSUME NEW a, NEW b, IsColour(a), IsColour(b)
  PROVE  IsContrast(contrast_x100(a, b), a, b)
<1>1. PICK q \in Nat, l \in Nat, d \in Nat :
        /\ q = contrast_x100(a, b)
        /\ l = Lum(Lighter(a, b)) /\ d = Lum(Darker(a, b))
        /\ d >= 500000000 /\ l >= d /\ l <= 10500000000
        /\ q * d <= 100 * l /\ 100 * l < (q + 1) * d
  BY SMT, ContrastIs
<1> DEFINE light == Luminance(Lighter(a, b))
           dark  == Luminance(Darker(a, b))
<1>2. IsColour(Lighter(a, b)) /\ IsColour(Darker(a, b))
  BY DEF Lighter, Darker
<1>3. Pair(light) /\ Value(light) = l /\ Pair(dark) /\ Value(dark) = d
  BY <1>1, <1>2, LuminanceIs
<1> HIDE DEF light, dark
<1>4. /\ Pair(Times(100, light)) /\ Value(Times(100, light)) = 100 * l
      /\ Pair(Times(q, dark)) /\ Value(Times(q, dark)) = q * d
      /\ Pair(Times(q + 1, dark)) /\ Value(Times(q + 1, dark)) = (q + 1) * d
  BY SMT, <1>3, TimesIs
<1>5. AtMost(Times(q, dark), Times(100, light))
  BY <1>1, <1>4, AtMostIs
<1>6. ~AtMost(Times(q + 1, dark), Times(100, light))
  <2>1. ~((q + 1) * d <= 100 * l)
    BY SMT, <1>1
  <2> QED
    BY <1>4, <2>1, AtMostIs
<1>7. IsContrast(q, a, b)
  BY <1>5, <1>6, SMT DEF IsContrast, light, dark
<1> QED
  BY <1>1, <1>7

\* The contrast of the frame, which is that of a colour to itself at alpha 0.
LEMMA FrameContrast ==
  ASSUME OptionsIInv, use = "measure"
  PROVE  LET frame == over(frame_colour, options.frame_alpha, Behind)
             shown == contrast_x100(frame, Behind)
         IN  /\ frame = Shown(frame_colour, options.frame_alpha, Behind)
             /\ IsContrast(shown, frame, Behind)
             /\ options.frame_alpha = 0 => shown = 100
<1> DEFINE frame == over(frame_colour, options.frame_alpha, Behind)
<1>1. options.frame_alpha \in 0..255 /\ IsColour(Behind) /\ IsColour(frame_colour)
  BY BehindIs, PaletteIs DEF OptionsIInv
<1>2. /\ IsColour(frame)
      /\ frame = Shown(frame_colour, options.frame_alpha, Behind)
      /\ options.frame_alpha = 0 => \A ch \in 1..3 : frame[ch] = Behind[ch]
  BY <1>1, OverIs
<1>3. IsContrast(contrast_x100(frame, Behind), frame, Behind)
  BY <1>1, <1>2, ContrastIsContrast
<1>4. frame = [ch \in 1..3 |-> frame[ch]]
  BY DEF over
<1>5. Behind = [ch \in 1..3 |-> Behind[ch]]
  BY DEF Behind, over
<1> HIDE DEF frame
<1>6. ASSUME options.frame_alpha = 0 PROVE contrast_x100(frame, Behind) = 100
  <2>1. frame = Behind
    BY <1>2, <1>4, <1>5, <1>6
  <2> QED
    BY <1>1, <2>1, NoContrast
<1> QED
  BY <1>2, <1>3, <1>6, Zenon DEF frame

\* RefusalIsExact for any values of the variables.
Exact(us, op, pg, ans) ==
  ans # <<>> =>
    IF us = "render"
    THEN ans = <<"low_contrast">> <=> op.background_alpha = 255 /\ Hides(op.background)
    ELSE LET seen == Shown(op.background, op.background_alpha, pg)
         IN  /\ ans[1] < 200 <=> Hides(seen)
             /\ op.background_alpha = 0 /\ pg \in {<<255, 255, 255>>, <<18, 18, 18>>}
                  => ans[1] >= 300
             /\ IsContrast(ans[2], Shown(frame_colour, op.frame_alpha, seen), seen)
             /\ op.frame_alpha = 0 => ans[2] = 100

LEMMA ExactIs == RefusalIsExact <=> Exact(use, options, page, answer)
BY Zenon DEF RefusalIsExact, Exact, Hides

LEMMA ExactIsNext == RefusalIsExact' <=> Exact(use', options', page', answer')
BY Zenon DEF RefusalIsExact, Exact, Hides

\* The answer is the one RefusalIsExact asks for.
LEMMA AnswerIsExact ==
  ASSUME ContrastIInv, Answer
  PROVE  RefusalIsExact'
<1>1. /\ use' = use /\ options' = options /\ page' = page
      /\ answer' = IF use = "render"
                   THEN <<IF worst < 200 THEN "low_contrast" ELSE "ok">>
                   ELSE <<worst, contrast_x100(over(frame_colour, options.frame_alpha, Behind),
                                               Behind)>>
  BY DEF Answer
<1>2. OptionsIInv /\ LeastSoFar
  BY DEF ContrastIInv
<1>3. colour = 5
  BY SMT, <1>2, PaletteIs DEF Answer, LeastSoFar
<1>4. /\ worst \in Nat
      /\ worst < 200 <=> Hides(Behind)
      /\ \E i \in 1..4 : worst = Against(i)
  BY <1>3, LeastIsBelowTwo
<1>5. CASE use = "render"
  <2>1. options.background_alpha = 255 /\ Behind = options.background
    <3>1. 5 > 1
      BY SMT
    <3> QED
      BY <1>2, <1>3, <1>5, <3>1, Zenon DEF LeastSoFar, Behind
  <2>2. answer' = <<"low_contrast">> <=> worst < 200
    BY <1>1, <1>5
  <2>3. worst < 200 <=> Hides(options.background)
    BY <1>4, <2>1, Zenon
  <2>4. Exact(use', options', page', answer')
    BY <1>1, <1>5, <2>1, <2>2, <2>3, Zenon DEF Exact
  <2> QED
    BY <2>4, ExactIsNext
<1>6. CASE use # "render"
  <2>1. use = "measure"
    BY <1>2, <1>6 DEF OptionsIInv
  <2> DEFINE frame == over(frame_colour, options.frame_alpha, Behind)
             shown == contrast_x100(frame, Behind)
             seen  == Shown(options.background, options.background_alpha, page)
  <2>2. answer'[1] = worst /\ answer'[2] = shown
    BY <1>1, <1>6
  <2>3. Behind = seen
    BY <1>2, <2>1, SeenIs
  <2>4. /\ frame = Shown(frame_colour, options.frame_alpha, Behind)
        /\ IsContrast(shown, frame, Behind)
        /\ options.frame_alpha = 0 => shown = 100
    BY <1>2, <2>1, FrameContrast, Zenon
  <2>5. ASSUME options.background_alpha = 0, page \in {<<255, 255, 255>>, <<18, 18, 18>>}
        PROVE  worst >= 300
    <3>1. (\A ch \in 1..3 : Behind[ch] = 255) \/ (\A ch \in 1..3 : Behind[ch] = 18)
      <4>1. \A ch \in 1..3 : Behind[ch] = page[ch]
        BY <1>2, <2>1, <2>5, SeenIs
      <4>2. (\A ch \in 1..3 : page[ch] = 255) \/ (\A ch \in 1..3 : page[ch] = 18)
        BY SMT, <2>5
      <4> QED
        BY <4>1, <4>2
    <3>2. IsColour(Behind)
      BY <1>2, BehindIs
    <3> QED
      BY <1>4, <3>1, <3>2, PageShows DEF Against
  <2> HIDE DEF frame, shown, seen
  <2>6. worst < 200 <=> Hides(seen)
    BY <1>4, <2>3, Zenon
  <2>7. IsContrast(shown, Shown(frame_colour, options.frame_alpha, seen), seen)
    BY <2>3, <2>4, Zenon
  <2>8. Exact(use', options', page', answer')
    <3>1. use' = use /\ options' = options /\ page' = page
      BY <1>1
    <3>2. seen = Shown(options'.background, options'.background_alpha, page')
      BY <3>1, Zenon DEF seen
    <3>3. answer'[1] < 200 <=> Hides(seen)
      BY <2>2, <2>6
    <3>4. options'.background_alpha = 0 /\ page' \in {<<255, 255, 255>>, <<18, 18, 18>>}
            => answer'[1] >= 300
      BY <2>2, <2>5, <3>1
    <3>5. /\ IsContrast(answer'[2], Shown(frame_colour, options'.frame_alpha, seen), seen)
          /\ options'.frame_alpha = 0 => answer'[2] = 100
      BY <2>2, <2>4, <2>7, <3>1, Zenon
    <3>6. use' # "render"
      BY <1>6, <3>1
    <3> QED
      BY <3>2, <3>3, <3>4, <3>5, <3>6, Zenon DEF Exact
  <2> QED
    BY <2>8, ExactIsNext
<1> QED
  BY <1>5, <1>6

\* Every step keeps the invariant.
LEMMA StepContrastIInv == ContrastIInv /\ [ContrastNext]_contrast_vars => ContrastIInv'
<1> SUFFICES ASSUME ContrastIInv, [ContrastNext]_contrast_vars PROVE ContrastIInv'
  OBVIOUS
<1>1. CASE MeasureColour
  BY <1>1, MeasureKeepsLeast
<1>2. ASSUME UNCHANGED <<use, options, page, colour, worst>>
      PROVE  (OptionsIInv /\ LeastSoFar)'
  <2>1. OptionsIInv /\ LeastSoFar
    BY DEF ContrastIInv
  <2>2. OptionsIInv'
    BY <1>2, <2>1 DEF OptionsIInv
  <2>3. \A i : Against(i)' = Against(i)
    BY <1>2 DEF Against, Behind
  <2>4. LeastSoFar'
    BY <1>2, <2>1, <2>3 DEF LeastSoFar
  <2> QED
    BY <2>2, <2>4
<1>3. CASE NotMeasured
  <2>1. /\ UNCHANGED <<use, options, page, colour, worst>>
        /\ answer' = <<"ok">> /\ use = "render" /\ options.background_alpha # 255
    BY <1>3 DEF NotMeasured
  <2>2. RefusalIsExact'
    BY <2>1 DEF RefusalIsExact
  <2> QED
    BY <1>2, <2>1, <2>2 DEF ContrastIInv
<1>4. CASE Answer
  <2>1. UNCHANGED <<use, options, page, colour, worst>>
    BY <1>4 DEF Answer
  <2> QED
    BY <1>2, <1>4, <2>1, AnswerIsExact DEF ContrastIInv
<1>5. CASE UNCHANGED contrast_vars
  <2>1. UNCHANGED <<use, options, page, colour, worst>> /\ answer' = answer
    BY <1>5 DEF contrast_vars
  <2>2. RefusalIsExact'
    <3>1. Exact(use, options, page, answer)
      BY ExactIs DEF ContrastIInv
    <3> QED
      BY <2>1, <3>1, ExactIsNext, Zenon
  <2> QED
    BY <1>2, <2>1, <2>2 DEF ContrastIInv
<1> QED
  BY <1>1, <1>3, <1>4, <1>5 DEF ContrastNext

\* Whatever the background, the alphas and the page, a background is refused
\* exactly if it is opaque and hides a figure, and a report says what is seen of
\* figures and frame, as RefusalIsExact has it (contrast.cpp:46-76,
\* raster.cpp:354-357).
THEOREM RefusalAlwaysExact == ContrastSpec => []RefusalIsExact
<1>1. ContrastIInv => RefusalIsExact
  BY DEF ContrastIInv
<1> QED
  BY <1>1, InitContrastIInv, StepContrastIInv, PTL DEF ContrastSpec

-----------------------------------------------------------------------------
(* features *)

\* The characters of a tag.
Characters == {crockford[i] : i \in 1..32}

\* The character of each place that is written, and what describe has returned.
TagSoFar ==
  /\ tag \in Seq(Characters) /\ Len(tag) <= 6
  /\ \A n \in 1..Len(tag) : tag[n] = crockford[TagDigit(n - 1) + 1]

Described ==
  layout # <<>> => layout = [i \in 1..16 |-> IF Empty THEN [figure |-> "none", colour |-> 0]
                                             ELSE CellOf(fp[i])]

FeaturesIInv == fp \in [1..20 -> 0..255] /\ TagSoFar /\ Described

\* The thirty bits of the tag, and where the bytes are in them.
LEMMA BitsAre ==
  ASSUME fp \in [1..20 -> 0..255]
  PROVE  /\ fp[17] \in 0..255 /\ fp[18] \in 0..255 /\ fp[19] \in 0..255 /\ fp[20] \in 0..255
         /\ TagBits = fp[17] * 4194304 + fp[18] * 16384 + fp[19] * 64 + fp[20] \div 4
         /\ TagBits \in Nat /\ TagBits < 1073741824
         /\ TagBits \div 4194304 = fp[17] /\ (TagBits \div 16384) % 256 = fp[18]
         /\ (TagBits \div 64) % 256 = fp[19] /\ TagBits % 64 = fp[20] \div 4
<1>0. fp[17] \in 0..255 /\ fp[18] \in 0..255 /\ fp[19] \in 0..255 /\ fp[20] \in 0..255
  BY SMT
<1>1. TagBits = fp[17] * 4194304 + fp[18] * 16384 + fp[19] * 64 + fp[20] \div 4
  BY SMT, ShiftsAssumption DEF TagBits
<1>2. PICK a \in 0..255, b \in 0..255, c \in 0..255, e \in 0..63 :
        a = fp[17] /\ b = fp[18] /\ c = fp[19] /\ e = fp[20] \div 4
  <2>1. fp[20] \div 4 \in 0..63
    BY SMT, <1>0
  <2> QED
    BY <1>0, <2>1, Zenon
<1>3. TagBits = a * 4194304 + b * 16384 + c * 64 + e
  BY SMT, <1>0, <1>1, <1>2
<1> DEFINE t == a * 4194304 + b * 16384 + c * 64 + e
<1>4. t \in Nat /\ t < 1073741824
  BY SMT
<1>5. t \div 4194304 = a /\ t \div 16384 = 256 * a + b
      /\ t \div 64 = 65536 * a + 256 * b + c /\ t % 64 = e
  BY SMT
<1>6. (256 * a + b) % 256 = b /\ (65536 * a + 256 * b + c) % 256 = c
  BY SMT
<1> HIDE DEF t
<1>7. TagBits = t
  BY <1>3 DEF t
<1>8. /\ TagBits \in Nat /\ TagBits < 1073741824
      /\ TagBits \div 4194304 = fp[17] /\ (TagBits \div 16384) % 256 = fp[18]
      /\ (TagBits \div 64) % 256 = fp[19] /\ TagBits % 64 = fp[20] \div 4
  BY SMT, <1>2, <1>4, <1>5, <1>6, <1>7
<1> QED
  BY SMT, <1>0, <1>1, <1>8

\* A digit has five bits.
LEMMA TagDigitType ==
  ASSUME fp \in [1..20 -> 0..255], NEW n \in 0..5
  PROVE  TagDigit(n) \in 0..31
<1>1. TagBits \in Nat
  BY BitsAre
<1>2. 25 - 5 * n \in {0, 5, 10, 15, 20, 25}
  BY SMT
<1>3. PICK e : e = 25 - 5 * n /\ e \in {0, 5, 10, 15, 20, 25}
  BY <1>2
<1>4. 2 ^ e \in Nat \ {0}
  <2>1. CASE e = 0
    BY SMT, <2>1, ShiftsAssumption
  <2>2. CASE e = 5
    BY SMT, <2>2, ShiftsAssumption
  <2>3. CASE e = 10
    BY SMT, <2>3, ShiftsAssumption
  <2>4. CASE e = 15
    BY SMT, <2>4, ShiftsAssumption
  <2>5. CASE e = 20
    BY SMT, <2>5, ShiftsAssumption
  <2>6. CASE e = 25
    BY SMT, <2>6, ShiftsAssumption
  <2> QED
    BY <1>3, <2>1, <2>2, <2>3, <2>4, <2>5, <2>6
<1>5. TagDigit(n) = (TagBits \div 2 ^ e) % 32
  BY <1>3 DEF TagDigit
<1> QED
  BY SMT, <1>1, <1>4, <1>5

\* The 32 characters are not I, L, O and U.
LEMMA CharactersAre ==
  /\ \A i \in 1..32 : crockford[i] \notin {"I", "L", "O", "U"}
  /\ DOMAIN crockford = 1..32
BY SMT DEF crockford

\* No two places of the alphabet have the same character.
LEMMA CharactersDiffer ==
  ASSUME NEW i \in 1..32, NEW j \in 1..32, crockford[i] = crockford[j]
  PROVE  i = j
BY DEF crockford

\* The invariant holds at first.
LEMMA InitFeaturesIInv == FeaturesInit => FeaturesIInv
<1> SUFFICES ASSUME FeaturesInit PROVE FeaturesIInv
  OBVIOUS
<1>1. fp \in [1..20 -> 0..255]
  <2>1. CASE \E c \in CellBytes, t \in TagBytes : fp = c \o t
    <3>1. PICK c \in CellBytes, t \in TagBytes : fp = c \o t
      BY <2>1
    <3>2. c \in Seq(0..255) /\ Len(c) = 16 /\ t \in Seq(0..255) /\ Len(t) = 4
      BY BytesAssumption
    <3>3. c \o t \in Seq(0..255) /\ Len(c \o t) = 20
      <4>1. c \o t \in Seq(0..255) /\ Len(c \o t) = Len(c) + Len(t)
        BY <3>2, ConcatProperties
      <4> QED
        BY <3>2, <4>1
    <3>4. PICK f \in Seq(0..255) : f = fp /\ Len(f) = 20
      BY <3>1, <3>3
    <3>5. f \in [1..20 -> 0..255]
      <4>1. f \in [1..Len(f) -> 0..255]
        BY LenProperties
      <4> QED
        BY <3>4, <4>1
    <3> QED
      BY <3>4, <3>5
  <2>2. CASE fp = [i \in 1..20 |-> 0]
    BY <2>2
  <2> QED
    BY <2>1, <2>2 DEF FeaturesInit
<1> QED
  BY <1>1 DEF FeaturesInit, FeaturesIInv, TagSoFar, Described

\* Every step keeps it.
LEMMA StepFeaturesIInv ==
  FeaturesIInv /\ [FeaturesNext]_feature_vars => FeaturesIInv'
<1> SUFFICES ASSUME FeaturesIInv, [FeaturesNext]_feature_vars PROVE FeaturesIInv'
  OBVIOUS
<1>1. CASE Describe
  <2>1. fp' = fp /\ tag' = tag
    BY <1>1 DEF Describe
  <2>2. TagSoFar'
    BY <2>1 DEF FeaturesIInv, TagSoFar, TagDigit, TagBits
  <2>3. Described'
    BY <1>1, <2>1 DEF Describe, Described, Empty, CellOf
  <2> QED
    BY <2>1, <2>2, <2>3 DEF FeaturesIInv
<1>2. CASE PutTagCharacter
  <2> DEFINE c == crockford[TagDigit(Len(tag)) + 1]
  <2>1. fp' = fp /\ layout' = layout /\ Len(tag) < 6 /\ tag' = Append(tag, c)
    BY <1>2 DEF PutTagCharacter
  <2>2. tag \in Seq(Characters) /\ Len(tag) \in 0..5
    <3>1. tag \in Seq(Characters)
      BY DEF FeaturesIInv, TagSoFar
    <3>2. PICK k \in Nat : k = Len(tag)
      BY <3>1, LenProperties
    <3>3. k \in 0..5
      BY <2>1, <3>2
    <3> QED
      BY <3>1, <3>2, <3>3
  <2>3. c \in Characters
    <3>1. TagDigit(Len(tag)) \in 0..31
      BY <2>2, TagDigitType DEF FeaturesIInv
    <3>2. PICK k \in 0..31 : k = TagDigit(Len(tag))
      BY <3>1
    <3>3. k + 1 \in 1..32
      OBVIOUS
    <3> QED
      BY <3>2, <3>3 DEF Characters
  <2>4. \A n : TagDigit(n)' = TagDigit(n)
    BY <2>1 DEF TagDigit, TagBits
  <2>5. TagSoFar'
    <3> HIDE DEF c
    <3>1. tag' \in Seq(Characters) /\ Len(tag') = Len(tag) + 1
      BY <2>1, <2>2, <2>3, AppendProperties
    <3>2. ASSUME NEW n \in 1..Len(tag')
          PROVE  tag'[n] = crockford[TagDigit(n - 1) + 1]
      <4>1. CASE n = Len(tag')
        BY <2>1, <2>2, <3>1, <4>1 DEF c
      <4>2. CASE n # Len(tag')
        <5>1. n \in 1..Len(tag) /\ tag'[n] = tag[n]
          BY <2>1, <2>2, <3>1, <4>2
        <5> QED
          BY <5>1 DEF FeaturesIInv, TagSoFar
      <4> QED
        BY <4>1, <4>2
    <3>3. PICK l \in 0..5 : l = Len(tag)
      BY <2>2
    <3>4. Len(tag') = l + 1 /\ l + 1 <= 6
      BY <3>1, <3>3
    <3>5. Len(tag') <= 6
      BY <3>4, Zenon
    <3>6. \A n \in 1..Len(tag') : tag'[n] = crockford[TagDigit(n - 1)' + 1]
      BY <2>4, <3>2
    <3> QED
      BY <3>1, <3>5, <3>6 DEF TagSoFar
  <2>6. Described'
    <3>1. Empty' <=> Empty
      BY <2>1 DEF Empty
    <3>2. Described
      BY DEF FeaturesIInv
    <3> QED
      BY <2>1, <3>1, <3>2, Zenon DEF Described
  <2> QED
    BY <2>1, <2>5, <2>6 DEF FeaturesIInv
<1>3. CASE UNCHANGED feature_vars
  <2>1. fp' = fp /\ layout' = layout /\ tag' = tag
    BY <1>3 DEF feature_vars
  <2>2. TagSoFar'
    BY <2>1 DEF FeaturesIInv, TagSoFar, TagDigit, TagBits
  <2>3. Described'
    <3>1. Empty' <=> Empty
      BY <2>1 DEF Empty
    <3>2. Described
      BY DEF FeaturesIInv
    <3> QED
      BY <2>1, <3>1, <3>2, Zenon DEF Described
  <2> QED
    BY <2>1, <2>2, <2>3 DEF FeaturesIInv
<1> QED
  BY <1>1, <1>2, <1>3 DEF FeaturesNext

\* What a cell shows are the upper five bits of its byte, or that it is in the
\* lower quarter.
LEMMA CellReadsBack ==
  ASSUME NEW b \in 0..255
  PROVE  LET c == CellOf(b)
         IN  IF c.figure = "none" THEN b < 64 /\ c.colour = 0
             ELSE b \div 8 = 4 * (IndexIn(figure_table, c.figure) - 1) + c.colour
<1>1. PICK k \in 1..8 : k = (b \div 32) + 1
  OBVIOUS
<1>2. CellOf(b).figure = figure_table[k]
  BY <1>1 DEF CellOf
<1>3. figure_table[k] = "none" <=> k <= 2
  BY DEF figure_table
<1>4. CASE k <= 2
  <2>1. b < 64
    BY <1>1, <1>4
  <2> QED
    BY <1>2, <1>3, <1>4, <2>1 DEF CellOf
<1>5. CASE ~(k <= 2)
  <2>1. \A i \in DOMAIN figure_table : figure_table[i] = figure_table[k] => i = k
    BY <1>5 DEF figure_table
  <2>2. k \in DOMAIN figure_table
    BY DEF figure_table
  <2>3. IndexIn(figure_table, figure_table[k]) = k
    BY <2>1, <2>2 DEF IndexIn
  <2>4. CellOf(b).colour = (b \div 8) % 4
    BY <1>2, <1>3, <1>5 DEF CellOf
  <2>5. b \div 8 = 4 * (b \div 32) + ((b \div 8) % 4)
    OBVIOUS
  <2> QED
    BY <1>1, <1>2, <1>3, <1>5, <2>3, <2>4, <2>5
<1> QED
  BY <1>4, <1>5

\* The bits of a tag and its digits.
LEMMA TagReadsBack ==
  ASSUME fp \in [1..20 -> 0..255]
  PROVE  /\ TagBits \in Nat /\ TagBits \div 1073741824 = 0
         /\ 32 * (TagBits \div 1073741824) + TagDigit(0) = TagBits \div 33554432
         /\ 32 * (TagBits \div 33554432) + TagDigit(1) = TagBits \div 1048576
         /\ 32 * (TagBits \div 1048576) + TagDigit(2) = TagBits \div 32768
         /\ 32 * (TagBits \div 32768) + TagDigit(3) = TagBits \div 1024
         /\ 32 * (TagBits \div 1024) + TagDigit(4) = TagBits \div 32
         /\ 32 * (TagBits \div 32) + TagDigit(5) = TagBits
<1>2. TagBits \in Nat /\ TagBits < 1073741824
  BY BitsAre
<1>3. PICK b \in Nat : b = TagBits
  BY SMT, <1>2
<1>4. \A n \in 0..5 : TagDigit(n) = (b \div 2 ^ (25 - 5 * n)) % 32
  BY SMT, <1>3 DEF TagDigit
<1>5. /\ TagDigit(0) = (b \div 2 ^ 25) % 32 /\ TagDigit(1) = (b \div 2 ^ 20) % 32
      /\ TagDigit(2) = (b \div 2 ^ 15) % 32 /\ TagDigit(3) = (b \div 2 ^ 10) % 32
      /\ TagDigit(4) = (b \div 2 ^ 5) % 32 /\ TagDigit(5) = (b \div 2 ^ 0) % 32
  <2>1. /\ 25 - 5 * 0 = 25 /\ 25 - 5 * 1 = 20 /\ 25 - 5 * 2 = 15
        /\ 25 - 5 * 3 = 10 /\ 25 - 5 * 4 = 5 /\ 25 - 5 * 5 = 0
    BY SMT
  <2> QED
    BY SMT, <1>3, <2>1 DEF TagDigit
<1>6. 32 * (b \div 1073741824) + ((b \div 33554432) % 32) = b \div 33554432
  BY SMT
<1>7. 32 * (b \div 33554432) + ((b \div 1048576) % 32) = b \div 1048576
  BY SMT
<1>8. 32 * (b \div 1048576) + ((b \div 32768) % 32) = b \div 32768
  BY SMT
<1>9. 32 * (b \div 32768) + ((b \div 1024) % 32) = b \div 1024
  BY SMT
<1>10. 32 * (b \div 1024) + ((b \div 32) % 32) = b \div 32
  BY SMT
<1>11. 32 * (b \div 32) + ((b \div 1) % 32) = b
  BY SMT
<1>12. b \div 1073741824 = 0
  BY SMT, <1>2, <1>3
<1>13. /\ TagDigit(0) = (b \div 33554432) % 32 /\ TagDigit(1) = (b \div 1048576) % 32
       /\ TagDigit(2) = (b \div 32768) % 32 /\ TagDigit(3) = (b \div 1024) % 32
       /\ TagDigit(4) = (b \div 32) % 32 /\ TagDigit(5) = (b \div 1) % 32
  BY <1>5, ShiftsAssumption, SMT
<1> QED
  BY SMT, <1>3, <1>6, <1>7, <1>8, <1>9, <1>10, <1>11, <1>12, <1>13

\* What is folded from six digits.
Folded(bits, d) ==
  bits = [n \in 0..6 |-> IF n = 0 THEN 0 ELSE 32 * bits[n - 1] + d[n]]

LEMMA FoldedIs ==
  ASSUME fp \in [1..20 -> 0..255], NEW bits,
         Folded(bits, [n \in 1..6 |-> TagDigit(n - 1)])
  PROVE  bits[6] = TagBits
<1> DEFINE d == [n \in 1..6 |-> TagDigit(n - 1)]
<1>1. \A n \in 0..6 : bits[n] = IF n = 0 THEN 0 ELSE 32 * bits[n - 1] + d[n]
  BY SMT DEF Folded
<1>2. /\ d[1] = TagDigit(0) /\ d[2] = TagDigit(1) /\ d[3] = TagDigit(2)
      /\ d[4] = TagDigit(3) /\ d[5] = TagDigit(4) /\ d[6] = TagDigit(5)
  BY SMT
<1> HIDE DEF d
<1>3. /\ bits[0] = 0 /\ bits[1] = 32 * bits[0] + d[1] /\ bits[2] = 32 * bits[1] + d[2]
      /\ bits[3] = 32 * bits[2] + d[3] /\ bits[4] = 32 * bits[3] + d[4]
      /\ bits[5] = 32 * bits[4] + d[5] /\ bits[6] = 32 * bits[5] + d[6]
  BY SMT, <1>1
<1>4. bits[1] = TagBits \div 33554432
  BY SMT, <1>2, <1>3, TagReadsBack
<1>5. bits[2] = TagBits \div 1048576
  BY SMT, <1>2, <1>3, <1>4, TagReadsBack
<1>6. bits[3] = TagBits \div 32768
  BY SMT, <1>2, <1>3, <1>5, TagReadsBack
<1>7. bits[4] = TagBits \div 1024
  BY SMT, <1>2, <1>3, <1>6, TagReadsBack
<1>8. bits[5] = TagBits \div 32
  BY SMT, <1>2, <1>3, <1>7, TagReadsBack
<1> QED
  BY SMT, <1>2, <1>3, <1>8, TagReadsBack

\* There is such a function.
LEMMA FoldedExists ==
  ASSUME fp \in [1..20 -> 0..255]
  PROVE  \E bits : Folded(bits, [n \in 1..6 |-> TagDigit(n - 1)])
<1> DEFINE d == [n \in 1..6 |-> TagDigit(n - 1)]
           parts == <<TagBits \div 33554432, TagBits \div 1048576, TagBits \div 32768,
                      TagBits \div 1024, TagBits \div 32, TagBits>>
           bits == [n \in 0..6 |-> IF n = 0 THEN 0 ELSE parts[n]]
<1>1. ASSUME NEW n \in 0..6
      PROVE  bits[n] = IF n = 0 THEN 0 ELSE 32 * bits[n - 1] + d[n]
  <2>1. CASE n = 0
    BY SMT, <2>1
  <2>2. CASE n = 1
    BY SMT, <2>2, TagReadsBack
  <2>3. CASE n \in 2..6
    <3>1. n - 1 \in 0..6 /\ n - 1 # 0 /\ n # 0
      BY SMT, <2>3
    <3>2. bits[n] = parts[n] /\ bits[n - 1] = parts[n - 1]
      BY SMT, <3>1
    <3>3. parts[n] = 32 * parts[n - 1] + TagDigit(n - 1)
      BY SMT, <2>3, TagReadsBack
    <3> QED
      BY SMT, <2>3, <3>1, <3>2, <3>3
  <2> QED
    BY SMT, <2>1, <2>2, <2>3
<1>2. bits = [n \in 0..6 |-> bits[n]]
  BY SMT
<1> HIDE DEF bits, d
<1> QED
  BY SMT, <1>1, <1>2 DEF Folded, d

\* Layout and tag of every fingerprint read back, as FeaturesReadBack says
\* (features.cpp:23-45).
THEOREM FeaturesAlwaysReadBack == FeaturesSpec => []FeaturesReadBack
<1>1. FeaturesIInv => FeaturesReadBack
  <2> SUFFICES ASSUME FeaturesIInv PROVE FeaturesReadBack
    BY SMT
  <2>1. fp \in [1..20 -> 0..255]
    BY SMT DEF FeaturesIInv
  <2>2. ASSUME NEW i \in DOMAIN layout
        PROVE  LET c == layout[i]
               IN  IF c.figure = "none" THEN fp[i] < 64 /\ c.colour = 0
                   ELSE fp[i] \div 8 = 4 * (IndexIn(figure_table, c.figure) - 1) + c.colour
    <3>0. layout # <<>>
      BY SMT
    <3>1. i \in 1..16 /\ layout[i] = IF Empty THEN [figure |-> "none", colour |-> 0]
                                     ELSE CellOf(fp[i])
      BY SMT, <2>2, <3>0 DEF FeaturesIInv, Described
    <3>2. fp[i] \in 0..255
      BY SMT, <2>1, <3>1
    <3>3. CASE Empty
      <4>1. fp[i] = 0
        BY SMT, <2>1, <3>1, <3>3 DEF Empty
      <4> QED
        BY SMT, <3>1, <3>3, <4>1
    <3>4. CASE ~Empty
      <4>1. layout[i] = CellOf(fp[i])
        BY <3>1, <3>4
      <4> QED
        BY Zenon, <3>2, <4>1, CellReadsBack
    <3> QED
      BY SMT, <3>3, <3>4
  <2>3. ASSUME Len(tag) = 6
        PROVE  LET digit(n) == IndexIn(crockford, tag[n]) - 1
                   bits[n \in 0..6] == IF n = 0 THEN 0 ELSE 32 * bits[n - 1] + digit(n)
               IN  /\ bits[6] \div 2 ^ 22 = fp[17]
                   /\ (bits[6] \div 2 ^ 14) % 256 = fp[18]
                   /\ (bits[6] \div 2 ^ 6) % 256 = fp[19]
                   /\ bits[6] % 64 = fp[20] \div 4
                   /\ \A n \in 1..6 : tag[n] \notin {"I", "L", "O", "U"}
    <3> DEFINE digit(n) == IndexIn(crockford, tag[n]) - 1
               bits[n \in 0..6] == IF n = 0 THEN 0 ELSE 32 * bits[n - 1] + digit(n)
               d == [n \in 1..6 |-> TagDigit(n - 1)]
    <3>1. ASSUME NEW n \in 1..6
          PROVE  digit(n) = TagDigit(n - 1) /\ tag[n] \notin {"I", "L", "O", "U"}
      <4>1. tag[n] = crockford[TagDigit(n - 1) + 1]
        BY SMT, <2>3 DEF FeaturesIInv, TagSoFar
      <4>2. TagDigit(n - 1) + 1 \in 1..32 /\ TagDigit(n - 1) \in Nat
        BY SMT, <2>1, TagDigitType
      <4>3. IndexIn(crockford, tag[n]) = TagDigit(n - 1) + 1
        BY SMT, <4>1, <4>2, CharactersAre, CharactersDiffer DEF IndexIn
      <4> QED
        BY SMT, <4>1, <4>2, <4>3, CharactersAre
    <3>2. bits = CHOOSE f : f = [n \in 0..6 |-> IF n = 0 THEN 0 ELSE 32 * f[n - 1] + digit(n)]
      BY SMT
    <3>3. \A f : Folded(f, d)
                   <=> f = [n \in 0..6 |-> IF n = 0 THEN 0 ELSE 32 * f[n - 1] + digit(n)]
      BY SMT, <3>1 DEF Folded
    <3>4. Folded(bits, d)
      <4> HIDE DEF digit, bits, d
      <4>1. \E f : Folded(f, d)
        BY SMT, <2>1, FoldedExists DEF d
      <4> QED
        BY SMT, <3>2, <3>3, <4>1
    <3>5. bits[6] = TagBits
      <4> HIDE DEF bits
      <4> QED
        BY SMT, <2>1, <3>4, FoldedIs
    <3> HIDE DEF bits, digit, d
    <3>6. /\ bits[6] \div 2 ^ 22 = fp[17]
          /\ (bits[6] \div 2 ^ 14) % 256 = fp[18]
          /\ (bits[6] \div 2 ^ 6) % 256 = fp[19]
          /\ bits[6] % 64 = fp[20] \div 4
      BY SMT, <2>1, <3>5, BitsAre, ShiftsAssumption
    <3> QED
      BY Zenon, <3>1, <3>6 DEF bits, digit
  <2> QED
    BY SMT, <2>2, <2>3 DEF FeaturesReadBack
<1> QED
  BY <1>1, InitFeaturesIInv, StepFeaturesIInv, PTL DEF FeaturesSpec
=============================================================================
