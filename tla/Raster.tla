------------------------------- MODULE Raster -------------------------------
(***************************************************************************)
(* make_geometry and rasterise of src/raster.cpp as they run.  The width   *)
(* of a cell of a square image is a formula, that of a round one is        *)
(* counted up in a loop.  Then come the pixels, a row of them or a cell at *)
(* a time: in the grid area the code writes the plain surface without      *)
(* looking at the samples, keeps the mixed colours of the rest in a table, *)
(* and then draws the figures over it.  A pixel is the arguments its       *)
(* colour is mixed from: how many samples of the frame, or of a figure's   *)
(* colour, and how many of the background alone.                           *)
(***************************************************************************)
EXTENDS Geometry, Sequences, Functions

CONSTANT Sizes   \* the sizes tried

\* min_image_size and max_image_size.
ASSUME SizesAssumption == Sizes \subseteq 16..1024

-----------------------------------------------------------------------------
(* make_geometry *)

VARIABLES pc,      \* "cell" or "done"
          size,    \* the arguments
          shape,
          style,
          cell     \* out.cell

geometry_vars == <<pc, size, shape, style, cell>>

\* The geometry that is found.
g == GeometryOf(size, cell)

\* prepare has checked the style.
GeometryInit ==
  /\ size \in Sizes /\ shape \in Shape /\ style \in Style
  /\ FrameAllowed(style, shape)
  /\ pc = "cell"
  /\ cell = 0

SquareCells ==
  /\ pc = "cell" /\ shape = "square"
  /\ cell' = SquareCell(size)
  /\ pc' = "done"
  /\ UNCHANGED <<size, shape, style>>

CountOne ==
  /\ pc = "cell" /\ shape = "round"
  /\ Fits(size, style, cell + 1)
  /\ cell' = cell + 1
  /\ UNCHANGED <<pc, size, shape, style>>

\* Mutant: the loop gives up one cell early.
StopEarly ==
  /\ pc = "cell" /\ shape = "round"
  /\ ~Fits(size, style, cell + 2)
  /\ pc' = "done"
  /\ UNCHANGED <<size, shape, style, cell>>

Stop ==
  /\ pc = "cell" /\ shape = "round"
  /\ ~Fits(size, style, cell + 1)
  /\ pc' = "done"
  /\ UNCHANGED <<size, shape, style, cell>>

GeometryNext == SquareCells \/ CountOne \/ Stop

GeometrySpec == GeometryInit /\ [][GeometryNext]_geometry_vars

-----------------------------------------------------------------------------
(* rasterise *)

CONSTANTS Drawn,    \* bound: the sizes at which pixels are drawn
          Layouts   \* the cells tried: 16 figures, row by row

ASSUME DrawnAssumption == Drawn \subseteq Sizes
ASSUME LayoutsAssumption ==
  \A layout \in Layouts :
    layout \in Seq([figure : STRING, colour : 0..3]) /\ Len(layout) = 16

\* From "done" pc goes on to "surface", "figures" and "drawn".
VARIABLES cells,      \* the argument besides those of make_geometry
          reference,  \* whether every sample is looked at
          row,        \* the next row of the surface
          index,      \* the next cell
          known,      \* the table of mixed colours, by the number of samples
          rgba        \* the pixels

canvas_vars == <<cells, reference, row, index, known, rgba>>
raster_vars == <<geometry_vars, canvas_vars>>

\* Nothing has been written to a pixel yet.
Stale == <<"stale", 0, 0, 0>>

FramePixel(n_frame, n_background) == <<"frame", 0, n_frame, n_background>>
FigurePixel(colour, n, n_background) == <<"figure", colour, n, n_background>>

Surface == FramePixel(0, 16)

Canvas == (0..(size - 1)) \X (0..(size - 1))

RasterInit ==
  /\ GeometryInit
  /\ cells = <<>> /\ reference = FALSE
  /\ row = 0 /\ index = 0
  /\ known = <<>>
  /\ rgba = <<>>

FindGeometry == GeometryNext /\ UNCHANGED canvas_vars

\* A size that leaves no room for the cells is refused before a pixel is
\* written; the caller has allocated the pixels.
Begin ==
  \E layout \in Layouts, look \in BOOLEAN :
    /\ pc = "done" /\ size \in Drawn
    /\ cell >= 1
    /\ pc' = "surface"
    /\ cells' = layout /\ reference' = look
    /\ rgba' = [p \in Canvas |-> Stale]
    /\ UNCHANGED <<size, shape, style, cell, row, index, known>>

\* Mutant: the table is looked up by the samples of the frame alone.
LookUpFrame(table, n_in, n_frame) ==
  LET hits == {c \in DOMAIN table : c[2] = n_frame}
  IN  IF hits # {} THEN table[CHOOSE c \in hits : TRUE]
      ELSE FramePixel(n_frame, n_in - n_frame)

\* The colour of a pixel with so many samples inside, from the table if it is
\* there.
LookUp(table, n_in, n_frame) ==
  IF <<n_in, n_frame>> \in DOMAIN table THEN table[<<n_in, n_frame>>]
  ELSE FramePixel(n_frame, n_in - n_frame)

\* The pixels of row y that are not looked at.
Skipped(y) ==
  IF ~reference /\ y \in GridRange(g) THEN GridRange(g) ELSE {}

SurfaceRow ==
  LET count == [x \in (0..(size - 1)) \ Skipped(row) |->
                  <<Cardinality(Inside(g, shape, style, x, row)),
                    Cardinality(Framed(g, shape, style, x, row))>>]
      seen  == DOMAIN known \cup Range(count)
  IN  /\ pc = "surface" /\ row < size
      /\ known' = [c \in seen |-> LookUp(known, c[1], c[2])]
      /\ rgba' = [p \in DOMAIN rgba |->
                    IF p[2] # row THEN rgba[p]
                    ELSE IF p[1] \in Skipped(row) THEN Surface
                    ELSE known'[count[p[1]]]]
      /\ row' = row + 1
      /\ pc' = IF row' = size THEN "figures" ELSE "surface"
      /\ UNCHANGED <<size, shape, style, cell, cells, reference, index>>

\* The pixels of a cell.
CellRange(n) == CellStart(g, n)..(CellStart(g, n) + g.cell - 1)
CellPixels(i) == CellRange(i % 4) \X CellRange(i \div 4)

\* A cell without a figure leaves the surface as it is.
DrawCell ==
  LET drawing == cells[index + 1]
      n(p) == Cardinality(Figured(g, drawing.figure,
                                  p[1] - CellStart(g, index % 4),
                                  p[2] - CellStart(g, index \div 4)))
  IN  /\ pc = "figures" /\ index < Len(cells)
      /\ rgba' = IF drawing.figure = "none" THEN rgba
                 ELSE [p \in DOMAIN rgba |->
                         IF p \in CellPixels(index)
                         THEN FigurePixel(drawing.colour, n(p), 16 - n(p))
                         ELSE rgba[p]]
      /\ index' = index + 1
      /\ pc' = IF index' = Len(cells) THEN "drawn" ELSE "figures"
      /\ UNCHANGED <<size, shape, style, cell, cells, reference, row, known>>

RasterNext == FindGeometry \/ Begin \/ SurfaceRow \/ DrawCell

RasterSpec == RasterInit /\ [][RasterNext]_raster_vars

-----------------------------------------------------------------------------
(* Properties *)

\* The widths are natural numbers, and a round image keeps only widths that
\* have been found to fit.
TypeOK ==
  /\ pc \in {"cell", "done"}
  /\ size \in Sizes /\ shape \in Shape /\ style \in Style
  /\ FrameAllowed(style, shape)
  /\ cell \in Nat

\* A render is refused for want of room exactly as SPEC.md:176-177 says: for a
\* round image with a double or thick frame below 18 pixels.
NoRoomAsDocumented ==
  pc = "done" =>
    (cell < 1 <=> shape = "round" /\ style \in {"double_line", "thick"}
                                  /\ size < 18)

\* The loop finds the largest cell that fits, as SPEC.md:195 defines it, and
\* not only the last of the first ones that do.
LargestThatFits ==
  pc = "done" /\ shape = "round" =>
    \A t \in 0..size : (t = 0 \/ Fits(size, style, t)) <=> t <= cell

\* Every sample of every pixel of the grid area is inside the outline and off
\* the frame, whatever the shape and the style (raster.cpp:262-263, and
\* SPEC.md:313): the shortcut of rasterise and the figures drawn over it are
\* right because of this.
GridIsPlain ==
  pc = "done" /\ cell >= 1 =>
    \A x, y \in GridRange(g) :
      \A u \in Samples(x), v \in Samples(y) :
        /\ u \in 0..(8 * size) /\ v \in 0..(8 * size)
        /\ InOutline(g, shape, style, u, v)
        /\ ~OnFrame(g, shape, style, u, v)

\* The pixel SPEC.md section 8.5 defines: every sample is looked at, and a
\* figure replaces what is under it.
Expected(p) ==
  LET in    == Cardinality(Inside(g, shape, style, p[1], p[2]))
      frame == Cardinality(Framed(g, shape, style, p[1], p[2]))
      Shown(i) == cells[i + 1].figure # "none" /\ p \in CellPixels(i)
  IN  IF \E i \in 0..15 : Shown(i)
      THEN LET i == CHOOSE i \in 0..15 : Shown(i)
               n == Cardinality(Figured(g, cells[i + 1].figure,
                                        p[1] - CellStart(g, i % 4),
                                        p[2] - CellStart(g, i \div 4)))
           IN  FigurePixel(cells[i + 1].colour, n, 16 - n)
      ELSE FramePixel(frame, in - frame)

\* Neither the shortcut in the grid area nor the table of colours shows in the
\* image: every pixel is written, and is the one of the definition
\* (raster.cpp:261-297).
ImageIsExpected ==
  pc = "drawn" => \A p \in DOMAIN rgba : rgba[p] = Expected(p)
=============================================================================
