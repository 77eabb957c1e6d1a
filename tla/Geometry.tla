------------------------------ MODULE Geometry ------------------------------
(***************************************************************************)
(* The integer geometry of src/raster.cpp: where the grid of cells lies in *)
(* an image (make_geometry), and which samples of a pixel are inside the   *)
(* outline, on the frame and in a figure.  A pixel is eight units wide and *)
(* has 4 x 4 samples at odd coordinates.                                   *)
(***************************************************************************)
EXTENDS Integers, FiniteSets

Shape == {"square", "round"}
SquareStyles == {"none", "plain", "rounded", "chamfered", "double_line",
                 "thick", "brackets"}
RoundStyles == {"none", "plain", "double_line", "thick", "ticks", "gaps"}
Style == SquareStyles \cup RoundStyles

\* frame_allowed.
FrameAllowed(style, shape) ==
  style \in IF shape = "square" THEN SquareStyles ELSE RoundStyles

Smaller(a, b) == IF a < b THEN a ELSE b
Larger(a, b) == IF a > b THEN a ELSE b
Abs(a) == IF a < 0 THEN -a ELSE a
Square(a) == a * a

-----------------------------------------------------------------------------
(* make_geometry *)

Line(size) == Larger(1, size \div 48)
Gutter(size) == Larger(1, size \div 48)

\* How many lines wide a frame of a round image is.
RingWidth(style) == IF style \in {"double_line", "thick"} THEN 3 ELSE 1

RoundMargin(size, style) == RingWidth(style) * Line(size) + Gutter(size)

\* Whether a grid of cells t wide fits in the circle inside the margin.
Fits(size, style, t) ==
  2 * Square(4 * t + 3 * Gutter(size))
    <= Square(size - 2 * RoundMargin(size, style))

\* The loop counts up as long as one more fits.
RoundCell(size, style) ==
  CHOOSE t \in 0..size : /\ ~Fits(size, style, t + 1)
                         /\ \A u \in 1..t : Fits(size, style, u)

\* Mutant: the margin of a square image is a line too small.
ThinSquareMargin(size) == Larger(2 * Line(size), size \div 24)

SquareMargin(size) == Larger(4 * Line(size), size \div 12)

SquareCell(size) == (size - 2 * SquareMargin(size) - 3 * Gutter(size)) \div 4

\* The geometry of an image with cells of a width.
GeometryOf(size, cell) ==
  LET grid == 4 * cell + 3 * Gutter(size)
  IN  [size |-> size, line |-> Line(size), gutter |-> Gutter(size),
       cell |-> cell, grid |-> grid, offset |-> (size - grid) \div 2]

MakeGeometry(size, shape, style) ==
  GeometryOf(size, IF shape = "round" THEN RoundCell(size, style)
                   ELSE SquareCell(size))

\* The pixels of the grid, gutters included, along one axis.
GridRange(g) == g.offset..(g.offset + g.grid - 1)

\* Where the cells of a column or a row begin.
CellStart(g, n) == g.offset + n * (g.cell + g.gutter)

-----------------------------------------------------------------------------
(* frame_tester *)

W8(g) == 8 * g.line
Radius(g) == 4 * g.size
Corner(g) == Smaller(16 * g.offset, 4 * g.size)
Diagonal(g) == (8 * g.line * 1414 + 500) \div 1000
Chamfer(g) == Larger(8, ((16 * g.offset - Diagonal(g) - W8(g)) \div 8) * 8)
Bracket(g) == 8 * (g.size \div 4)
Gap(g) == 8 * Larger(1, g.size \div 24)
TickEnd(g) ==
  LET inner == Radius(g) - W8(g)
  IN  inner - Larger(8, ((inner - 4 * g.grid) * 6) \div 10)

\* The distance of a sample from the nearer of two opposite sides.
Nearer(g, u) == Smaller(u, 8 * g.size - u)

InCorner(g, u, v) == Nearer(g, u) < Corner(g) /\ Nearer(g, v) < Corner(g)

\* The square of the distance from the centre of the rounded corner, and of
\* the image.
FromCorner(g, u, v) ==
  Square(Corner(g) - Nearer(g, u)) + Square(Corner(g) - Nearer(g, v))
FromCentre(g, u, v) == Square(u - Radius(g)) + Square(v - Radius(g))

InOutline(g, shape, style, u, v) ==
  IF shape = "round" THEN FromCentre(g, u, v) <= Square(Radius(g))
  ELSE IF style = "rounded"
  THEN InCorner(g, u, v) => FromCorner(g, u, v) <= Square(Corner(g))
  ELSE IF style = "chamfered"
  THEN Nearer(g, u) + Nearer(g, v) >= Chamfer(g)
  ELSE TRUE

\* How far a round frame reaches in, in lines, along the circle.
Beyond(g, lines, u, v) ==
  FromCentre(g, u, v) > Square(Radius(g) - lines * W8(g))

OnRoundFrame(g, style, u, v) ==
  LET dx == Abs(u - Radius(g))
      dy == Abs(v - Radius(g))
  IN  \/ /\ style \in {"plain", "double_line", "ticks"}
         /\ Beyond(g, 1, u, v)
      \/ /\ style = "double_line"
         /\ Beyond(g, 3, u, v) /\ ~Beyond(g, 2, u, v)
      \/ /\ style = "thick"
         /\ Beyond(g, 3, u, v)
      \/ /\ style = "gaps"
         /\ Beyond(g, 1, u, v) /\ Abs(dx - dy) >= Gap(g)
      \/ /\ style = "ticks"
         /\ \/ dx < W8(g) /\ dy >= TickEnd(g)
            \/ dy < W8(g) /\ dx >= TickEnd(g)

OnSquareFrame(g, style, u, v) ==
  LET du == Nearer(g, u)
      dv == Nearer(g, v)
      e  == Smaller(du, dv)
  IN  \/ /\ style \in {"plain", "double_line", "chamfered"}
         /\ e < W8(g)
      \/ /\ style = "double_line"
         /\ e >= 2 * W8(g) /\ e < 3 * W8(g)
      \/ /\ style = "thick"
         /\ e < 3 * W8(g)
      \/ /\ style = "brackets"
         /\ e < W8(g) /\ Larger(du, dv) < Bracket(g)
      \/ /\ style = "chamfered"
         /\ du + dv - Chamfer(g) < Diagonal(g)
      \/ /\ style = "rounded"
         /\ IF InCorner(g, u, v)
            THEN FromCorner(g, u, v) > Square(Corner(g) - W8(g))
            ELSE e < W8(g)

OnFrame(g, shape, style, u, v) ==
  IF shape = "round" THEN OnRoundFrame(g, style, u, v)
  ELSE OnSquareFrame(g, style, u, v)

-----------------------------------------------------------------------------
(* Samples *)

\* The samples of the pixel with a coordinate x, along one axis.
Samples(x) == {8 * x + 2 * i + 1 : i \in 0..3}

Inside(g, shape, style, x, y) ==
  {s \in Samples(x) \X Samples(y) : InOutline(g, shape, style, s[1], s[2])}

Framed(g, shape, style, x, y) ==
  {s \in Inside(g, shape, style, x, y) : OnFrame(g, shape, style, s[1], s[2])}

\* in_figure; h is half the width of a cell in units.
InFigure(figure, u, v, h) ==
  CASE figure = "none" -> FALSE
    [] figure = "square" -> TRUE
    [] figure = "circle" -> Square(u - h) + Square(v - h) <= Square(h)
    [] figure = "triangle_up" -> 2 * Abs(u - h) <= v
    [] figure = "triangle_down" -> 2 * Abs(u - h) <= 2 * h - v
    [] figure = "triangle_right" -> 2 * Abs(v - h) <= 2 * h - u
    [] figure = "triangle_left" -> 2 * Abs(v - h) <= u

Figured(g, figure, px, py) ==
  {s \in Samples(px) \X Samples(py) : InFigure(figure, s[1], s[2], 4 * g.cell)}
=============================================================================
