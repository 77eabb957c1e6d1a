--------------------------- MODULE GeometryProofs ---------------------------
(***************************************************************************)
(* The geometry of src/raster.cpp for every size an image can have.  What  *)
(* is computed is split from why it is enough: the first lemmas bound the  *)
(* lines and where the samples of the grid are, the others compare the     *)
(* corners of the grid with the frames.                                    *)
(***************************************************************************)
EXTENDS Geometry, TLAPS

\* A line is a pixel, or at most a 48th of the image.
LEMMA Lines ==
  ASSUME NEW s \in 16..1024
  PROVE  /\ Line(s) \in Nat /\ Line(s) >= 1
         /\ Line(s) = 1 \/ 48 * Line(s) <= s
         /\ 16 * Line(s) <= s
         /\ Gutter(s) = Line(s)
BY DEF Line, Gutter, Larger

\* A square image has a margin of four lines at least, and room for cells.
LEMMA SquareSide ==
  ASSUME NEW s \in 16..1024
  PROVE  /\ SquareCell(s) \in Nat /\ SquareCell(s) >= 1
         /\ 4 * SquareCell(s) + 3 * Gutter(s) + 8 * Line(s) <= s
<1> DEFINE w == Line(s)
           m == SquareMargin(s)
<1>1. w \in Nat /\ w >= 1 /\ (w = 1 \/ 48 * w <= s) /\ Gutter(s) = w
  BY Lines, ZenonT(120)
<1>2. m \in Nat /\ m >= 4 * w /\ (m = 4 * w \/ 12 * m <= s)
  BY <1>1 DEF SquareMargin, Larger
<1>3. SquareCell(s) = (s - 2 * m - 3 * w) \div 4
  BY <1>1 DEF SquareCell
<1> HIDE DEF w, m
<1>4. s - 2 * m - 3 * w >= 4
  BY <1>1, <1>2
<1> QED
  BY <1>1, <1>2, <1>3, <1>4 DEF w

\* The samples of the grid, along one axis.
LEMMA SamplesOfGrid ==
  ASSUME NEW o \in Int, NEW n \in Nat, NEW x \in o..(o + n - 1),
         NEW u \in Samples(x)
  PROVE  u \in Int /\ 8 * o + 1 <= u /\ u <= 8 * (o + n) - 1
<1>1. PICK i \in 0..3 : u = 8 * x + 2 * i + 1
  BY DEF Samples
<1> QED
  BY <1>1

\* Squares are in the order of the numbers they are of.
LEMMA SquaresOrdered ==
  ASSUME NEW a \in Nat, NEW b \in Nat, a <= b
  PROVE  a * a <= b * b
<1>1. a * a <= a * b
  BY Z3
<1>2. a * b <= b * b
  BY Z3
<1> QED
  BY <1>1, <1>2

\* Two squares that are not larger are no larger together.
LEMMA TwoSquares ==
  ASSUME NEW a \in Nat, NEW b \in Nat, NEW n \in Nat, a <= n, b <= n
  PROVE  a * a + b * b <= 2 * (n * n)
<1>1. a * a <= n * n /\ b * b <= n * n
  BY SquaresOrdered
<1> QED
  BY <1>1, a * a \in Nat, b * b \in Nat, n * n \in Nat

\* A square does not tell a number from its negative.
LEMMA SquareOfAbs ==
  ASSUME NEW a \in Int
  PROVE  Abs(a) \in Nat /\ Square(a) = Abs(a) * Abs(a)
<1>1. CASE a < 0
  BY <1>1, (-a) * (-a) = a * a DEF Abs, Square
<1>2. CASE a >= 0
  BY <1>2 DEF Abs, Square
<1> QED
  BY <1>1, <1>2

\* The fields of a geometry whose cells leave room for four lines on each
\* side, and the grid in the middle of it.
LEMMA Centred ==
  ASSUME NEW s \in 16..1024, NEW t \in Nat, t >= 1,
         4 * t + 3 * Gutter(s) <= s
  PROVE  LET h == GeometryOf(s, t)
         IN  /\ h.size = s /\ h.line = Line(s) /\ h.gutter = Line(s)
             /\ h.cell = t
             /\ h.grid = 4 * t + 3 * Line(s) /\ h.grid \in Nat
             /\ h.grid >= 7
             /\ h.offset \in Nat
             /\ 2 * h.offset <= s - h.grid /\ s - h.grid <= 2 * h.offset + 1
<1>1. Line(s) \in Nat /\ Line(s) >= 1 /\ Gutter(s) = Line(s)
  BY Lines, ZenonT(120)
<1> QED
  BY <1>1 DEF GeometryOf

\* The samples of the grid of a square image are further from each side than
\* the offset of the grid (raster.cpp:56-57).
LEMMA FarFromSides ==
  ASSUME NEW s \in 16..1024, NEW t \in Nat, t >= 1,
         4 * t + 3 * Gutter(s) <= s,
         NEW x \in GridRange(GeometryOf(s, t)), NEW u \in Samples(x)
  PROVE  LET h == GeometryOf(s, t)
         IN  /\ u \in 0..(8 * s)
             /\ Nearer(h, u) \in Nat /\ Nearer(h, u) >= 8 * h.offset + 1
             /\ Nearer(h, u) <= 4 * s
<1> DEFINE h == GeometryOf(s, t)
           o == h.offset
           n == h.grid
<1>1. /\ h.size = s /\ n \in Nat /\ o \in Nat
      /\ 2 * o <= s - n /\ s - n <= 2 * o + 1
  BY Centred, ZenonT(120)
<1>2. x \in o..(o + n - 1)
  BY DEF GridRange
<1>a. o \in Int /\ n \in Nat
  BY <1>1
<1> HIDE DEF h, o, n
<1>3. u \in Int /\ 8 * o + 1 <= u /\ u <= 8 * (o + n) - 1
  BY <1>a, <1>2, SamplesOfGrid, Zenon
<1>4. Nearer(h, u) = Smaller(u, 8 * s - u)
  BY <1>1 DEF Nearer
<1>5. Smaller(u, 8 * s - u) \in Nat /\ Smaller(u, 8 * s - u) >= 8 * o + 1
      /\ Smaller(u, 8 * s - u) <= 4 * s
  BY <1>1, <1>3 DEF Smaller
<1>6. u \in 0..(8 * s)
  BY <1>1, <1>3
<1> QED
  BY <1>4, <1>5, <1>6 DEF h, o

\* Two distances in a rounded corner of radius r, both more than half of the
\* radius the offset of the grid would give it.
DeepInCorner(s, w, o, du, dv, r) ==
  /\ s \in 16..1024 /\ w \in Nat /\ o \in Nat
  /\ du \in Nat /\ dv \in Nat /\ r \in Nat
  /\ w >= 1 /\ 16 * w <= s /\ o >= 4 * w /\ 2 * o <= s
  /\ r = Smaller(16 * o, 4 * s)
  /\ du >= 8 * o + 1 /\ dv >= 8 * o + 1 /\ du < r /\ dv < r

\* The corners of a rounded frame: what is further than eight offsets from two
\* sides lies inside its inner edge (raster.cpp:58-65, 104-109).
LEMMA InsideCorner ==
  ASSUME NEW s, NEW w, NEW o, NEW du, NEW dv, NEW r,
         DeepInCorner(s, w, o, du, dv, r)
  PROVE  /\ Square(r - du) + Square(r - dv) <= Square(r - 8 * w)
         /\ Square(r - 8 * w) <= Square(r)
<1> USE DEF DeepInCorner
<1>1. r <= 16 * o /\ r <= 4 * s /\ (r = 16 * o \/ r = 4 * s)
  BY DEF Smaller
<1>2. PICK k \in Nat : r - du <= 5 * k /\ r - dv <= 5 * k /\ 8 * k <= r - 8 * w
  <2>1. CASE r = 16 * o
    \* An eighth less than the radius is seven eighths of it.
    <3> DEFINE k == (7 * o) \div 4
    <3>1. k \in Nat /\ 4 * k <= 7 * o /\ 7 * o <= 4 * k + 3
      OBVIOUS
    <3>2. 8 * k <= r - 8 * w
      BY <2>1, <3>1
    <3>3. r - du <= 8 * o - 1 /\ r - dv <= 8 * o - 1
      BY <2>1
    <3>4. 8 * o - 1 <= 5 * k
      BY <3>1
    <3> QED
      BY <3>1, <3>2, <3>3, <3>4
  <2>2. CASE r = 4 * s
    <3> DEFINE k == (7 * s) \div 16
    <3>1. k \in Nat /\ 16 * k <= 7 * s /\ 7 * s <= 16 * k + 15
      OBVIOUS
    <3>2. 8 * k <= r - 8 * w
      BY <2>2, <3>1
    <3>3. 4 * s <= 16 * o
      BY <1>1, <2>2
    <3>4. r - du <= 2 * s - 1 /\ r - dv <= 2 * s - 1
      BY <2>2, <3>3
    <3>5. 2 * s - 1 <= 5 * k
      BY <3>1
    <3> QED
      BY <3>1, <3>2, <3>4, <3>5
  <2> QED
    BY <1>1, <2>1, <2>2
<1> DEFINE a == r - du
           b == r - dv
           c == r - 8 * w
<1>3. a \in Nat /\ b \in Nat /\ c \in Nat /\ c <= r
  BY <1>2
<1>4. a <= 5 * k /\ b <= 5 * k /\ 8 * k <= c
  BY <1>2
<1> HIDE DEF a, b, c
<1>5. a * a + b * b <= 2 * ((5 * k) * (5 * k))
  BY <1>3, <1>4, TwoSquares
<1>6. (8 * k) * (8 * k) <= c * c
  BY <1>3, <1>4, SquaresOrdered
<1>7. 2 * ((5 * k) * (5 * k)) <= (8 * k) * (8 * k)
  <2>1. k * k \in Nat
    OBVIOUS
  <2>2. (5 * k) * (5 * k) = 25 * (k * k) /\ (8 * k) * (8 * k) = 64 * (k * k)
    OBVIOUS
  <2> QED
    BY <2>1, <2>2
<1>8. c * c <= r * r
  BY <1>3, SquaresOrdered
<1>9. a * a + b * b <= c * c
  <2>1. a * a \in Nat /\ b * b \in Nat /\ c * c \in Nat
    BY <1>3
  <2>2. (5 * k) * (5 * k) \in Nat /\ (8 * k) * (8 * k) \in Nat
    OBVIOUS
  <2> QED
    BY <1>5, <1>6, <1>7, <2>1, <2>2
<1> QED
  BY <1>8, <1>9 DEF a, b, c, Square

\* No sample of the grid of a square image is outside or on the frame.
LEMMA SquareFrames ==
  ASSUME NEW s \in 16..1024, NEW t \in Nat, t >= 1,
         4 * t + 3 * Gutter(s) + 8 * Line(s) <= s,
         NEW f \in SquareStyles,
         NEW x \in GridRange(GeometryOf(s, t)), NEW u \in Samples(x),
         NEW y \in GridRange(GeometryOf(s, t)), NEW v \in Samples(y)
  PROVE  LET h == GeometryOf(s, t)
         IN  InOutline(h, "square", f, u, v) /\ ~OnSquareFrame(h, f, u, v)
<1> DEFINE h == GeometryOf(s, t)
           w == Line(s)
           o == h.offset
           n == h.grid
           du == Nearer(h, u)
           dv == Nearer(h, v)
<1>1. w \in Nat /\ w >= 1 /\ 16 * w <= s
  BY Lines, ZenonT(120)
<1>2. 4 * t + 3 * Gutter(s) <= s
  <2>1. Gutter(s) = w
    BY Lines, ZenonT(120)
  <2> HIDE DEF w
  <2>2. 4 * t + 3 * Gutter(s) + 8 * w <= s
    BY DEF w
  <2> QED
    BY <1>1, <2>1, <2>2
<1>3. h.size = s /\ h.line = w
  BY <1>2, Centred, ZenonT(120)
<1>4. o \in Nat /\ o >= 4 * w /\ 2 * o <= s
  <2>1. Gutter(s) = w
    BY Lines
  <2>2. o \in Nat /\ n = 4 * t + 3 * w /\ 2 * o <= s - n /\ s - n <= 2 * o + 1
    BY <1>2, Centred, ZenonT(120)
  <2> HIDE DEF h, w, o, n
  <2>3. n + 8 * w <= s
    BY <1>1, <2>1, <2>2 DEF w
  <2> QED
    BY <1>1, <2>2, <2>3
<1>5. /\ du \in Nat /\ du >= 8 * o + 1
      /\ dv \in Nat /\ dv >= 8 * o + 1
  BY <1>2, FarFromSides, ZenonT(120)
<1>6. W8(h) = 8 * w
  BY <1>3 DEF W8
<1>7. Corner(h) = Smaller(16 * o, 4 * s)
  BY <1>3 DEF Corner
<1>8. Diagonal(h) = (8 * w * 1414 + 500) \div 1000
  BY <1>3 DEF Diagonal
<1>9. Chamfer(h) = Larger(8, ((16 * o - Diagonal(h) - W8(h)) \div 8) * 8)
  BY DEF Chamfer
<1> HIDE DEF h, w, o, n, du, dv
<1>10. /\ Diagonal(h) \in Nat /\ Diagonal(h) <= 12 * w + 1
  BY <1>1, <1>8
<1>11. du + dv - Chamfer(h) >= Diagonal(h)
  BY <1>1, <1>4, <1>5, <1>6, <1>9, <1>10 DEF Larger
<1>12. Chamfer(h) \in Nat
  BY <1>1, <1>4, <1>6, <1>9, <1>10 DEF Larger
<1>13. du + dv >= Chamfer(h)
  BY <1>5, <1>10, <1>11, <1>12
<1>14. Corner(h) \in Nat
  BY <1>1, <1>4, <1>7 DEF Smaller
<1>15. InCorner(h, u, v) =>
         /\ FromCorner(h, u, v) <= Square(Corner(h) - W8(h))
         /\ Square(Corner(h) - W8(h)) <= Square(Corner(h))
  <2> HAVE InCorner(h, u, v)
  <2>1. du < Corner(h) /\ dv < Corner(h)
    BY DEF InCorner, du, dv
  <2>2. FromCorner(h, u, v) = Square(Corner(h) - du) + Square(Corner(h) - dv)
    BY DEF FromCorner, du, dv
  <2> DEFINE r == Corner(h)
  <2>3. r \in Nat /\ r = Smaller(16 * o, 4 * s) /\ du < r /\ dv < r
    BY <1>7, <1>14, <2>1
  <2> HIDE DEF r
  <2>4. /\ Square(r - du) + Square(r - dv) <= Square(r - 8 * w)
        /\ Square(r - 8 * w) <= Square(r)
    <3>1. s \in 16..1024 /\ w \in Nat /\ w >= 1 /\ 16 * w <= s
      BY <1>1
    <3>2. o \in Nat /\ o >= 4 * w /\ 2 * o <= s
      BY <1>4
    <3>3. du \in Nat /\ dv \in Nat /\ du >= 8 * o + 1 /\ dv >= 8 * o + 1
      BY <1>5
    <3>4. DeepInCorner(s, w, o, du, dv, r)
      BY <2>3, <3>1, <3>2, <3>3 DEF DeepInCorner
    <3> QED
      BY <3>4, InsideCorner
  <2> QED
    BY <1>6, <2>2, <2>4 DEF r
<1>16. Smaller(du, dv) >= 32 * w + 1 /\ Smaller(du, dv) \in Nat
  BY <1>1, <1>4, <1>5 DEF Smaller
<1>17. InOutline(h, "square", f, u, v)
  <2>1. CASE f = "rounded"
    <3>1. InCorner(h, u, v) => FromCorner(h, u, v) <= Square(Corner(h))
      <4> HAVE InCorner(h, u, v)
      <4>1. FromCorner(h, u, v) \in Int /\ Square(Corner(h)) \in Int
            /\ Square(Corner(h) - W8(h)) \in Int
        BY <1>1, <1>5, <1>6, <1>14 DEF FromCorner, Square, du, dv
      <4> QED
        BY <1>15, <4>1
    <3> QED
      BY <2>1, <3>1 DEF InOutline
  <2>2. CASE f = "chamfered"
    BY <1>13, <2>2 DEF InOutline, du, dv
  <2>3. CASE f # "rounded" /\ f # "chamfered"
    BY <2>3 DEF InOutline
  <2> QED
    BY <2>1, <2>2, <2>3
<1>18. ~OnSquareFrame(h, f, u, v)
  <2>1. /\ ~(Smaller(du, dv) < W8(h))
        /\ ~(Smaller(du, dv) < 3 * W8(h))
    BY <1>1, <1>6, <1>16
  <2>2. ~(du + dv - Chamfer(h) < Diagonal(h))
    BY <1>5, <1>10, <1>11, <1>12
  <2>3. InCorner(h, u, v) => ~(FromCorner(h, u, v) > Square(Corner(h) - W8(h)))
    <3> HAVE InCorner(h, u, v)
    <3>1. FromCorner(h, u, v) \in Int /\ Square(Corner(h) - W8(h)) \in Int
      BY <1>1, <1>5, <1>6, <1>14 DEF FromCorner, Square, du, dv
    <3> QED
      BY <1>15, <3>1
  <2> QED
    BY <2>1, <2>2, <2>3 DEF OnSquareFrame, du, dv
<1> QED
  BY <1>17, <1>18 DEF h

\* A square of side 2 a that fits in a circle of radius b still fits, three
\* units larger on each side, in a circle a pixel larger, and leaves a fifth of
\* the radius free on each side.
LEMMA SquareInCircle ==
  ASSUME NEW a \in Nat, NEW b \in Nat, 2 * (a * a) <= b * b,
         NEW dx \in Nat, NEW dy \in Nat, dx <= a + 3, dy <= a + 3
  PROVE  /\ dx * dx + dy * dy <= (b + 8) * (b + 8)
         /\ 5 * a <= 4 * b
<1>1. a * a \in Nat /\ b * b \in Nat
  OBVIOUS
<1>2. 5 * a <= 4 * b
  <2> SUFFICES ASSUME 4 * b + 1 <= 5 * a
               PROVE  FALSE
    OBVIOUS
  <2>1. (4 * b) * (4 * b) <= (5 * a) * (5 * a)
    BY SquaresOrdered, 4 * b \in Nat, 5 * a \in Nat, 4 * b <= 5 * a
  <2>2. (4 * b) * (4 * b) = 16 * (b * b) /\ (5 * a) * (5 * a) = 25 * (a * a)
    OBVIOUS
  <2>3. a * a <= 0
    BY <1>1, <2>1, <2>2
  <2>4. a >= 1
    OBVIOUS
  <2>5. 1 * 1 <= a * a
    BY <2>4, SquaresOrdered
  <2> QED
    BY <1>1, <2>3, <2>5
<1>3. dx * dx + dy * dy <= 2 * ((a + 3) * (a + 3))
  BY TwoSquares, a + 3 \in Nat
<1>4. (a + 3) * (a + 3) = a * a + 6 * a + 9
      /\ (b + 8) * (b + 8) = b * b + 16 * b + 64
  OBVIOUS
<1>5. dx * dx \in Nat /\ dy * dy \in Nat
  OBVIOUS
<1> QED
  BY <1>1, <1>2, <1>3, <1>4, <1>5

\* The samples of the grid of a round image are no further from the middle
\* lines than half the grid and three units (raster.cpp:46-47).
LEMMA NearMiddle ==
  ASSUME NEW s \in 16..1024, NEW t \in Nat, t >= 1,
         4 * t + 3 * Gutter(s) <= s,
         NEW x \in GridRange(GeometryOf(s, t)), NEW u \in Samples(x)
  PROVE  LET h == GeometryOf(s, t)
         IN  /\ u \in 0..(8 * s)
             /\ Abs(u - 4 * s) <= 4 * h.grid + 3
<1> DEFINE h == GeometryOf(s, t)
           o == h.offset
           n == h.grid
<1>1. /\ h.size = s /\ n \in Nat /\ o \in Nat
      /\ 2 * o <= s - n /\ s - n <= 2 * o + 1
  BY Centred
<1>2. x \in o..(o + n - 1)
  BY DEF GridRange
<1>a. o \in Int /\ n \in Nat
  BY <1>1
<1> HIDE DEF h, o, n
<1>3. u \in Int /\ 8 * o + 1 <= u /\ u <= 8 * (o + n) - 1
  BY <1>a, <1>2, SamplesOfGrid, Zenon
<1>4. Abs(u - 4 * s) <= 4 * n + 3
  BY <1>1, <1>3 DEF Abs
<1>5. u \in 0..(8 * s)
  BY <1>1, <1>3
<1> QED
  BY <1>4, <1>5 DEF h, n

\* What it means that cells of a width fit, in units and without a square
\* root: the grid, and the circle it is inscribed in.
LEMMA FitsInUnits ==
  ASSUME NEW s \in 16..1024, NEW t \in Nat, NEW f \in RoundStyles,
         Fits(s, f, t)
  PROVE  LET a == 4 * (4 * t + 3 * Line(s))
             b == 4 * s - 8 * RingWidth(f) * Line(s) - 8 * Line(s)
         IN  /\ a \in Nat /\ b \in Nat /\ 2 * (a * a) <= b * b
             /\ 4 * t + 3 * Gutter(s) <= s
<1> DEFINE w == Line(s)
           k == RingWidth(f)
           n == 4 * t + 3 * w
           m == s - 2 * (k * w + w)
<1>1. w \in Nat /\ w >= 1 /\ 16 * w <= s /\ Gutter(s) = w
  BY Lines, ZenonT(120)
<1>2. k \in {1, 3}
  BY DEF RingWidth
<1>3. 2 * (n * n) <= m * m
  BY <1>1 DEF Fits, RoundMargin, Square
<1> HIDE DEF w, k
<1>4. n \in Nat /\ m \in Nat /\ k * w <= 3 * w /\ k * w \in Nat /\ m <= s
  BY <1>1, <1>2
<1> HIDE DEF n, m
<1>5. (4 * n) * (4 * n) = 16 * (n * n) /\ (4 * m) * (4 * m) = 16 * (m * m)
      /\ n * n \in Nat /\ m * m \in Nat
  BY <1>4
<1>6. 2 * ((4 * n) * (4 * n)) <= (4 * m) * (4 * m)
  BY <1>3, <1>5
<1>7. 5 * n <= 4 * m
  BY <1>3, <1>4, SquareInCircle, 0 <= n + 3, 0 \in Nat
<1>8. n <= s
  BY <1>4, <1>7
<1>9. 4 * m = 4 * s - 8 * k * w - 8 * w
  BY <1>1, <1>2 DEF m
<1> QED
  BY <1>1, <1>4, <1>6, <1>8, <1>9 DEF n, w, k

\* No sample of the grid of a round image is outside or on the frame.
LEMMA RoundFrames ==
  ASSUME NEW s \in 16..1024, NEW t \in Nat, t >= 1,
         NEW f \in RoundStyles, Fits(s, f, t),
         NEW x \in GridRange(GeometryOf(s, t)), NEW u \in Samples(x),
         NEW y \in GridRange(GeometryOf(s, t)), NEW v \in Samples(y)
  PROVE  LET h == GeometryOf(s, t)
         IN  InOutline(h, "round", f, u, v) /\ ~OnRoundFrame(h, f, u, v)
<1> DEFINE h == GeometryOf(s, t)
           w == Line(s)
           k == RingWidth(f)
           n == h.grid
           a == 4 * n
           b == 4 * s - 8 * k * w - 8 * w
           dx == Abs(u - 4 * s)
           dy == Abs(v - 4 * s)
<1>1. w \in Nat /\ w >= 1 /\ 16 * w <= s
  BY Lines, ZenonT(120)
<1>2. k \in {1, 3} /\ (k = 1 => f \notin {"double_line", "thick"})
  BY DEF RingWidth
<1>3. 4 * t + 3 * Gutter(s) <= s
  BY FitsInUnits, ZenonT(120)
<1>4. h.size = s /\ h.line = w /\ n = 4 * t + 3 * w /\ n \in Nat /\ n >= 7
  BY <1>3, Centred, ZenonT(120)
<1>5. a \in Nat /\ b \in Nat /\ 2 * (a * a) <= b * b
  BY <1>4, FitsInUnits, ZenonT(120)
<1>6. u \in Int /\ v \in Int /\ dx <= a + 3 /\ dy <= a + 3
  <2>1. u \in 0..(8 * s) /\ dx <= 4 * h.grid + 3
    BY <1>3, NearMiddle, ZenonT(120)
  <2>2. v \in 0..(8 * s) /\ dy <= 4 * h.grid + 3
    BY <1>3, NearMiddle, ZenonT(120)
  <2> HIDE DEF dx, dy, h
  <2> QED
    BY <2>1, <2>2
<1>7. /\ dx \in Nat /\ Square(u - 4 * s) = dx * dx
      /\ dy \in Nat /\ Square(v - 4 * s) = dy * dy
  BY <1>6, SquareOfAbs
<1>8. Radius(h) = 4 * s /\ W8(h) = 8 * w
  BY <1>4 DEF Radius, W8
<1>9. FromCentre(h, u, v) = dx * dx + dy * dy
  BY <1>7, <1>8 DEF FromCentre
<1> HIDE DEF h, w, k, n, a, b, dx, dy
<1>10. dx * dx + dy * dy <= (b + 8) * (b + 8) /\ 5 * a <= 4 * b
  BY <1>5, <1>6, <1>7, SquareInCircle
<1>11. /\ 4 * s - 8 * w \in Nat
       /\ b + 8 <= 4 * s - 8 * w
       /\ k = 3 => b + 8 <= 4 * s - 24 * w /\ 4 * s - 24 * w \in Nat
  BY <1>1, <1>2 DEF b
\* Every circle a frame begins at is larger than the one the grid is in.
<1>12. ASSUME NEW c \in Nat, b + 8 <= c
       PROVE  ~(FromCentre(h, u, v) > Square(c))
  <2>1. (b + 8) * (b + 8) <= c * c
    BY <1>5, <1>12, b + 8 \in Nat, SquaresOrdered
  <2>2. /\ dx * dx \in Nat /\ dy * dy \in Nat
        /\ (b + 8) * (b + 8) \in Int /\ c * c \in Int
    BY <1>5, <1>7
  <2> QED
    BY <1>9, <1>10, <2>1, <2>2 DEF Square
<1>13. ~Beyond(h, 1, u, v)
  <2>1. Radius(h) - 1 * W8(h) = 4 * s - 8 * w
    BY <1>1, <1>8
  <2> QED
    BY <1>11, <1>12, <2>1 DEF Beyond
<1>14. k = 3 => ~Beyond(h, 3, u, v)
  <2> HAVE k = 3
  <2>1. Radius(h) - 3 * W8(h) = 4 * s - 24 * w
    BY <1>1, <1>8
  <2> QED
    BY <1>11, <1>12, <2>1 DEF Beyond
<1>15. InOutline(h, "round", f, u, v)
  <2>1. b + 8 <= 4 * s /\ 4 * s \in Nat
    BY <1>1, <1>5, <1>11
  <2>2. ~(FromCentre(h, u, v) > Square(4 * s))
    BY <1>12, <2>1
  <2>3. FromCentre(h, u, v) \in Int /\ Square(4 * s) \in Int
    BY <1>7, <1>9 DEF Square
  <2> QED
    BY <1>8, <2>2, <2>3 DEF InOutline
\* The ticks of a ring end before the grid begins.
<1> DEFINE inner == 4 * s - 8 * w
           cut == ((inner - a) * 6) \div 10
<1>b. TickEnd(h) = inner - Larger(8, cut)
  BY <1>8 DEF TickEnd, a, n
<1>16. k = 1 => dx < TickEnd(h) /\ dy < TickEnd(h)
  <2> HAVE k = 1
  <2>1. TickEnd(h) = inner - Larger(8, cut)
    BY <1>b
  <2>2. b = inner - 8 * w /\ inner \in Nat /\ a >= 28
    BY <1>1, <1>4, <1>11 DEF b, a
  <2> HIDE DEF inner
  <2>3. 5 * (inner - a) >= inner + 32 /\ inner >= a
    BY <1>1, <1>5, <1>10, <2>2
  <2>4. 5 * (inner - a) >= 60
    BY <1>5, <2>2, <2>3
  <2>5. Larger(8, cut) \in Nat /\ a + 3 < inner - Larger(8, cut)
    BY <1>5, <2>2, <2>3, <2>4 DEF Larger
  <2> QED
    BY <1>5, <1>6, <1>7, <2>1, <2>2, <2>5
<1>17. ~OnRoundFrame(h, f, u, v)
  <2>1. TickEnd(h) \in Int
    BY <1>1, <1>5, <1>b DEF Larger
  <2>2. f = "ticks" => ~(dy >= TickEnd(h)) /\ ~(dx >= TickEnd(h))
    BY <1>2, <1>7, <1>16, <2>1 DEF k, RingWidth
  <2>3. f \in {"double_line", "thick"} => ~Beyond(h, 3, u, v)
    BY <1>2, <1>14
  <2> QED
    BY <1>8, <1>13, <2>2, <2>3 DEF OnRoundFrame, dx, dy
<1> QED
  BY <1>15, <1>17 DEF h

\* Of the cells that fit, the narrower ones fit as well, so that the loop does
\* not miss a wider one.
LEMMA NarrowerFits ==
  ASSUME NEW s \in 16..1024, NEW f \in RoundStyles,
         NEW t \in Nat, NEW n \in Nat, n <= t, Fits(s, f, t)
  PROVE  Fits(s, f, n)
<1> DEFINE w == Line(s)
           a == 4 * n + 3 * w
           b == 4 * t + 3 * w
           m == Square(s - 2 * RoundMargin(s, f))
<1>1. w \in Nat /\ Gutter(s) = w
  BY Lines, ZenonT(120)
<1>2. m \in Int
  BY <1>1 DEF RoundMargin, RingWidth, Square, Line, Larger
<1>3. 2 * (b * b) <= m
  BY <1>1 DEF Fits, Square
<1>4. a \in Nat /\ b \in Nat /\ a <= b
  BY <1>1
<1> HIDE DEF a, b, m
<1>5. a * a <= b * b /\ a * a \in Nat /\ b * b \in Nat
  BY <1>4, SquaresOrdered
<1>6. 2 * (a * a) <= m
  BY <1>2, <1>3, <1>5
<1> QED
  BY <1>1, <1>6 DEF Fits, Square, a, m

\* The smallest cell fits unless a thick ring leaves less than ten pixels.
LEMMA SmallestCell ==
  ASSUME NEW s \in 16..1024, NEW f \in RoundStyles
  PROVE  Fits(s, f, 1) <=> ~(f \in {"double_line", "thick"} /\ s < 18)
<1> DEFINE w == Line(s)
           k == RingWidth(f)
           m == s - 2 * (k * w + w)
           a == 4 + 3 * w
<1>1. w \in Nat /\ w >= 1 /\ (w = 1 \/ 48 * w <= s) /\ Gutter(s) = w
  BY Lines, ZenonT(120)
<1>2. /\ k \in {1, 3}
      /\ k = 3 <=> f \in {"double_line", "thick"}
  BY DEF RingWidth
<1>3. Fits(s, f, 1) <=> 2 * (a * a) <= m * m
  BY <1>1 DEF Fits, Square, RoundMargin
<1>4. CASE w = 1
  <2>1. a = 7 /\ m = s - 2 * k - 2
    BY <1>2, <1>4
  <2>2. m \in Nat /\ (m >= 10 \/ m <= 9)
    BY <1>2, <2>1
  <2>3. m >= 10 <=> ~(k = 3 /\ s < 18)
    BY <1>2, <2>1
  <2> HIDE DEF m, a
  <2>4. CASE m >= 10
    <3>1. 10 * 10 <= m * m
      BY <2>2, <2>4, SquaresOrdered
    <3> QED
      BY <1>2, <1>3, <2>1, <2>2, <2>3, <2>4, <3>1, m * m \in Nat
  <2>5. CASE m <= 9
    <3>1. m * m <= 9 * 9
      BY <2>2, <2>5, SquaresOrdered
    <3>2. ~(m >= 10)
      BY <2>2, <2>5
    <3>3. ~(2 * (a * a) <= m * m)
      BY <2>1, <2>2, <3>1, m * m \in Nat
    <3> QED
      BY <1>2, <1>3, <2>3, <3>2, <3>3
  <2> QED
    BY <2>2, <2>4, <2>5
<1>5. CASE w # 1
  <2>1. s >= 96 /\ 48 * w <= s /\ w >= 2
    BY <1>1, <1>5
  <2>2. m \in Nat /\ a \in Nat /\ 2 * a <= m
    BY <1>1, <1>2, <2>1
  <2> HIDE DEF m, a
  <2>3. (2 * a) * (2 * a) <= m * m
    BY <2>2, SquaresOrdered, 2 * a \in Nat
  <2>4. (2 * a) * (2 * a) = 4 * (a * a) /\ a * a \in Nat /\ m * m \in Nat
    BY <2>2
  <2>5. 2 * (a * a) <= m * m
    BY <2>3, <2>4
  <2> QED
    BY <1>3, <2>1, <2>5
<1> QED
  BY <1>4, <1>5
=============================================================================
