----------------------------- MODULE ToolProofs -----------------------------
(***************************************************************************)
(* Proofs about the two tools, for every plan, build, list of arguments    *)
(* and file of cases.                                                      *)
(*                                                                         *)
(* gen_vectors: a check tells exactly whether the vectors there are those  *)
(* of the build, and a file is written whole or its failure is noticed.    *)
(*                                                                         *)
(* hh_cli: the loop over the characters of a line finds the fields the     *)
(* format defines by positions (SplitByFormat); a number that is cut off   *)
(* is answered like the number itself (SaysIs); BatchIInv then relates the *)
(* lines of output and the files to the cases read, and SingleIInv the     *)
(* request to the arguments read.                                          *)
(***************************************************************************)
EXTENDS CommandLine, Vectors, SequenceTheorems, FiniteSetTheorems,
        WellFoundedInduction, TLAPS

-----------------------------------------------------------------------------
(* Numbers and sequences *)

\* Sets of natural numbers have a least one: the initial segments up to their
\* members are finite, and so well ordered by inclusion.
LEMMA Least ==
  ASSUME NEW T \in SUBSET Nat, T # {}
  PROVE  \E k \in T : \A m \in T : k <= m
<1> DEFINE F == {0..k : k \in T}
<1>1. F \subseteq FiniteSubsetsOf(Nat) /\ F # {}
  <2>1. ASSUME NEW k \in T PROVE 0..k \in FiniteSubsetsOf(Nat)
    BY FS_Interval DEF FiniteSubsetsOf
  <2> QED
    BY <2>1
<1>2. PICK x \in F : \A y \in F : <<y, x>> \notin StrictSubsetOrdering(Nat)
  <2> HIDE DEF F
  <2> QED
    BY <1>1, WFMin, FS_StrictSubsetOrderingWellFounded
<1>3. PICK k \in T : x = 0..k
  OBVIOUS
<1>4. ASSUME NEW m \in T PROVE k <= m
  <2> SUFFICES ASSUME m < k PROVE FALSE
    OBVIOUS
  <2>1. 0..m \in F
    OBVIOUS
  <2>2. /\ 0..m \in SUBSET Nat /\ 0..k \in SUBSET Nat
        /\ 0..m \subseteq 0..k /\ k \in 0..k /\ k \notin 0..m
    OBVIOUS
  <2>3. <<0..m, 0..k>> \in StrictSubsetOrdering(Nat)
    BY <2>2 DEF StrictSubsetOrdering
  <2> QED
    BY <1>2, <1>3, <2>1, <2>3
<1> QED
  BY <1>4

\* Induction over a set of numbers.
LEMMA Induct ==
  ASSUME NEW T \in SUBSET Nat, 0 \in T, \A k \in T : k + 1 \in T
  PROVE  T = Nat
<1> SUFFICES ASSUME T # Nat PROVE FALSE
  OBVIOUS
<1>1. PICK k \in Nat \ T : \A m \in Nat \ T : k <= m
  BY Least
<1>2. k # 0 /\ k - 1 \in Nat /\ k - 1 \in T
  BY <1>1
<1> QED
  BY <1>1, <1>2

\* A function that starts with a value and goes on with a step.
Recurs(f, S, first, step, k) ==
  /\ f \in [0..k -> S]
  /\ f[0] = first
  /\ \A i \in 1..k : f[i] = step[<<i, f[i - 1]>>]

\* What is defined by recursion over the first numbers is there.
LEMMA Recursion ==
  ASSUME NEW S, NEW first \in S, NEW step \in [Nat \X S -> S], NEW k \in Nat
  PROVE  \E f : Recurs(f, S, first, step, k)
<1> DEFINE Is(f, m) == f[0] = first /\ \A i \in 1..m : f[i] = step[<<i, f[i - 1]>>]
           T == {m \in Nat : \E f \in [0..m -> S] : Is(f, m)}
<1>1. 0 \in T
  <2> DEFINE f == [i \in 0..0 |-> first]
  <2>1. f \in [0..0 -> S] /\ Is(f, 0)
    OBVIOUS
  <2> QED
    BY <2>1
<1>2. ASSUME NEW m \in T PROVE m + 1 \in T
  <2>1. PICK f \in [0..m -> S] : Is(f, m)
    OBVIOUS
  <2> DEFINE g == [i \in 0..(m + 1) |-> IF i = m + 1 THEN step[<<i, f[m]>>] ELSE f[i]]
  <2>2. \A i \in 0..(m + 1) : g[i] \in S
    <3>1. f[m] \in S /\ m + 1 \in Nat /\ step[<<m + 1, f[m]>>] \in S
      OBVIOUS
    <3>2. \A i \in 0..(m + 1) : i # m + 1 => i \in 0..m
      OBVIOUS
    <3> QED
      BY <3>1, <3>2
  <2>3. g[0] = first
    BY <2>1
  <2>4. ASSUME NEW i \in 1..(m + 1) PROVE g[i] = step[<<i, g[i - 1]>>]
    <3>1. i \in 0..(m + 1) /\ i - 1 \in 0..(m + 1) /\ i - 1 # m + 1
      OBVIOUS
    <3>2. g[i - 1] = f[i - 1]
      BY <3>1
    <3>3. CASE i = m + 1
      BY <3>1, <3>2, <3>3
    <3>4. CASE i # m + 1
      <4>1. i \in 1..m /\ g[i] = f[i]
        BY <3>1, <3>4
      <4> QED
        BY <2>1, <3>2, <4>1
    <3> QED
      BY <3>3, <3>4
  <2>5. g \in [0..(m + 1) -> S]
    BY <2>2
  <2> HIDE DEF g
  <2>6. \E h \in [0..(m + 1) -> S] : Is(h, m + 1)
    BY <2>3, <2>4, <2>5
  <2> QED
    BY <2>6
<1>3. T = Nat
  <2> HIDE DEF T
  <2> QED
    BY <1>1, <1>2, Induct DEF T
<1> QED
  BY <1>3 DEF Recurs

\* The pieces of a flattened sequence are put one behind the other.
LEMMA FlattenIs ==
  ASSUME NEW S, NEW pieces \in Seq(Seq(S)), Len(pieces) # 0
  PROVE  \E f \in [1..Len(pieces) -> Seq(S)] :
           /\ f[1] = pieces[1]
           /\ \A i \in 2..Len(pieces) : f[i] = f[i - 1] \o pieces[i]
           /\ FlattenSeq(pieces) = f[Len(pieces)]
<1> DEFINE Is(f) == f = [i \in 1..Len(pieces) |->
                           IF i = 1 THEN pieces[1] ELSE f[i - 1] \o pieces[i]]
<1>1. Len(pieces) \in Nat \ {0} /\ \A i \in 1..Len(pieces) : pieces[i] \in Seq(S)
  BY LenProperties, ElementOfSeq
<1>2. PICK z : z = Len(pieces)
  OBVIOUS
<1> DEFINE step == [p \in Nat \X Seq(S) |->
                      IF p[1] + 1 \in 1..z THEN p[2] \o pieces[p[1] + 1] ELSE p[2]]
<1>3. step \in [Nat \X Seq(S) -> Seq(S)]
  BY <1>1, <1>2, ConcatProperties
<1>4. \A i \in Nat, s \in Seq(S) : i + 1 \in 1..z => step[<<i, s>>] = s \o pieces[i + 1]
  OBVIOUS
<1> HIDE DEF step
<1>5. PICK g \in [0..(z - 1) -> Seq(S)] :
        g[0] = pieces[1] /\ \A i \in 1..(z - 1) : g[i] = step[<<i, g[i - 1]>>]
  <2>1. pieces[1] \in Seq(S) /\ z - 1 \in Nat
    BY <1>1, <1>2
  <2>2. PICK first, last : first = pieces[1] /\ last = z - 1
    OBVIOUS
  <2>3. \E g : Recurs(g, Seq(S), first, step, last)
    BY <1>3, <2>1, <2>2, Recursion
  <2> QED
    BY <2>2, <2>3 DEF Recurs
<1> DEFINE f == [i \in 1..z |-> g[i - 1]]
<1>6. f \in [1..z -> Seq(S)] /\ f[1] = pieces[1]
  BY <1>1, <1>2, <1>5
<1>7. ASSUME NEW i \in 2..z PROVE f[i] = f[i - 1] \o pieces[i]
  <2>1. /\ i - 1 \in 1..(z - 1) /\ i - 1 \in Nat /\ (i - 1) + 1 = i /\ i \in 1..z
        /\ (i - 1) - 1 \in 0..(z - 1) /\ i - 1 \in 1..z
    BY <1>1, <1>2
  <2>2. f[i] = g[i - 1] /\ f[i - 1] = g[(i - 1) - 1] /\ g[(i - 1) - 1] \in Seq(S)
    BY <2>1
  <2>3. g[i - 1] = step[<<i - 1, g[(i - 1) - 1]>>]
    BY <1>5, <2>1
  <2>4. step[<<i - 1, g[(i - 1) - 1]>>] = g[(i - 1) - 1] \o pieces[(i - 1) + 1]
    BY <1>4, <2>1, <2>2
  <2> QED
    BY <2>1, <2>2, <2>3, <2>4
<1>8. Is(f)
  <2>1. \A i \in 1..z : f[i] = IF i = 1 THEN pieces[1] ELSE f[i - 1] \o pieces[i]
    <3>1. \A i \in 1..z : i # 1 => i \in 2..z
      BY <1>1, <1>2
    <3> HIDE DEF f
    <3> QED
      BY <1>6, <1>7, <3>1
  <2> QED
    BY <1>2, <2>1
<1> HIDE DEF f
<1>9. \E e : Is(e)
  BY <1>8
<1> DEFINE u == CHOOSE e : Is(e)
<1>10. Is(u)
  BY <1>9
<1>11. FlattenSeq(pieces) = u[z]
  <2>1. u = CHOOSE e : e = [i \in 1..Len(pieces) |->
                              IF i = 1 THEN pieces[i] ELSE e[i - 1] \o pieces[i]]
    <3>1. ASSUME NEW e
          PROVE  [i \in 1..Len(pieces) |-> IF i = 1 THEN pieces[1] ELSE e[i - 1] \o pieces[i]]
                 = [i \in 1..Len(pieces) |-> IF i = 1 THEN pieces[i] ELSE e[i - 1] \o pieces[i]]
      OBVIOUS
    <3> QED
      BY <3>1
  <2> HIDE DEF u
  <2> QED
    BY <1>2, <2>1 DEF FlattenSeq
<1> HIDE DEF u
<1> DEFINE T == {k \in Nat : k + 1 \in 1..z => u[k + 1] = f[k + 1]}
<1>12. T = Nat
  <2>1. 0 \in T
    BY <1>1, <1>2, <1>6, <1>10
  <2>2. ASSUME NEW k \in T PROVE k + 1 \in T
    <3> SUFFICES ASSUME (k + 1) + 1 \in 1..z PROVE u[(k + 1) + 1] = f[(k + 1) + 1]
      OBVIOUS
    <3>1. k + 1 \in 1..z /\ (k + 1) + 1 # 1 /\ ((k + 1) + 1) - 1 = k + 1
      BY <1>1, <1>2
    <3>2. u[k + 1] = f[k + 1]
      BY <3>1
    <3>3. u[(k + 1) + 1] = u[k + 1] \o pieces[(k + 1) + 1]
      BY <1>2, <1>10, <3>1
    <3>4. f[(k + 1) + 1] = f[k + 1] \o pieces[(k + 1) + 1]
      BY <1>2, <1>8, <3>1
    <3> QED
      BY <3>2, <3>3, <3>4
  <2> HIDE DEF T
  <2> QED
    BY <2>1, <2>2, Induct DEF T
<1>13. u[z] = f[z]
  <2>1. z - 1 \in Nat /\ (z - 1) + 1 \in 1..z /\ (z - 1) + 1 = z
    BY <1>1, <1>2
  <2>2. u[(z - 1) + 1] = f[(z - 1) + 1]
    BY <1>12, <2>1
  <2> QED
    BY <2>1, <2>2
<1> QED
  BY <1>2, <1>6, <1>7, <1>11, <1>13

\* A sequence of pieces is flattened to a sequence.
LEMMA FlattenType ==
  ASSUME NEW S, NEW pieces \in Seq(Seq(S))
  PROVE  FlattenSeq(pieces) \in Seq(S)
<1>1. CASE Len(pieces) = 0
  <2>1. pieces = <<>> /\ FlattenSeq(pieces) = pieces
    BY <1>1, EmptySeq DEF FlattenSeq
  <2> QED
    BY <2>1, EmptySeq
<1>2. CASE Len(pieces) # 0
  <2>1. Len(pieces) \in Nat \ {0}
    BY <1>2, LenProperties
  <2>2. PICK k : k = Len(pieces)
    OBVIOUS
  <2>3. \E f \in [1..k -> Seq(S)] : FlattenSeq(pieces) = f[k]
    BY <1>2, <2>2, FlattenIs
  <2> QED
    BY <2>1, <2>2, <2>3
<1> QED
  BY <1>1, <1>2

-----------------------------------------------------------------------------
(* The records of gen_vectors *)

Answers == {"ok", "invalid_hex", "invalid_key", "invalid_size", "invalid_frame",
            "low_contrast", "empty_input", "input_too_large", "invalid_quality",
            "invalid_image"}

\* The records but for the golden pictures, with what they ask for.
Derivations == [kind : {"D"}, name : Nat, size : Nat]
Words == [kind : {"H", "K", "C"}, code : Answers]
Renders == [kind : {"R"}, fp : Prints, size : Nat, options : Options, quality : Nat]
Refusals == [kind : {"E"}, fp : Prints, size : Nat, options : Options, quality : Nat,
             expected : Answers]
Sweeps == [kind : {"W"}, fp : Prints, options : Options, first : Nat, last : Nat]
Inputs == [kind : {"F"}, operation : {"digest"}, size : Nat, expected : Answers]
Pictures == [kind : {"I", "F"}, operation : {"image"}, width : Nat, height : Nat,
             length : Nat, quality : Int, expected : Answers]

Ordinary == Derivations \cup Words \cup Renders \cup Refusals \cup Sweeps \cup Inputs
              \cup Pictures
GoldenPictures ==
  [kind : {"G"}, name : STRING \ {"table"}, fp : Prints, size : Nat, options : Options,
   quality : Nat]

\* The frames that are drawn, and the looks.
LEMMA LookType ==
  ASSUME NEW shape \in Shape, NEW frame \in Style \cup {"automatic"}
  PROVE  /\ With(shape, frame) \in Options /\ Clear(shape, frame) \in Options
         /\ Faint(frame, shape) \in Options /\ Default \in Options
  BY DEF With, Clear, Faint, Default, Look, Options, AnyShape, AnyStyle, Shape

\* Records with every size for every look.
LEMMA AcrossType ==
  ASSUME NEW fp \in {"universal", "keyed"}, NEW looks \in Seq(Options), NEW sizes \in Seq(Nat)
  PROVE  Across(fp, looks, sizes) \in Seq(Renders)
<1>1. ASSUME NEW look \in Options, NEW size \in Nat PROVE RenderOf(fp, size, look, 92) \in Renders
  BY DEF RenderOf, Renders, Prints
<1> DEFINE LookRow(l) == [s \in DOMAIN sizes |-> RenderOf(fp, sizes[s], looks[l], 92)]
<1>2. /\ Len(looks) \in Nat /\ DOMAIN looks = 1..Len(looks)
      /\ Len(sizes) \in Nat /\ DOMAIN sizes = 1..Len(sizes)
  BY LenProperties
<1>3. ASSUME NEW l \in DOMAIN looks PROVE LookRow(l) \in Seq(Renders)
  <2>1. \A s \in DOMAIN sizes : RenderOf(fp, sizes[s], looks[l], 92) \in Renders
    BY <1>1, <1>2, ElementOfSeq
  <2> QED
    BY <1>2, <2>1
<1> HIDE DEF LookRow
<1>4. [l \in DOMAIN looks |-> LookRow(l)] \in Seq(Seq(Renders))
  BY <1>2, <1>3
<1> QED
  BY <1>4, FlattenType DEF Across, LookRow

\* What is rendered.
LEMMA RenderPlanType == RenderPlan \in Seq(Renders)
<1>1. \A looks \in Seq(Options), sizes \in Seq(Nat) :
        /\ Across("universal", looks, sizes) \in Seq(Renders)
        /\ Across("keyed", looks, sizes) \in Seq(Renders)
  BY AcrossType
<1>2. /\ Default \in Options /\ Clear("square", "automatic") \in Options
      /\ Clear("round", "automatic") \in Options /\ With("square", "plain") \in Options
      /\ With("round", "none") \in Options /\ With("round", "plain") \in Options
      /\ Clear("round", "ticks") \in Options /\ With("square", "rounded") \in Options
      /\ With("round", "thick") \in Options /\ With("round", "gaps") \in Options
      /\ Clear("square", "double_line") \in Options /\ Clear("round", "double_line") \in Options
      /\ With("square", "thick") \in Options /\ Clear("round", "thick") \in Options
  BY LookType DEF Shape, Style, SquareStyles, RoundStyles
<1>3. ASSUME NEW shape \in Shape, NEW frames \in Seq(Style) PROVE Styles(shape, frames) \in Seq(Options)
  <2>1. Len(frames) \in Nat /\ DOMAIN frames = 1..Len(frames)
    BY LenProperties
  <2>2. \A i \in DOMAIN frames : With(shape, frames[i]) \in Options
    BY <2>1, ElementOfSeq, LookType
  <2> QED
    BY <2>1, <2>2 DEF Styles
<1>4. /\ SquareFrames \in Seq(Style) /\ RoundFrames \in Seq(Style)
      /\ SubSeq(SquareFrames, 3, 7) \in Seq(Style) /\ SubSeq(RoundFrames, 3, 6) \in Seq(Style)
  BY DEF SquareFrames, RoundFrames, Style, SquareStyles, RoundStyles
<1>6. /\ Styles("square", SquareFrames) \in Seq(Options) /\ Styles("round", RoundFrames) \in Seq(Options)
      /\ Styles("square", SubSeq(SquareFrames, 3, 7)) \in Seq(Options)
      /\ Styles("round", SubSeq(RoundFrames, 3, 6)) \in Seq(Options)
  BY <1>3, <1>4 DEF Shape
<1> DEFINE long == <<16, 32, 48, 64, 128, 256, 1024>>
           wide == <<32, 64, 128, 1024>>
           page == <<1024>>
<1>5. long \in Seq(Nat) /\ wide \in Seq(Nat) /\ page \in Seq(Nat)
  OBVIOUS
<1> HIDE DEF long, wide, page
<1> DEFINE p1 == Across("universal", <<Default>>, long)
           p2 == Across("keyed", <<Default>>, long)
           p3 == Across("universal", <<Clear("square", "automatic")>>, wide)
           p4 == Across("keyed", <<Clear("round", "automatic")>>, wide)
           p5 == Across("keyed", Styles("square", SquareFrames), <<31, 64, 128>>)
           p6 == Across("keyed", Styles("round", RoundFrames), <<33, 64, 128>>)
           p7 == Across("universal", <<With("square", "plain")>>, <<48, 128>>)
           p8 == Across("universal", Styles("square", SubSeq(SquareFrames, 3, 7)), <<64>>)
           p9 == Across("universal", Styles("round", SubSeq(RoundFrames, 3, 6)), <<64>>)
           p10 == Across("universal", <<With("round", "none")>>, <<64>>)
           p11 == Across("universal", <<With("round", "plain")>>, <<128>>)
           p12 == Across("keyed", <<Clear("round", "ticks")>>, page)
           p13 == Across("keyed", <<With("square", "rounded")>>, <<17, 18>>)
           p14 == Across("keyed", <<With("round", "thick")>>, <<18>>)
           p15 == Across("keyed", <<With("round", "gaps")>>, <<16>>)
           p16 == Across("keyed", <<Default, Default, Default>>, <<128>>)
           p17 == Across("keyed", <<Clear("square", "double_line"), Clear("round", "double_line"),
                                    With("square", "thick"), Clear("round", "ticks")>>, <<96>>)
           p18 == Across("universal", <<Default, Clear("square", "automatic")>>, <<128>>)
           p19 == Across("keyed", <<With("round", "gaps")>>, <<200>>)
           p20 == Across("universal", <<Default, Default>>, <<64>>)
           p21 == Across("keyed", <<Default>>, <<64>>)
           p22 == Across("universal", <<Default, Default>>, <<128>>)
           p23 == [i \in 1..3 |-> RenderOf("universal", 64, Default, <<50, 75, 100>>[i])]
           p24 == <<RenderOf("keyed", 64, Clear("square", "automatic"), 92),
                    RenderOf("keyed", 50, Clear("round", "thick"), 60)>>
           R == Seq(Renders)
<1>7. p1 \in R
  <2>1. <<Default>> \in Seq(Options)
    BY <1>2
  <2>2. long \in Seq(Nat)
    BY <1>5
  <2> QED
    BY <2>1, <2>2, AcrossType, Zenon
<1>8. p2 \in R
  <2>1. <<Default>> \in Seq(Options)
    BY <1>2
  <2>2. long \in Seq(Nat)
    BY <1>5
  <2> QED
    BY <2>1, <2>2, AcrossType, Zenon
<1>9. p3 \in R
  <2>1. <<Clear("square", "automatic")>> \in Seq(Options)
    BY <1>2
  <2>2. wide \in Seq(Nat)
    BY <1>5
  <2> QED
    BY <2>1, <2>2, AcrossType, Zenon
<1>10. p4 \in R
  <2>1. <<Clear("round", "automatic")>> \in Seq(Options)
    BY <1>2
  <2>2. wide \in Seq(Nat)
    BY <1>5
  <2> QED
    BY <2>1, <2>2, AcrossType, Zenon
<1>11. p5 \in R
  <2>1. Styles("square", SquareFrames) \in Seq(Options)
    BY <1>6
  <2>2. <<31, 64, 128>> \in Seq(Nat)
    OBVIOUS
  <2> QED
    BY <2>1, <2>2, AcrossType, Zenon
<1>12. p6 \in R
  <2>1. Styles("round", RoundFrames) \in Seq(Options)
    BY <1>6
  <2>2. <<33, 64, 128>> \in Seq(Nat)
    OBVIOUS
  <2> QED
    BY <2>1, <2>2, AcrossType, Zenon
<1>13. p7 \in R
  <2>1. <<With("square", "plain")>> \in Seq(Options)
    BY <1>2
  <2>2. <<48, 128>> \in Seq(Nat)
    OBVIOUS
  <2> QED
    BY <2>1, <2>2, AcrossType, Zenon
<1>14. p8 \in R
  <2>1. Styles("square", SubSeq(SquareFrames, 3, 7)) \in Seq(Options)
    BY <1>6
  <2>2. <<64>> \in Seq(Nat)
    OBVIOUS
  <2> QED
    BY <2>1, <2>2, AcrossType, Zenon
<1>15. p9 \in R
  <2>1. Styles("round", SubSeq(RoundFrames, 3, 6)) \in Seq(Options)
    BY <1>6
  <2>2. <<64>> \in Seq(Nat)
    OBVIOUS
  <2> QED
    BY <2>1, <2>2, AcrossType, Zenon
<1>16. p10 \in R
  <2>1. <<With("round", "none")>> \in Seq(Options)
    BY <1>2
  <2>2. <<64>> \in Seq(Nat)
    OBVIOUS
  <2> QED
    BY <2>1, <2>2, AcrossType, Zenon
<1>17. p11 \in R
  <2>1. <<With("round", "plain")>> \in Seq(Options)
    BY <1>2
  <2>2. <<128>> \in Seq(Nat)
    OBVIOUS
  <2> QED
    BY <2>1, <2>2, AcrossType, Zenon
<1>18. p12 \in R
  <2>1. <<Clear("round", "ticks")>> \in Seq(Options)
    BY <1>2
  <2>2. page \in Seq(Nat)
    BY <1>5
  <2> QED
    BY <2>1, <2>2, AcrossType, Zenon
<1>19. p13 \in R
  <2>1. <<With("square", "rounded")>> \in Seq(Options)
    BY <1>2
  <2>2. <<17, 18>> \in Seq(Nat)
    OBVIOUS
  <2> QED
    BY <2>1, <2>2, AcrossType, Zenon
<1>20. p14 \in R
  <2>1. <<With("round", "thick")>> \in Seq(Options)
    BY <1>2
  <2>2. <<18>> \in Seq(Nat)
    OBVIOUS
  <2> QED
    BY <2>1, <2>2, AcrossType, Zenon
<1>21. p15 \in R
  <2>1. <<With("round", "gaps")>> \in Seq(Options)
    BY <1>2
  <2>2. <<16>> \in Seq(Nat)
    OBVIOUS
  <2> QED
    BY <2>1, <2>2, AcrossType, Zenon
<1>22. p16 \in R
  <2>1. <<Default, Default, Default>> \in Seq(Options)
    BY <1>2
  <2>2. <<128>> \in Seq(Nat)
    OBVIOUS
  <2> QED
    BY <2>1, <2>2, AcrossType, Zenon
<1>23. p17 \in R
  <2>1. <<Clear("square", "double_line"), Clear("round", "double_line"),
            With("square", "thick"), Clear("round", "ticks")>> \in Seq(Options)
    BY <1>2
  <2>2. <<96>> \in Seq(Nat)
    OBVIOUS
  <2> QED
    BY <2>1, <2>2, AcrossType, Zenon
<1>24. p18 \in R
  <2>1. <<Default, Clear("square", "automatic")>> \in Seq(Options)
    BY <1>2
  <2>2. <<128>> \in Seq(Nat)
    OBVIOUS
  <2> QED
    BY <2>1, <2>2, AcrossType, Zenon
<1>25. p19 \in R
  <2>1. <<With("round", "gaps")>> \in Seq(Options)
    BY <1>2
  <2>2. <<200>> \in Seq(Nat)
    OBVIOUS
  <2> QED
    BY <2>1, <2>2, AcrossType, Zenon
<1>26. p20 \in R
  <2>1. <<Default, Default>> \in Seq(Options)
    BY <1>2
  <2>2. <<64>> \in Seq(Nat)
    OBVIOUS
  <2> QED
    BY <2>1, <2>2, AcrossType, Zenon
<1>27. p21 \in R
  <2>1. <<Default>> \in Seq(Options)
    BY <1>2
  <2>2. <<64>> \in Seq(Nat)
    OBVIOUS
  <2> QED
    BY <2>1, <2>2, AcrossType, Zenon
<1>28. p22 \in R
  <2>1. <<Default, Default>> \in Seq(Options)
    BY <1>2
  <2>2. <<128>> \in Seq(Nat)
    OBVIOUS
  <2> QED
    BY <2>1, <2>2, AcrossType, Zenon
<1>29. p23 \in R
  <2>1. \A i \in 1..3 : RenderOf("universal", 64, Default, <<50, 75, 100>>[i]) \in Renders
    BY <1>2 DEF RenderOf, Renders, Prints
  <2> QED
    BY <2>1
<1>30. p24 \in R
  BY <1>2 DEF RenderOf, Renders, Prints
<1>31. \A s, z \in R : s \o z \in R
  BY ConcatProperties
<1> DEFINE q1 == p1 \o p2 \o p3 \o p4 \o p5 \o p6
           q2 == q1 \o p7 \o p8 \o p9 \o p10 \o p11 \o p12
           q3 == q2 \o p13 \o p14 \o p15 \o p16 \o p17 \o p18
<1>32. RenderPlan = q3 \o p19 \o p20 \o p21 \o p22 \o p23 \o p24
  BY DEF RenderPlan, long, wide, page
<1> HIDE DEF p1, p2, p3, p4, p5, p6, p7, p8, p9, p10, p11, p12, p13, p14, p15, p16, p17, p18,
             p19, p20, p21, p22, p23, p24, R
<1>33. q1 \in R
  BY <1>7, <1>8, <1>9, <1>10, <1>11, <1>12, <1>31
<1> HIDE DEF q1
<1>34. q2 \in R
  BY <1>13, <1>14, <1>15, <1>16, <1>17, <1>18, <1>31, <1>33
<1> HIDE DEF q2
<1>35. q3 \in R
  BY <1>19, <1>20, <1>21, <1>22, <1>23, <1>24, <1>31,
     <1>34
<1> HIDE DEF q3
<1>36. RenderPlan \in R
  BY <1>25, <1>26, <1>27, <1>28, <1>29, <1>30, <1>31,
     <1>32, <1>35
<1> QED
  BY <1>36 DEF R

\* Derivations, words, keys and colours.
LEMMA CodedPlansType ==
  /\ DerivePlan \in Seq(Derivations)
  /\ HexPlan \in Seq(Words) /\ KeyPlan \in Seq(Words) /\ ContrastPlan \in Seq(Words)
<1>1. DerivePlan \in Seq(Derivations)
  <2> DEFINE sizes == <<20, 20, 20, 20, 20, 20, 32, 32, 21, 36, 32, 34, 42, 42, 14, 1, 1, 35, 36,
                        43, 44, 45, 1048576>>
  <2>1. sizes \in [1..23 -> Nat]
    BY SMT
  <2>2. DerivePlan = [i \in 1..23 |-> [kind |-> "D", name |-> i, size |-> sizes[i]]]
    BY SMT DEF DerivePlan
  <2> HIDE DEF sizes
  <2>3. \A i \in 1..23 : [kind |-> "D", name |-> i, size |-> sizes[i]] \in Derivations
    BY <2>1, SMT DEF Derivations
  <2> QED
    BY <2>2, <2>3, SMT
<1>2. ASSUME NEW kind \in {"H", "K", "C"}, NEW a \in Nat, NEW b \in Nat, NEW code \in Answers
      PROVE  Coded(kind, a, b, code) \in Seq(Words)
  <2>1. \A i \in 1..(a + b) :
          [kind |-> kind, code |-> IF i <= a THEN "ok" ELSE code] \in Words
    BY DEF Words, Answers
  <2> QED
    BY <2>1 DEF Coded
<1>3. HexPlan \in Seq(Words)
  BY <1>2 DEF HexPlan, Answers
<1>4. KeyPlan \in Seq(Words)
  BY <1>2 DEF KeyPlan, Answers
<1>5. ContrastPlan \in Seq(Words)
  BY <1>2 DEF ContrastPlan, Answers
<1> QED
  BY <1>1, <1>3, <1>4, <1>5

\* What is refused.
LEMMA ErrorPlanType == ErrorPlan \in Seq(Refusals)
<1>1. ASSUME NEW fp \in {"universal", "keyed"}, NEW size \in Nat, NEW look \in Options,
             NEW expected \in Answers
      PROVE  Refusal(fp, size, look, expected) \in Refusals
  BY DEF Refusal, Refusals, Prints
<1> DEFINE p1 == [i \in 1..4 |-> Refusal("universal", <<0, 15, 1025, 4096>>[i], Default, "invalid_size")]
           Of(m) == [i \in 1..5 |->
                       Refusal(<<"universal", "keyed">>[m], 64,
                               With(IF i <= 2 THEN "square" ELSE "round",
                                    <<"ticks", "gaps", "rounded", "chamfered", "brackets">>[i]),
                               "invalid_frame")]
           p2 == FlattenSeq([m \in 1..2 |-> Of(m)])
           p3 == [i \in 1..6 |-> Refusal("universal", 64, Faint("automatic", "square"), "low_contrast")]
           p4 == <<Refusal("keyed", 16, With("round", "thick"), "invalid_size"),
                   Refusal("keyed", 17, With("round", "double_line"), "invalid_size"),
                   Refusal("universal", 15, Faint("thick", "square"), "invalid_size"),
                   Refusal("universal", 64, Faint("ticks", "square"), "invalid_frame"),
                   Refusal("universal", 64, Faint("thick", "square"), "low_contrast"),
                   Refusal("keyed", 16, Faint("thick", "round"), "low_contrast")>>
<1>2. /\ Default \in Options /\ Faint("automatic", "square") \in Options
      /\ With("round", "thick") \in Options /\ With("round", "double_line") \in Options
      /\ Faint("thick", "square") \in Options /\ Faint("ticks", "square") \in Options
      /\ Faint("thick", "round") \in Options
  BY LookType DEF Shape, Style, SquareStyles, RoundStyles
<1>3. p1 \in Seq(Refusals)
  <2>1. \A i \in 1..4 : <<0, 15, 1025, 4096>>[i] \in Nat
    OBVIOUS
  <2>2. \A i \in 1..4 : Refusal("universal", <<0, 15, 1025, 4096>>[i], Default, "invalid_size") \in Refusals
    BY <1>1, <1>2, <2>1 DEF Answers
  <2> QED
    BY <2>2
<1>4. p2 \in Seq(Refusals)
  <2>1. ASSUME NEW m \in 1..2 PROVE Of(m) \in Seq(Refusals)
    <3>1. <<"universal", "keyed">>[m] \in {"universal", "keyed"}
      OBVIOUS
    <3>2. ASSUME NEW i \in 1..5
          PROVE  With(IF i <= 2 THEN "square" ELSE "round",
                      <<"ticks", "gaps", "rounded", "chamfered", "brackets">>[i]) \in Options
      <4>1. <<"ticks", "gaps", "rounded", "chamfered", "brackets">>[i] \in Style
        BY DEF Style, SquareStyles, RoundStyles
      <4> QED
        BY <4>1, LookType DEF Shape
    <3>3. \A i \in 1..5 :
            Refusal(<<"universal", "keyed">>[m], 64,
                    With(IF i <= 2 THEN "square" ELSE "round",
                         <<"ticks", "gaps", "rounded", "chamfered", "brackets">>[i]),
                    "invalid_frame") \in Refusals
      BY <1>1, <3>1, <3>2 DEF Answers
    <3> QED
      BY <3>3
  <2> HIDE DEF Of
  <2>2. [m \in 1..2 |-> Of(m)] \in Seq(Seq(Refusals))
    BY <2>1
  <2> QED
    BY <2>2, FlattenType
<1>5. p3 \in Seq(Refusals)
  <2>1. Refusal("universal", 64, Faint("automatic", "square"), "low_contrast") \in Refusals
    BY <1>1, <1>2 DEF Answers
  <2> QED
    BY <2>1
<1>6. p4 \in Seq(Refusals)
  <2>1. /\ Refusal("keyed", 16, With("round", "thick"), "invalid_size") \in Refusals
        /\ Refusal("keyed", 17, With("round", "double_line"), "invalid_size") \in Refusals
        /\ Refusal("universal", 15, Faint("thick", "square"), "invalid_size") \in Refusals
        /\ Refusal("universal", 64, Faint("ticks", "square"), "invalid_frame") \in Refusals
        /\ Refusal("universal", 64, Faint("thick", "square"), "low_contrast") \in Refusals
        /\ Refusal("keyed", 16, Faint("thick", "round"), "low_contrast") \in Refusals
    BY <1>1, <1>2 DEF Answers
  <2> QED
    BY <2>1
<1>7. ErrorPlan = p1 \o p2 \o p3 \o p4
  BY DEF ErrorPlan
<1> HIDE DEF p1, p2, p3, p4
<1>8. p1 \o p2 \in Seq(Refusals)
  BY <1>3, <1>4, ConcatProperties
<1>9. (p1 \o p2) \o p3 \in Seq(Refusals)
  BY <1>5, <1>8, ConcatProperties
<1> QED
  BY <1>6, <1>7, <1>9, ConcatProperties

\* What is drawn at every size.
LEMMA SweepPlanType == SweepPlan \in Seq(Sweeps)
<1>1. ASSUME NEW fp \in {"universal", "keyed"}, NEW look \in Options, NEW first \in Nat
      PROVE  Sweep(fp, look, first) \in Sweeps
  BY DEF Sweep, Sweeps, Prints
<1> DEFINE p1 == <<Sweep("universal", Default, 16), Sweep("keyed", Default, 16)>>
           p2 == [i \in 1..7 |-> Sweep("keyed", Clear("square", SquareFrames[i]), 16)]
           p3 == [i \in 1..4 |-> Sweep("keyed", Clear("round", <<"none", "plain", "ticks", "gaps">>[i]), 16)]
           p4 == [i \in 1..2 |-> Sweep("keyed", Clear("round", <<"double_line", "thick">>[i]), 18)]
           p5 == <<Sweep("universal", Clear("square", "rounded"), 16),
                   Sweep("universal", Clear("round", "ticks"), 16)>>
<1>2. \A shape \in Shape, frame \in Style : Clear(shape, frame) \in Options /\ Default \in Options
  BY LookType
<1>3. p1 \in Seq(Sweeps)
  <2>1. Default \in Options
    BY LookType DEF Shape, Style, SquareStyles
  <2> QED
    BY <1>1, <2>1
<1>4. p2 \in Seq(Sweeps)
  <2>1. \A i \in 1..7 : SquareFrames[i] \in Style
    BY DEF SquareFrames, Style, SquareStyles
  <2>2. \A i \in 1..7 : Sweep("keyed", Clear("square", SquareFrames[i]), 16) \in Sweeps
    BY <1>1, <1>2, <2>1 DEF Shape
  <2> QED
    BY <2>2
<1>5. p3 \in Seq(Sweeps)
  <2>1. \A i \in 1..4 : <<"none", "plain", "ticks", "gaps">>[i] \in Style
    BY DEF Style, RoundStyles
  <2>2. \A i \in 1..4 : Sweep("keyed", Clear("round", <<"none", "plain", "ticks", "gaps">>[i]), 16) \in Sweeps
    BY <1>1, <1>2, <2>1 DEF Shape
  <2> QED
    BY <2>2
<1>6. p4 \in Seq(Sweeps)
  <2>1. \A i \in 1..2 : <<"double_line", "thick">>[i] \in Style
    BY DEF Style, RoundStyles
  <2>2. \A i \in 1..2 : Sweep("keyed", Clear("round", <<"double_line", "thick">>[i]), 18) \in Sweeps
    BY <1>1, <1>2, <2>1 DEF Shape
  <2> QED
    BY <2>2
<1>7. p5 \in Seq(Sweeps)
  <2>1. Clear("square", "rounded") \in Options /\ Clear("round", "ticks") \in Options
    BY <1>2 DEF Shape, Style, SquareStyles, RoundStyles
  <2> QED
    BY <1>1, <2>1
<1>8. SweepPlan = p1 \o p2 \o p3 \o p4 \o p5
  BY DEF SweepPlan
<1> HIDE DEF p1, p2, p3, p4, p5
<1>9. p1 \o p2 \in Seq(Sweeps)
  BY <1>3, <1>4, ConcatProperties
<1>10. (p1 \o p2) \o p3 \in Seq(Sweeps)
  BY <1>5, <1>9, ConcatProperties
<1>11. ((p1 \o p2) \o p3) \o p4 \in Seq(Sweeps)
  BY <1>6, <1>10, ConcatProperties
<1> QED
  BY <1>7, <1>8, <1>11, ConcatProperties

\* What is encoded.
LEMMA ImagePlansType == ImagePlan \in Seq(Pictures) /\ FailurePlan \in Seq(Inputs \cup Pictures)
<1>1. ASSUME NEW kind \in {"I", "F"}, NEW width \in Nat, NEW height \in Nat, NEW length \in Nat,
             NEW quality \in Int, NEW expected \in Answers
      PROVE  Image(kind, width, height, length, quality, expected) \in Pictures
  BY DEF Image, Pictures
<1>2. ImagePlan \in Seq(Pictures)
  <2> DEFINE sizes == << <<1, 1>>, <<1, 1>>, <<1, 1>>, <<3, 5>>, <<5, 3>>, <<8, 8>>, <<17, 9>>,
                         <<9, 64>>, <<64, 7>>, <<300, 2>>, <<33, 33>>, <<16, 16>>, <<16, 16>>,
                         <<257, 31>> >>
             qualities == <<92, 92, 92, 92, 75, 100, 50, 77, 92, 92, 100, 50, 100, 60>>
  <2>1. /\ DOMAIN sizes = 1..14 /\ \A i \in 1..14 : qualities[i] \in Int
        /\ \A i \in 1..14 : sizes[i][1] \in Nat /\ sizes[i][2] \in Nat
    OBVIOUS
  <2>2. ImagePlan = [i \in DOMAIN sizes |-> Image("I", sizes[i][1], sizes[i][2],
                                                   4 * sizes[i][1] * sizes[i][2], qualities[i], "ok")]
    BY DEF ImagePlan
  <2> HIDE DEF sizes, qualities
  <2>3. \A w, h \in Nat : 4 * w * h \in Nat
    OBVIOUS
  <2>4. \A i \in 1..14 : Image("I", sizes[i][1], sizes[i][2],
                               4 * sizes[i][1] * sizes[i][2], qualities[i], "ok") \in Pictures
    BY <1>1, <2>1, <2>3 DEF Answers
  <2> QED
    BY <2>1, <2>2, <2>4
<1> DEFINE p1 == [i \in 1..4 |-> [kind |-> "F", operation |-> "digest",
                                  size |-> IF i <= 2 THEN 0 ELSE 1048577,
                                  expected |-> IF i <= 2 THEN "empty_input" ELSE "input_too_large"]]
           p2 == [i \in 1..5 |-> Image("F", 8, 8, 256, <<-1, 0, 49, 101, 1000>>[i], "invalid_quality")]
           Of(i) == LET s == << <<0, 1, 0>>, <<1, 0, 0>>, <<4097, 1, 16388>>, <<1, 4097, 16388>>,
                                <<2, 2, 15>>, <<2, 2, 17>>, <<2, 2, 0>> >>[i]
                    IN  Image("F", s[1], s[2], s[3], 92, "invalid_image")
           p3 == [i \in 1..7 |-> Of(i)]
<1>3. p1 \in Seq(Inputs \cup Pictures)
  <2>1. \A i \in 1..4 : p1[i] \in Inputs
    BY SMT DEF Inputs, Answers
  <2> QED
    BY <2>1, SMT
<1>4. p2 \in Seq(Inputs \cup Pictures)
  <2>1. \A i \in 1..5 : <<-1, 0, 49, 101, 1000>>[i] \in Int
    OBVIOUS
  <2>2. \A i \in 1..5 : Image("F", 8, 8, 256, <<-1, 0, 49, 101, 1000>>[i], "invalid_quality") \in Pictures
    BY <1>1, <2>1 DEF Answers
  <2> QED
    BY <2>2
<1>5. p3 \in Seq(Inputs \cup Pictures)
  <2> DEFINE t == << <<0, 1, 0>>, <<1, 0, 0>>, <<4097, 1, 16388>>, <<1, 4097, 16388>>,
                     <<2, 2, 15>>, <<2, 2, 17>>, <<2, 2, 0>> >>
  <2>1. \A i \in 1..7 : t[i][1] \in Nat /\ t[i][2] \in Nat /\ t[i][3] \in Nat
    BY SMT
  <2>2. \A i \in 1..7 : Of(i) = Image("F", t[i][1], t[i][2], t[i][3], 92, "invalid_image")
    BY SMT
  <2> HIDE DEF t, Of
  <2>3. ASSUME NEW i \in 1..7 PROVE Of(i) \in Pictures
    <3>1. PICK x, y, z \in Nat : x = t[i][1] /\ y = t[i][2] /\ z = t[i][3]
      BY <2>1
    <3>2. Image("F", x, y, z, 92, "invalid_image") \in Pictures
      BY <1>1 DEF Answers
    <3> QED
      BY <2>2, <3>1, <3>2
  <2> QED
    BY <2>3
<1>6. FailurePlan = p1 \o p2 \o p3
  BY DEF FailurePlan
<1> HIDE DEF p1, p2, p3
<1>7. p1 \o p2 \in Seq(Inputs \cup Pictures)
  BY <1>3, <1>4, ConcatProperties
<1>8. FailurePlan \in Seq(Inputs \cup Pictures)
  BY <1>5, <1>6, <1>7, ConcatProperties
<1> QED
  BY <1>2, <1>8

\* The records of the program, and the golden pictures, that have names of their own.
LEMMA PlanIs ==
  /\ Plan \in Seq(Ordinary \cup GoldenPictures)
  /\ \A i \in GoldenRecords : Plan[i].name # "table"
  /\ \A i, j \in GoldenRecords : Plan[i].name = Plan[j].name => i = j
<1> DEFINE A == DerivePlan \o HexPlan \o KeyPlan \o ContrastPlan \o RenderPlan \o ErrorPlan
                  \o SweepPlan \o ImagePlan \o FailurePlan
<1>1. /\ DerivePlan \in Seq(Ordinary) /\ HexPlan \in Seq(Ordinary) /\ KeyPlan \in Seq(Ordinary)
      /\ ContrastPlan \in Seq(Ordinary) /\ RenderPlan \in Seq(Ordinary)
      /\ ErrorPlan \in Seq(Ordinary) /\ SweepPlan \in Seq(Ordinary)
      /\ ImagePlan \in Seq(Ordinary) /\ FailurePlan \in Seq(Ordinary)
  <2>1. /\ Derivations \subseteq Ordinary /\ Words \subseteq Ordinary /\ Renders \subseteq Ordinary
        /\ Refusals \subseteq Ordinary /\ Sweeps \subseteq Ordinary
        /\ Inputs \cup Pictures \subseteq Ordinary /\ Pictures \subseteq Ordinary
    BY Zenon DEF Ordinary
  <2> QED
    BY <2>1, CodedPlansType, RenderPlanType, ErrorPlanType, SweepPlanType, ImagePlansType, SeqMonotonic
<1>2. \A s, z \in Seq(Ordinary) : s \o z \in Seq(Ordinary)
  BY ConcatProperties
<1>3. Plan = A \o GoldenPlan
  BY DEF Plan
<1>4. A \in Seq(Ordinary)
  BY <1>1, <1>2, Zenon
<1> HIDE DEF A
<1>5. GoldenPlan \in Seq(GoldenPictures)
  BY GoldenPlanAssumption DEF GoldenPictures
<1> DEFINE S == Ordinary \cup GoldenPictures
<1>6. A \in Seq(S) /\ GoldenPlan \in Seq(S)
  BY <1>4, <1>5, SeqMonotonic
<1>7. PICK a, g \in Nat : a = Len(A) /\ g = Len(GoldenPlan)
  BY <1>6, LenProperties
<1> HIDE DEF S
<1>8. /\ Plan \in Seq(S) /\ Len(Plan) = a + g
      /\ \A i \in 1..(a + g) : Plan[i] = IF i <= a THEN A[i] ELSE GoldenPlan[i - a]
  BY <1>3, <1>6, <1>7, ConcatProperties
<1>9. \A i \in 1..a : A[i].kind # "G"
  <2>1. \A i \in 1..a : A[i] \in Ordinary
    BY <1>4, <1>7, ElementOfSeq
  <2>2. \A x \in Ordinary : x.kind # "G"
    BY SMT DEF Ordinary, Derivations, Words, Renders, Refusals, Sweeps, Inputs, Pictures
  <2> QED
    BY <2>1, <2>2
<1>10. \A i \in GoldenRecords : i - a \in 1..g /\ Plan[i] = GoldenPlan[i - a]
  <2>1. DOMAIN Plan = 1..(a + g)
    BY <1>8, LenProperties
  <2> QED
    BY <1>8, <1>9, <2>1 DEF GoldenRecords
<1>11. \A i \in 1..g : GoldenPlan[i].name # "table"
  <2>1. \A i \in 1..g : GoldenPlan[i] \in GoldenPictures
    BY <1>5, <1>7, ElementOfSeq
  <2> QED
    BY <2>1 DEF GoldenPictures
<1>12. \A i, j \in GoldenRecords : Plan[i].name = Plan[j].name => i = j
  <2> SUFFICES ASSUME NEW i \in GoldenRecords, NEW j \in GoldenRecords, Plan[i].name = Plan[j].name
               PROVE  i = j
    OBVIOUS
  <2>1. DOMAIN GoldenPlan = 1..g
    BY <1>6, <1>7, LenProperties
  <2>2. i - a = j - a
    BY <1>10, <2>1, GoldenPlanAssumption
  <2>3. i \in Nat /\ j \in Nat
    BY <1>8, LenProperties DEF GoldenRecords
  <2> QED
    BY <2>2, <2>3
<1> QED
  BY <1>8, <1>10, <1>11, <1>12 DEF S

-----------------------------------------------------------------------------
(* The runs of gen_vectors *)

\* The files of a run: the table and the golden pictures.
Product == {"table"} \cup {Plan[i].name : i \in GoldenRecords}

VType ==
  /\ v_pc \in {"idle", "generate", "check", "write", "done"}
  /\ check \in BOOLEAN
  /\ record \in Nat /\ record <= Len(Plan)
  /\ failures \in Nat
  /\ ids \in [Kinds -> Nat]
  /\ disk = [table |-> disk.table, golden |-> disk.golden]

\* The records of a kind, up to one.
OfKind(kind, k) == {j \in 1..k : Plan[j].kind = kind}

\* A kind is numbered by its records so far.
NumbersFollow ==
  \A kind \in Kinds : ids[kind] = Cardinality(OfKind(kind, record))

\* As long as nothing failed the table has a row for every record.
TableFollows ==
  failures = 0 => table = [i \in 1..record |-> TableOf(build)[i]]

\* So have the pictures their bytes.
GoldenFollows ==
  failures = 0 =>
    /\ DOMAIN golden = {Plan[i].name : i \in {k \in GoldenRecords : k <= record}}
    /\ \A i \in GoldenRecords : i <= record => golden[Plan[i].name] = (i \in build.changed)

\* Files are looked at or written only when everything has been made.
AllMade ==
  v_pc \in {"check", "write"} =>
    /\ failures = 0 /\ record = Len(Plan) /\ v_rc = 0
    /\ left \subseteq Product /\ check = (v_pc = "check")

\* Those that have been are as they were made.
SameSoFar ==
  v_pc = "check" \/ (v_pc = "write" /\ ~lost) => \A f \in Product \ left : Same(f)

VectorsIInv ==
  /\ VType /\ NumbersFollow /\ TableFollows /\ GoldenFollows
  /\ AllMade /\ SameSoFar /\ CheckIsExact

\* The next record is counted if it is of the kind.
LEMMA CountNext ==
  ASSUME NEW k \in Nat, NEW kind
  PROVE  /\ Cardinality(OfKind(kind, k)) \in Nat /\ Cardinality(OfKind(kind, 0)) = 0
         /\ Plan[k + 1].kind = kind =>
              Cardinality(OfKind(kind, k + 1)) = Cardinality(OfKind(kind, k)) + 1
         /\ Plan[k + 1].kind # kind => OfKind(kind, k + 1) = OfKind(kind, k)
<1>1. IsFiniteSet(OfKind(kind, k)) /\ Cardinality(OfKind(kind, k)) \in Nat
  <2>1. IsFiniteSet(1..k) /\ OfKind(kind, k) \in SUBSET (1..k)
    BY FS_Interval DEF OfKind
  <2> QED
    BY <2>1, FS_Subset, FS_CardinalityType
<1>2. OfKind(kind, 0) = {}
  BY DEF OfKind
<1>3. ASSUME Plan[k + 1].kind = kind
      PROVE  OfKind(kind, k + 1) = OfKind(kind, k) \cup {k + 1} /\ k + 1 \notin OfKind(kind, k)
  BY <1>3 DEF OfKind
<1>4. ASSUME Plan[k + 1].kind # kind PROVE OfKind(kind, k + 1) = OfKind(kind, k)
  BY <1>4 DEF OfKind
<1>5. Plan[k + 1].kind = kind =>
        Cardinality(OfKind(kind, k + 1)) = Cardinality(OfKind(kind, k)) + 1
  BY <1>1, <1>3, FS_AddElement
<1>6. Cardinality(OfKind(kind, 0)) = 0
  BY <1>2, FS_EmptySet
<1> QED
  BY <1>1, <1>4, <1>5, <1>6

\* The plan is a sequence, and its records can be counted.
LEMMA PlanLength ==
  Len(Plan) \in Nat /\ DOMAIN Plan = 1..Len(Plan) /\ GoldenRecords \subseteq 1..Len(Plan)
  BY PlanIs, LenProperties DEF GoldenRecords

\* A record that is made keeps the numbers, and the table if it fails without a row.
LEMMA EmitKeeps ==
  ASSUME VectorsIInv, NEW kind \in Kinds, NEW row \in BOOLEAN, NEW failed \in BOOLEAN,
         Emit(kind, row, failed), row \/ failed
  PROVE  /\ VType' /\ NumbersFollow' /\ TableFollows'
         /\ record' = record + 1 /\ record + 1 \in DOMAIN Plan /\ Plan[record + 1].kind = kind
         /\ v_pc = "generate" /\ v_pc' = "generate" /\ build' = build
         /\ failures' = 0 => failures = 0 /\ ~failed
<1> USE DEF VectorsIInv
<1>1. /\ record' = record + 1 /\ record + 1 \in DOMAIN Plan /\ Plan[record + 1].kind = kind
      /\ v_pc = "generate" /\ v_pc' = "generate" /\ build' = build
      /\ record \in Nat /\ record + 1 <= Len(Plan)
  BY PlanLength DEF Emit, r, VType
<1>2. failures' \in Nat /\ (failures' = 0 => failures = 0 /\ ~failed)
  BY DEF Emit, VType
<1>3. ids \in [Kinds -> Nat] /\ ids' = [ids EXCEPT ![kind] = @ + 1]
  BY DEF Emit, VType
<1>4. VType'
  <2>1. ids' \in [Kinds -> Nat] /\ disk' = disk /\ check' = check
    BY <1>3 DEF Emit
  <2> QED
    BY <1>1, <1>2, <2>1 DEF VType
<1>5. NumbersFollow'
  <2> SUFFICES ASSUME NEW k \in Kinds
               PROVE  ids'[k] = Cardinality(OfKind(k, record + 1))
    BY <1>1 DEF NumbersFollow
  <2>1. ids[k] = Cardinality(OfKind(k, record))
    BY DEF NumbersFollow
  <2>2. CASE k = kind
    <3>1. ids'[k] = ids[k] + 1
      BY <1>3, <2>2
    <3> QED
      BY <1>1, <2>1, <2>2, <3>1, CountNext
  <2>3. CASE k # kind
    <3>1. ids'[k] = ids[k]
      BY <1>3, <2>3
    <3>2. OfKind(k, record + 1) = OfKind(k, record)
      BY <1>1, <2>3, CountNext
    <3> QED
      BY <2>1, <3>1, <3>2
  <2> QED
    BY <2>2, <2>3
<1>6. TableFollows'
  <2> SUFFICES ASSUME failures' = 0
               PROVE  table' = [i \in 1..(record + 1) |-> TableOf(build)[i]]
    BY <1>1 DEF TableFollows
  <2>1. table' = Append(table, Row) /\ table = [i \in 1..record |-> TableOf(build)[i]]
    BY <1>2 DEF Emit, TableFollows
  <2> DEFINE b == TableOf(build)
  <2>2. Row = b[record + 1]
    <3>1. NextId = IF Plan[record + 1].kind \in {"D", "G"} THEN Plan[record + 1].name
                   ELSE Cardinality({j \in 1..(record + 1) : Plan[j].kind = Plan[record + 1].kind})
      <4>1. CASE kind \in {"D", "G"}
        BY <1>1, <4>1 DEF NextId, r
      <4>2. CASE kind \notin {"D", "G"}
        <5>1. ids[kind] = Cardinality(OfKind(kind, record))
          BY DEF NumbersFollow
        <5>2. Cardinality(OfKind(kind, record + 1)) = ids[kind] + 1
          BY <1>1, <5>1, CountNext
        <5> QED
          BY <1>1, <4>2, <5>2 DEF NextId, r, OfKind
      <4> QED
        BY <4>1, <4>2
    <3>2. b[record + 1] =
            [kind |-> Plan[record + 1].kind,
             id |-> IF Plan[record + 1].kind \in {"D", "G"} THEN Plan[record + 1].name
                    ELSE Cardinality({j \in 1..(record + 1) : Plan[j].kind = Plan[record + 1].kind}),
             code |-> IF record + 1 \in build.wrong THEN Other(Codes[record + 1]) ELSE Codes[record + 1],
             value |-> ShowsValue(Plan[record + 1].kind,
                                  IF record + 1 \in build.wrong THEN Other(Codes[record + 1])
                                  ELSE Codes[record + 1])
                         /\ record + 1 \in build.changed]
      BY <1>1, Zenon DEF TableOf
    <3>3. answer = IF record + 1 \in build.wrong THEN Other(Codes[record + 1]) ELSE Codes[record + 1]
      BY DEF answer, Answer
    <3> QED
      BY <3>1, <3>2, <3>3, Zenon DEF Row, r
  <2> HIDE DEF b
  <2>3. PICK x : x = Row
    OBVIOUS
  <2> DEFINE S == {b[i] : i \in 1..(record + 1)}
  <2>4. table \in Seq(S) /\ x \in S /\ Len(table) = record
    <3>1. [i \in 1..record |-> b[i]] \in [1..record -> S]
      BY <1>1
    <3>2. x \in S
      BY <1>1, <2>2, <2>3
    <3> HIDE DEF S
    <3> QED
      BY <1>1, <2>1, <3>1, <3>2 DEF b
  <2> HIDE DEF S
  <2>5. /\ Append(table, x) \in Seq(S) /\ Len(Append(table, x)) = record + 1
        /\ \A i \in 1..record : Append(table, x)[i] = table[i]
        /\ Append(table, x)[record + 1] = x
    BY <2>4, AppendProperties
  <2>6. \A i \in 1..(record + 1) : Append(table, x)[i] = b[i]
    BY <1>1, <2>1, <2>2, <2>3, <2>5 DEF b
  <2>7. Append(table, x) = [i \in 1..(record + 1) |-> b[i]]
    BY <2>5, <2>6, LenProperties
  <2> QED
    BY <2>1, <2>3, <2>7 DEF b
<1> QED
  BY <1>1, <1>2, <1>4, <1>5, <1>6

\* A record other than a golden picture.
LEMMA OrdinaryKeeps ==
  ASSUME VectorsIInv, NEW kind \in Kinds \ {"G"}, NEW row \in BOOLEAN, NEW failed \in BOOLEAN,
         Emit(kind, row, failed), row \/ failed, UNCHANGED golden
  PROVE  VectorsIInv'
<1>1. /\ VType' /\ NumbersFollow' /\ TableFollows'
      /\ record' = record + 1 /\ record + 1 \in DOMAIN Plan /\ Plan[record + 1].kind = kind
      /\ v_pc = "generate" /\ v_pc' = "generate" /\ build' = build
      /\ failures' = 0 => failures = 0 /\ ~failed
  BY EmitKeeps
<1>2. \A i \in GoldenRecords : i <= record + 1 => i <= record
  BY <1>1, PlanLength DEF GoldenRecords, VectorsIInv, VType
<1>3. \A i \in GoldenRecords : i <= record => i <= record + 1
  BY PlanLength DEF VectorsIInv, VType
<1>4. {k \in GoldenRecords : k <= record + 1} = {k \in GoldenRecords : k <= record}
  BY <1>2, <1>3
<1>5. GoldenFollows'
  <2> SUFFICES ASSUME failures' = 0
               PROVE  /\ DOMAIN golden = {Plan[i].name : i \in {k \in GoldenRecords : k <= record + 1}}
                      /\ \A i \in GoldenRecords :
                           i <= record + 1 => golden[Plan[i].name] = (i \in build.changed)
    BY <1>1 DEF GoldenFollows
  <2>1. failures = 0
    BY <1>1
  <2> QED
    BY <1>2, <1>4, <2>1 DEF VectorsIInv, GoldenFollows
<1> QED
  BY <1>1, <1>5 DEF VectorsIInv, AllMade, SameSoFar, CheckIsExact

\* A golden picture, whose file has a name of its own.
LEMMA GoldenKeeps == VectorsIInv /\ GoldenRecord => VectorsIInv'
<1> SUFFICES ASSUME VectorsIInv, GoldenRecord PROVE VectorsIInv'
  OBVIOUS
<1>1. /\ VType' /\ NumbersFollow' /\ TableFollows'
      /\ record' = record + 1 /\ record + 1 \in DOMAIN Plan /\ Plan[record + 1].kind = "G"
      /\ v_pc = "generate" /\ v_pc' = "generate" /\ build' = build
      /\ failures' = 0 => failures = 0 /\ ~(answer # "ok")
  <2>1. Emit("G", answer = "ok", answer # "ok") /\ "G" \in Kinds
        /\ (answer = "ok") \in BOOLEAN /\ (answer # "ok") \in BOOLEAN
    BY DEF GoldenRecord, Kinds
  <2> QED
    BY <2>1, EmitKeeps, Zenon
<1>2. GoldenFollows'
  <2> SUFFICES ASSUME failures' = 0
               PROVE  /\ DOMAIN golden' = {Plan[i].name : i \in {k \in GoldenRecords : k <= record + 1}}
                      /\ \A i \in GoldenRecords :
                           i <= record + 1 => golden'[Plan[i].name] = (i \in build.changed)
    BY <1>1 DEF GoldenFollows
  <2>1. PICK z : z = record + 1
    OBVIOUS
  <2>2. golden' = [f \in DOMAIN golden \cup {Plan[z].name} |->
                     IF f = Plan[z].name THEN z \in build.changed ELSE golden[f]]
    BY <1>1, <2>1 DEF GoldenRecord, r
  <2>3. /\ DOMAIN golden = {Plan[i].name : i \in {k \in GoldenRecords : k <= record}}
        /\ \A i \in GoldenRecords : i <= record => golden[Plan[i].name] = (i \in build.changed)
    BY <1>1 DEF VectorsIInv, GoldenFollows
  <2>4. z \in GoldenRecords /\ z <= record + 1
    BY <1>1, <2>1, PlanLength DEF GoldenRecords
  <2>5. \A i \in GoldenRecords : i <= record + 1 <=> i <= record \/ i = z
    BY <2>1, PlanLength DEF VectorsIInv, VType
  <2>6. DOMAIN golden' = {Plan[i].name : i \in {k \in GoldenRecords : k <= record + 1}}
    <3>1. {k \in GoldenRecords : k <= record + 1} = {k \in GoldenRecords : k <= record} \cup {z}
      BY <2>4, <2>5
    <3>2. DOMAIN golden' = DOMAIN golden \cup {Plan[z].name}
      BY <2>2
    <3> QED
      BY <2>3, <3>1, <3>2
  <2>7. ASSUME NEW i \in GoldenRecords, i <= record + 1
        PROVE  golden'[Plan[i].name] = (i \in build.changed)
    <3>1. CASE i = z
      BY <2>2, <3>1
    <3>2. CASE i # z
      <4>1. i <= record
        BY <2>5, <2>7, <3>2
      <4>2. Plan[i].name \in DOMAIN golden /\ Plan[i].name # Plan[z].name
        BY <2>3, <2>4, <3>2, <4>1, PlanIs
      <4>3. golden'[Plan[i].name] = golden[Plan[i].name]
        BY <2>2, <4>2
      <4> QED
        BY <2>3, <4>1, <4>3
    <3> QED
      BY <3>1, <3>2
  <2> QED
    BY <2>6, <2>7
<1> QED
  BY <1>1, <1>2 DEF VectorsIInv, AllMade, SameSoFar, CheckIsExact

\* Every record has its row or fails.
LEMMA RecordsKeep ==
  ASSUME VectorsIInv,
         \/ DeriveRecord \/ HexRecord \/ KeyRecord \/ ContrastRecord \/ RenderRecord
         \/ ErrorRecord \/ SweepRecord \/ ImageRecord \/ FailureRecord
  PROVE  VectorsIInv'
<1>1. PICK ok \in BOOLEAN : ok = (answer = "ok")
  OBVIOUS
<1>2. PICK bad \in BOOLEAN : bad = (answer # "ok")
  OBVIOUS
<1>3. PICK hex \in BOOLEAN : hex = (answer = "ok" /\ record + 1 \in build.wrong)
  OBVIOUS
<1>4. PICK other \in BOOLEAN : other = (answer # r.expected)
  OBVIOUS
<1>5. /\ DeriveRecord => Emit("D", ok, bad) /\ UNCHANGED golden
      /\ RenderRecord => Emit("R", ok, bad) /\ UNCHANGED golden
      /\ SweepRecord => Emit("W", ok, bad) /\ UNCHANGED golden
      /\ ImageRecord => Emit("I", ok, bad) /\ UNCHANGED golden
  BY <1>1, <1>2 DEF DeriveRecord, RenderRecord, SweepRecord, ImageRecord
<1>6. /\ HexRecord => Emit("H", TRUE, hex) /\ UNCHANGED golden
      /\ KeyRecord => Emit("K", TRUE, FALSE) /\ UNCHANGED golden
      /\ ContrastRecord => Emit("C", TRUE, FALSE) /\ UNCHANGED golden
      /\ ErrorRecord => Emit("E", TRUE, other) /\ UNCHANGED golden
      /\ FailureRecord => Emit("F", TRUE, other) /\ UNCHANGED golden
  BY <1>3, <1>4 DEF HexRecord, KeyRecord, ContrastRecord, ErrorRecord, FailureRecord
<1>7. /\ "D" \in Kinds \ {"G"} /\ "H" \in Kinds \ {"G"} /\ "K" \in Kinds \ {"G"}
      /\ "C" \in Kinds \ {"G"} /\ "R" \in Kinds \ {"G"} /\ "W" \in Kinds \ {"G"}
      /\ "I" \in Kinds \ {"G"} /\ "E" \in Kinds \ {"G"} /\ "F" \in Kinds \ {"G"}
  BY DEF Kinds
<1>8. ASSUME NEW kind \in Kinds \ {"G"}, Emit(kind, ok, bad), UNCHANGED golden PROVE VectorsIInv'
  <2>1. ok \/ bad
    BY <1>1, <1>2
  <2> QED
    BY <1>8, <2>1, OrdinaryKeeps
<1>9. ASSUME NEW kind \in Kinds \ {"G"}, NEW failed \in BOOLEAN, Emit(kind, TRUE, failed),
             UNCHANGED golden
      PROVE  VectorsIInv'
  BY <1>9, OrdinaryKeeps
<1>10. CASE DeriveRecord
  BY <1>5, <1>7, <1>8, <1>10
<1>11. CASE HexRecord
  BY <1>6, <1>7, <1>9, <1>11
<1>12. CASE KeyRecord
  BY <1>6, <1>7, <1>9, <1>12
<1>13. CASE ContrastRecord
  BY <1>6, <1>7, <1>9, <1>13
<1>14. CASE RenderRecord
  BY <1>5, <1>7, <1>8, <1>14
<1>15. CASE SweepRecord
  BY <1>5, <1>7, <1>8, <1>15
<1>16. CASE ImageRecord
  BY <1>5, <1>7, <1>8, <1>16
<1>17. CASE ErrorRecord
  BY <1>6, <1>7, <1>9, <1>17
<1>18. CASE FailureRecord
  BY <1>6, <1>7, <1>9, <1>18
<1> QED
  BY <1>10, <1>11, <1>12, <1>13, <1>14, <1>15, <1>16, <1>17, <1>18

\* When everything has been made, the directory holds it if every file is the same.
LEMMA SameIsHolds ==
  ASSUME VectorsIInv, failures = 0, record = Len(Plan)
  PROVE  Holds(build) <=> \A f \in Product : Same(f)
<1>1. table = TableOf(build)
  <2>1. table = [i \in 1..record |-> TableOf(build)[i]]
    BY DEF VectorsIInv, TableFollows
  <2>2. DOMAIN Plan = 1..record
    BY PlanLength
  <2>3. TableOf(build) = [i \in DOMAIN Plan |-> TableOf(build)[i]]
    BY DEF TableOf
  <2> QED
    BY <2>1, <2>2, <2>3
<1>2. \A i \in GoldenRecords : golden[Plan[i].name] = (i \in build.changed)
  BY PlanLength DEF VectorsIInv, GoldenFollows
<1>3. \A i \in GoldenRecords :
        Same(Plan[i].name) <=> There(Plan[i].name)
                               /\ disk.golden[Plan[i].name].value = (i \in build.changed)
  BY <1>2, PlanIs DEF Same
<1>4. Same("table") <=> There("table") /\ disk.table[1].rows = TableOf(build)
  BY <1>1 DEF Same
<1>5. (\A f \in Product : Same(f)) <=> Same("table") /\ \A i \in GoldenRecords : Same(Plan[i].name)
  BY DEF Product
<1> QED
  BY <1>3, <1>4, <1>5, Zenon DEF Holds

\* Nothing has been made when a run starts.
LEMMA NothingMade ==
  /\ <<>> = [i \in 1..0 |-> TableOf(build)[i]] /\ <<>> = [i \in 1..0 |-> TableOf(build')[i]]
  /\ DOMAIN <<>> = {Plan[i].name : i \in {k \in GoldenRecords : k <= 0}}
  /\ \A i \in GoldenRecords : ~(i <= 0)
  /\ NoIds \in [Kinds -> Nat] /\ \A kind \in Kinds : NoIds[kind] = Cardinality(OfKind(kind, 0))
<1>1. \A i \in GoldenRecords : ~(i <= 0)
  BY PlanLength
<1>2. DOMAIN <<>> = {Plan[i].name : i \in {k \in GoldenRecords : k <= 0}}
  BY <1>1
<1>3. NoIds \in [Kinds -> Nat] /\ \A kind \in Kinds : NoIds[kind] = 0
  BY DEF NoIds
<1> QED
  BY <1>1, <1>2, <1>3, CountNext

\* At first.
LEMMA InitVectors == VectorsIdle => VectorsIInv
<1> SUFFICES ASSUME VectorsIdle PROVE VectorsIInv
  OBVIOUS
<1>1. VType
  <2>1. disk = [table |-> disk.table, golden |-> disk.golden]
    BY DEF VectorsIdle, NoFiles
  <2>2. record \in Nat /\ record <= Len(Plan) /\ failures \in Nat
    BY PlanLength DEF VectorsIdle
  <2>3. check \in BOOLEAN
    BY Zenon DEF VectorsIdle
  <2> QED
    BY <2>1, <2>2, <2>3, NothingMade DEF VectorsIdle, VType
<1>2. NumbersFollow /\ TableFollows /\ GoldenFollows
  BY NothingMade DEF VectorsIdle, NumbersFollow, TableFollows, GoldenFollows
<1> QED
  BY <1>1, <1>2 DEF VectorsIdle, VectorsIInv, AllMade, SameSoFar, CheckIsExact

\* Another run.
LEMMA InvokeKeeps == VectorsIInv /\ Invoke => VectorsIInv'
<1> SUFFICES ASSUME VectorsIInv, Invoke PROVE VectorsIInv'
  OBVIOUS
<1>1. VType'
  BY PlanLength, NothingMade DEF Invoke, VectorsIInv, VType
<1>2. NumbersFollow'
  BY NothingMade DEF Invoke, NumbersFollow
<1>3. TableFollows'
  BY NothingMade DEF Invoke, TableFollows
<1>4. GoldenFollows'
  BY NothingMade DEF Invoke, GoldenFollows
<1> QED
  BY <1>1, <1>2, <1>3, <1>4 DEF Invoke, VectorsIInv, AllMade, SameSoFar, CheckIsExact

\* The files there are to look at or to write.
LEMMA GeneratedKeeps == VectorsIInv /\ Generated => VectorsIInv'
<1> SUFFICES ASSUME VectorsIInv, Generated PROVE VectorsIInv'
  OBVIOUS
<1>1. VType'
  BY DEF Generated, VectorsIInv, VType
<1>2. NumbersFollow' /\ TableFollows' /\ GoldenFollows'
  BY DEF Generated, VectorsIInv, NumbersFollow, TableFollows, GoldenFollows
<1>3. failures = 0 => left' = Product
  <2>1. PICK z \in Nat : z = Len(Plan)
    BY PlanLength
  <2>2. \A k \in GoldenRecords : k <= z
    BY PlanLength, <2>1
  <2>3. {k \in GoldenRecords : k <= record} = GoldenRecords
    BY <2>1, <2>2 DEF Generated
  <2> QED
    BY <2>3 DEF Generated, VectorsIInv, GoldenFollows, Product
<1>4. AllMade' /\ SameSoFar'
  <2>1. Product' = Product
    BY DEF Product
  <2> QED
    BY <1>3, <2>1 DEF Generated, AllMade, SameSoFar, VectorsIInv, VType
<1>5. CheckIsExact'
  BY DEF Generated, CheckIsExact
<1> QED
  BY <1>1, <1>2, <1>4, <1>5 DEF VectorsIInv

\* The files of the directory as they were made are the same after a step that
\* leaves both alone.
LEMMA SameStays ==
  ASSUME UNCHANGED <<disk, table, golden>>, NEW f
  PROVE  Same(f)' <=> Same(f)
  BY DEF Same, There

\* One of the files left is next.
LEMMA NextIsLeft == left # {} => NextFile \in left
  BY DEF NextFile

\* A file is compared.
LEMMA CheckKeeps == VectorsIInv /\ CheckFile => VectorsIInv'
<1> SUFFICES ASSUME VectorsIInv, CheckFile PROVE VectorsIInv'
  OBVIOUS
<1>1. VType'
  BY DEF CheckFile, VectorsIInv, VType
<1>2. NumbersFollow' /\ TableFollows' /\ GoldenFollows'
  BY DEF CheckFile, VectorsIInv, NumbersFollow, TableFollows, GoldenFollows
<1>3. /\ v_pc = "check" /\ failures = 0 /\ record = Len(Plan) /\ v_rc = 0
      /\ left \subseteq Product /\ check /\ NextFile \in left
      /\ UNCHANGED <<check, build, record, failures, table, golden, disk, lost>>
  BY NextIsLeft DEF CheckFile, VectorsIInv, AllMade
<1>4. Holds(build) <=> \A f \in Product : Same(f)
  BY <1>3, SameIsHolds
<1>5. CASE Same(NextFile)
  <2>1. left' = left \ {NextFile} /\ v_pc' = "check" /\ v_rc' = 0
    BY <1>3, <1>5 DEF CheckFile
  <2>2. SameSoFar'
    <3> SUFFICES ASSUME NEW f \in Product \ left' PROVE Same(f)'
      BY DEF SameSoFar, Product
    <3>1. Same(f)
      BY <1>3, <1>5, <2>1 DEF VectorsIInv, SameSoFar
    <3> QED
      BY <1>3, <3>1, SameStays
  <2> QED
    BY <1>1, <1>2, <1>3, <2>1, <2>2 DEF VectorsIInv, AllMade, CheckIsExact
<1>6. CASE ~Same(NextFile)
  <2>1. v_pc' = "done" /\ v_rc' = 1
    BY <1>3, <1>6 DEF CheckFile
  <2>2. ~Holds(build)
    BY <1>3, <1>4, <1>6
  <2>3. ~Holds(build)'
    BY <1>3, <2>2 DEF Holds, There
  <2> QED
    BY <1>1, <1>2, <2>1, <2>3 DEF VectorsIInv, AllMade, SameSoFar, CheckIsExact
<1> QED
  BY <1>5, <1>6

\* A file that is written is there; the others stay.
LEMMA WrittenIs ==
  ASSUME VType, left # {}, left \subseteq Product, disk' = Written(NextFile, TRUE),
         UNCHANGED <<table, golden>>, NEW f \in Product, f = NextFile \/ Same(f)
  PROVE  Same(f)'
<1>1. PICK x : x = NextFile
  OBVIOUS
<1>2. disk = [table |-> disk.table, golden |-> disk.golden]
  BY DEF VType
<1>3. CASE x = "table"
  <2>1. /\ disk'.table = <<[rows |-> table, whole |-> TRUE]>> /\ disk'.golden = disk.golden
    BY <1>1, <1>2, <1>3 DEF Written
  <2>2. CASE f = "table"
    <3>1. PICK w : w = [rows |-> table, whole |-> TRUE]
      OBVIOUS
    <3>2. disk'.table = <<w>> /\ <<w>> # <<>> /\ <<w>>[1] = w
      BY <2>1, <3>1
    <3>3. w.whole /\ w.rows = table
      BY <3>1
    <3> QED
      BY <2>2, <3>2, <3>3 DEF Same, There
  <2>3. CASE f # "table"
    BY <1>1, <1>3, <2>1, <2>3 DEF Same, There
  <2> QED
    BY <2>2, <2>3
<1>4. CASE x # "table"
  <2>1. /\ disk'.table = disk.table
        /\ disk'.golden = [g \in DOMAIN disk.golden \cup {x} |->
                             IF g = x THEN [value |-> golden[g], whole |-> TRUE]
                             ELSE disk.golden[g]]
    BY <1>1, <1>2, <1>4 DEF Written
  <2>2. CASE f = "table"
    BY <1>1, <1>4, <2>1, <2>2 DEF Same, There
  <2>3. CASE f # "table" /\ f = x
    <3>1. PICK w : w = [value |-> golden[f], whole |-> TRUE]
      OBVIOUS
    <3>2. f \in DOMAIN disk'.golden /\ disk'.golden[f] = w
      BY <2>1, <2>3, <3>1
    <3>3. w.whole /\ w.value = golden'[f]
      BY <3>1
    <3> QED
      BY <2>3, <3>2, <3>3 DEF Same, There
  <2>4. CASE f # "table" /\ f # x
    <3>1. f \in DOMAIN disk.golden /\ disk.golden[f].whole /\ disk.golden[f].value = golden[f]
      BY <1>1, <2>4 DEF Same, There
    <3>2. f \in DOMAIN disk'.golden /\ disk'.golden[f] = disk.golden[f]
      BY <2>1, <2>4, <3>1
    <3> QED
      BY <2>4, <3>1, <3>2 DEF Same, There
  <2> QED
    BY <2>2, <2>3, <2>4
<1> QED
  BY <1>3, <1>4

\* The directory keeps its two parts.
LEMMA WrittenType ==
  ASSUME VType, NEW whole \in BOOLEAN, disk' = Written(NextFile, whole)
  PROVE  disk' = [table |-> disk'.table, golden |-> disk'.golden]
<1>1. PICK x : x = NextFile
  OBVIOUS
<1>2. disk = [table |-> disk.table, golden |-> disk.golden]
  BY DEF VType
<1>3. PICK a, b : a = disk.table /\ b = disk.golden
  OBVIOUS
<1>4. \E c, d : disk' = [table |-> c, golden |-> d]
  <2>1. disk = [table |-> a, golden |-> b]
    BY <1>2, <1>3
  <2>2. CASE x = "table"
    BY <1>1, <2>1, <2>2 DEF Written
  <2>3. CASE x # "table"
    <3>1. PICK d : d = [g \in DOMAIN b \cup {x} |->
                         IF g = x THEN [value |-> golden[g], whole |-> whole] ELSE b[g]]
      OBVIOUS
    <3>2. disk' = [table |-> a, golden |-> d]
      BY <1>1, <2>1, <2>3, <3>1 DEF Written
    <3> QED
      BY <3>2
  <2> QED
    BY <2>2, <2>3
<1> QED
  BY <1>4

\* A file is written, or part of it.
LEMMA WriteKeeps == VectorsIInv /\ WriteFile => VectorsIInv'
<1> SUFFICES ASSUME VectorsIInv, WriteFile PROVE VectorsIInv'
  OBVIOUS
<1>1. PICK whole \in BOOLEAN : disk' = Written(NextFile, whole) /\ lost' = (lost \/ ~whole)
  BY DEF WriteFile
<1>2. /\ v_pc = "write" /\ v_pc' = "write" /\ left # {} /\ left' = left \ {NextFile}
      /\ UNCHANGED <<check, build, record, ids, failures, table, golden, v_rc>>
  BY DEF WriteFile
<1>3. VType'
  BY <1>1, <1>2, WrittenType DEF VectorsIInv, VType
<1>4. NumbersFollow' /\ TableFollows' /\ GoldenFollows'
  BY <1>2 DEF VectorsIInv, NumbersFollow, TableFollows, GoldenFollows
<1>5. left \subseteq Product /\ AllMade'
  BY <1>2 DEF VectorsIInv, AllMade, Product
<1>6. SameSoFar'
  <2> SUFFICES ASSUME ~lost', NEW f \in Product \ left' PROVE Same(f)'
    BY <1>2 DEF SameSoFar, Product
  <2>1. ~lost /\ whole
    BY <1>1
  <2>2. disk' = Written(NextFile, TRUE)
    BY <1>1, <2>1
  <2>3. f = NextFile \/ Same(f)
    BY <1>2, <2>1 DEF VectorsIInv, SameSoFar
  <2> QED
    BY <1>2, <1>5, <2>2, <2>3, WrittenIs DEF VectorsIInv
<1> QED
  BY <1>2, <1>3, <1>4, <1>5, <1>6 DEF VectorsIInv, CheckIsExact

\* A file cannot be written, or not all of it.
LEMMA WriteFailsKeeps == VectorsIInv /\ WriteFileFails => VectorsIInv'
<1> SUFFICES ASSUME VectorsIInv, WriteFileFails PROVE VectorsIInv'
  OBVIOUS
<1>1. disk' = disk \/ disk' = Written(NextFile, FALSE)
  BY DEF WriteFileFails
<1>2. /\ v_pc = "write" /\ v_pc' = "done"
      /\ UNCHANGED <<check, build, record, ids, failures, table, golden>>
  BY DEF WriteFileFails
<1>3. disk' = [table |-> disk'.table, golden |-> disk'.golden]
  BY <1>1, WrittenType DEF VectorsIInv, VType
<1>4. VType'
  BY <1>2, <1>3 DEF VectorsIInv, VType
<1>5. NumbersFollow' /\ TableFollows' /\ GoldenFollows'
  BY <1>2 DEF VectorsIInv, NumbersFollow, TableFollows, GoldenFollows
<1>6. ~check'
  BY <1>2 DEF VectorsIInv, AllMade
<1> QED
  BY <1>2, <1>4, <1>5, <1>6 DEF VectorsIInv, AllMade, SameSoFar, CheckIsExact

\* Every file has been looked at or written.
LEMMA AllFilesKeeps ==
  VectorsIInv /\ AllFiles => VectorsIInv' /\ (check \/ ~lost => Holds(build))
<1> SUFFICES ASSUME VectorsIInv, AllFiles
             PROVE  VectorsIInv' /\ (check \/ ~lost => Holds(build))
  OBVIOUS
<1>1. /\ v_pc \in {"check", "write"} /\ left = {} /\ v_pc' = "done"
      /\ UNCHANGED <<check, build, record, ids, failures, table, golden, left, disk, lost, v_rc>>
  BY DEF AllFiles
<1>2. failures = 0 /\ record = Len(Plan) /\ v_rc = 0 /\ check = (v_pc = "check")
  BY <1>1 DEF VectorsIInv, AllMade
<1>3. check \/ ~lost => Holds(build)
  <2> SUFFICES ASSUME check \/ ~lost PROVE \A f \in Product : Same(f)
    BY <1>2, SameIsHolds
  <2> QED
    BY <1>1, <1>2 DEF VectorsIInv, SameSoFar
<1>4. VType'
  BY <1>1 DEF VectorsIInv, VType
<1>5. NumbersFollow' /\ TableFollows' /\ GoldenFollows'
  BY <1>1 DEF VectorsIInv, NumbersFollow, TableFollows, GoldenFollows
<1>6. CheckIsExact'
  <2>1. Holds(build)' <=> Holds(build)
    BY <1>1 DEF Holds, There
  <2> QED
    BY <1>1, <1>2, <1>3, <2>1 DEF CheckIsExact
<1> QED
  BY <1>1, <1>3, <1>4, <1>5, <1>6 DEF VectorsIInv, AllMade, SameSoFar

\* Nothing changes.
LEMMA VectorsStutter == VectorsIInv /\ UNCHANGED v_vars => VectorsIInv'
<1> SUFFICES ASSUME VectorsIInv, UNCHANGED v_vars PROVE VectorsIInv'
  OBVIOUS
<1> USE DEF v_vars
<1>1. VType' /\ NumbersFollow' /\ TableFollows' /\ GoldenFollows' /\ AllMade'
  BY DEF VectorsIInv, VType, NumbersFollow, TableFollows, GoldenFollows, AllMade, Product
<1>2. SameSoFar'
  <2>1. \A f : Same(f)' <=> Same(f)
    BY SameStays
  <2> QED
    BY <2>1 DEF VectorsIInv, SameSoFar, Product
<1>3. CheckIsExact'
  BY DEF VectorsIInv, CheckIsExact, Holds, There
<1> QED
  BY <1>1, <1>2, <1>3 DEF VectorsIInv

\* Every step keeps the invariant.
LEMMA StepVectors == VectorsIInv /\ [VectorsNext]_v_vars => VectorsIInv'
  BY RecordsKeep, GoldenKeeps, InvokeKeeps, GeneratedKeeps, CheckKeeps, WriteKeeps,
     WriteFailsKeeps, AllFilesKeeps, VectorsStutter DEF VectorsNext

VectorsSpec == VectorsIdle /\ [][VectorsNext]_v_vars

\* A check succeeds on the whole product of its own build and on nothing else,
\* whatever the runs before it left in the directory.
THEOREM ChecksAreExact == VectorsSpec => []CheckIsExact
<1>1. VectorsIInv => CheckIsExact
  BY DEF VectorsIInv
<1> QED
  BY <1>1, InitVectors, StepVectors, PTL DEF VectorsSpec

\* Only a run in which every record came out touches the directory, and one that
\* succeeds leaves its product whole but for what is lost at a close.
THEOREM ProductsAreWhole == VectorsSpec => WrittenOnlyWhole
<1> DEFINE Whole == /\ disk' # disk => ~check /\ failures = 0 /\ table = TableOf(build)
                    /\ v_pc' = "done" /\ v_pc = "write" /\ v_rc' = 0 /\ ~lost => Holds(build)
<1>1. VectorsIInv /\ [VectorsNext]_v_vars => [Whole]_v_vars
  <2> SUFFICES ASSUME VectorsIInv, VectorsNext PROVE Whole
    OBVIOUS
  <2>1. CASE v_pc = "write"
    <3>1. ~check /\ failures = 0 /\ record = Len(Plan)
      BY <2>1 DEF VectorsIInv, AllMade
    <3>2. table = TableOf(build)
      <4>1. table = [i \in 1..record |-> TableOf(build)[i]] /\ DOMAIN Plan = 1..record
        BY <3>1, PlanLength DEF VectorsIInv, TableFollows
      <4>2. TableOf(build) = [i \in DOMAIN Plan |-> TableOf(build)[i]]
        BY DEF TableOf
      <4> QED
        BY <4>1, <4>2
    <3>3. v_pc' = "done" /\ v_rc' = 0 => AllFiles
      BY <2>1 DEF VectorsNext, Invoke, Generated, CheckFile, WriteFile, WriteFileFails,
                  DeriveRecord, HexRecord, KeyRecord, ContrastRecord, RenderRecord, ErrorRecord,
                  SweepRecord, ImageRecord, FailureRecord, GoldenRecord, Emit
    <3> QED
      BY <3>1, <3>2, <3>3, AllFilesKeeps
  <2>2. CASE v_pc # "write"
    <3>1. disk' = disk
      BY <2>2 DEF VectorsNext, Invoke, Generated, CheckFile, WriteFile, WriteFileFails, AllFiles,
                  DeriveRecord, HexRecord, KeyRecord, ContrastRecord, RenderRecord, ErrorRecord,
                  SweepRecord, ImageRecord, FailureRecord, GoldenRecord, Emit
    <3> QED
      BY <2>2, <3>1
  <2> QED
    BY <2>1, <2>2
<1>2. VectorsSpec => [][Whole]_v_vars
  BY <1>1, InitVectors, StepVectors, PTL DEF VectorsSpec
<1> QED
  BY <1>2 DEF WrittenOnlyWhole


(* The fields of a line *)

\* A character that is neither space nor tab.
Visible(c) == c # " "

Filled(line, i) == i \in DOMAIN line /\ Visible(line[i])

Starts(line) == {i \in DOMAIN line : Filled(line, i) /\ ~Filled(line, i - 1)}

\* One more character.
SplitStep(s, c) ==
  IF c = " " THEN [open |-> FALSE, fields |-> s.fields]
  ELSE IF s.open
  THEN [open |-> TRUE, fields |-> Append(Front(s.fields), Append(Last(s.fields), c))]
  ELSE [open |-> TRUE, fields |-> Append(s.fields, <<c>>)]

Splits(C) == [open : BOOLEAN, fields : Seq(Seq(C))]

Splitting(u, line) ==
  /\ u[0] = [open |-> FALSE, fields |-> <<>>]
  /\ \A i \in 1..Len(line) : u[i] = SplitStep(u[i - 1], line[i])

\* What a character does to the fields so far.
LEMMA StepIs ==
  ASSUME NEW s, NEW c
  PROVE  /\ ~Visible(c) => SplitStep(s, c) = [open |-> FALSE, fields |-> s.fields]
         /\ Visible(c) /\ s.open =>
              SplitStep(s, c) = [open |-> TRUE,
                                 fields |-> Append(Front(s.fields), Append(Last(s.fields), c))]
         /\ Visible(c) /\ ~s.open =>
              SplitStep(s, c) = [open |-> TRUE, fields |-> Append(s.fields, <<c>>)]
BY Zenon DEF SplitStep, Visible

\* The fields so far are sequences of characters.
LEMMA StepType ==
  ASSUME NEW C, NEW s \in Splits(C), s.open => Len(s.fields) # 0, NEW c \in C
  PROVE  SplitStep(s, c) \in Splits(C)
<1>1. s.fields \in Seq(Seq(C)) /\ s.open \in BOOLEAN /\ <<c>> \in Seq(C)
  BY DEF Splits
<1>2. PICK g : g = s.fields
  OBVIOUS
<1>3. Append(g, <<c>>) \in Seq(Seq(C))
  BY <1>1, <1>2, AppendProperties
<1>4. ASSUME Len(g) # 0 PROVE Append(Front(g), Append(Last(g), c)) \in Seq(Seq(C))
  <2>1. Len(g) \in Nat /\ Len(g) \in 1..Len(g) /\ Len(g) - 1 <= Len(g)
    BY <1>1, <1>2, <1>4, LenProperties
  <2>2. Last(g) \in Seq(C)
    BY <1>1, <1>2, <2>1, ElementOfSeq DEF Last
  <2>3. Append(Last(g), c) \in Seq(C)
    BY <2>2, AppendProperties
  <2>4. PICK k : k = Len(g) - 1
    OBVIOUS
  <2>5. SubSeq(g, 1, k) \in Seq(Seq(C))
    <3>1. \A j \in 1..k : j \in 1..Len(g)
      BY <2>1, <2>4
    <3> QED
      BY <1>1, <1>2, <2>1, <2>4, <3>1, SubSeqProperties
  <2> QED
    BY <2>3, <2>4, <2>5, AppendProperties DEF Front
<1> QED
  BY <1>1, <1>2, <1>3, <1>4 DEF SplitStep, Splits

\* A field is open only if there is one.
LEMMA StepOpen ==
  ASSUME NEW C, NEW s \in Splits(C), s.open => Len(s.fields) # 0, NEW c \in C
  PROVE  SplitStep(s, c).open => Len(SplitStep(s, c).fields) # 0
<1>1. s.fields \in Seq(Seq(C)) /\ s.open \in BOOLEAN /\ <<c>> \in Seq(C)
  BY DEF Splits
<1>2. PICK g : g = s.fields
  OBVIOUS
<1>3. Len(Append(g, <<c>>)) # 0
  BY <1>1, <1>2, AppendProperties, LenProperties
<1>4. ASSUME Len(g) # 0 PROVE Len(Append(Front(g), Append(Last(g), c))) # 0
  <2>1. Len(g) \in Nat /\ Len(g) \in 1..Len(g) /\ Len(g) - 1 <= Len(g)
    BY <1>1, <1>2, <1>4, LenProperties
  <2>2. Last(g) \in Seq(C)
    BY <1>1, <1>2, <2>1, ElementOfSeq DEF Last
  <2>3. Append(Last(g), c) \in Seq(C)
    BY <2>2, AppendProperties
  <2>4. PICK k : k = Len(g) - 1
    OBVIOUS
  <2>5. SubSeq(g, 1, k) \in Seq(Seq(C))
    <3>1. \A j \in 1..k : j \in 1..Len(g)
      BY <2>1, <2>4
    <3> QED
      BY <1>1, <1>2, <2>1, <2>4, <3>1, SubSeqProperties
  <2>6. Len(SubSeq(g, 1, k)) \in Nat
    BY <2>5, LenProperties
  <2> QED
    BY <2>3, <2>4, <2>5, <2>6, AppendProperties DEF Front
<1> QED
  BY <1>1, <1>2, <1>3, <1>4 DEF SplitStep, Splits

\* The characters are taken one by one.
LEMMA SplitsOneByOne ==
  ASSUME NEW C, NEW line \in Seq(C)
  PROVE  \E u : Splitting(u, line) /\ SplitFields(line) = u[Len(line)].fields
<1> DEFINE Is(e) == e = [i \in 0..Len(line) |->
                           IF i = 0 THEN [open |-> FALSE, fields |-> <<>>]
                           ELSE SplitStep(e[i - 1], line[i])]
           S == {s \in Splits(C) : s.open => Len(s.fields) # 0}
           first == [open |-> FALSE, fields |-> <<>>]
           step == [p \in Nat \X S |-> IF p[1] \in 1..Len(line) THEN SplitStep(p[2], line[p[1]])
                                       ELSE first]
<1>1. Len(line) \in Nat /\ \A i \in 1..Len(line) : line[i] \in C
  BY LenProperties, ElementOfSeq
<1>2. first \in S
  <2>1. <<>> \in Seq(Seq(C))
    BY EmptySeq
  <2> QED
    BY <2>1 DEF Splits
<1>3. step \in [Nat \X S -> S]
  <2>1. \A s \in S, c \in C : SplitStep(s, c) \in S
    BY StepType, StepOpen
  <2> HIDE DEF S, first
  <2> QED
    BY <1>1, <1>2, <2>1
<1>4. \A i \in 1..Len(line), s \in S : step[<<i, s>>] = SplitStep(s, line[i])
  <2> HIDE DEF S, first
  <2>1. \A i \in 1..Len(line) : i \in Nat
    BY <1>1
  <2> QED
    BY <2>1
<1>5. PICK k : k = Len(line)
  OBVIOUS
<1>6. PICK e : Recurs(e, S, first, step, k)
  <2> HIDE DEF S, first, step
  <2> QED
    BY <1>1, <1>2, <1>3, <1>5, Recursion
<1>7. Is(e)
  <2> HIDE DEF S, step
  <2>1. e \in [0..k -> S] /\ e[0] = first /\ \A i \in 1..k : e[i] = step[<<i, e[i - 1]>>]
    BY <1>6 DEF Recurs
  <2>2. \A i \in 1..k : i - 1 \in 0..k /\ i # 0
    BY <1>1, <1>5
  <2>3. \A i \in 1..k : e[i] = SplitStep(e[i - 1], line[i])
    BY <1>4, <1>5, <2>1, <2>2
  <2>4. \A i \in 0..k : e[i] = IF i = 0 THEN first ELSE SplitStep(e[i - 1], line[i])
    <3>1. \A i \in 0..k : i # 0 => i \in 1..k
      BY <1>1, <1>5
    <3> HIDE DEF first
    <3> QED
      BY <2>1, <2>3, <3>1
  <2> QED
    BY <1>5, <2>1, <2>4
<1> DEFINE u == CHOOSE d : Is(d)
<1>8. Is(u)
  <2> HIDE DEF Is
  <2> QED
    BY <1>7
<1>9. Splitting(u, line)
  <2> HIDE DEF u
  <2>1. u[0] = first
    BY <1>1, <1>8
  <2>2. \A i \in 1..Len(line) : i \in 0..Len(line) /\ i # 0
    BY <1>1
  <2>3. \A i \in 1..Len(line) : u[i] = SplitStep(u[i - 1], line[i])
    BY <1>8, <2>2
  <2> QED
    BY <2>1, <2>3 DEF Splitting
<1>10. SplitFields(line) = u[Len(line)].fields
  BY Zenon DEF SplitFields, SplitStep
<1> QED
  <2> HIDE DEF u
  <2> QED
    BY <1>9, <1>10

\* A field that begins at a, all of it filled.
FieldAt(line, w, a) ==
  /\ Len(w) # 0
  /\ w[1] = line[a]
  /\ \A d \in 0..(Len(w) - 1) : Filled(line, a + d)

\* It goes on after the first i characters, or has ended among them.
GoesOn(line, i, w, a) == FieldAt(line, w, a) /\ a + Len(w) = i + 1
HasEnded(line, i, w, a) ==
  FieldAt(line, w, a) /\ a + Len(w) <= i /\ ~Filled(line, a + Len(w))

\* The fields among the first i characters begin at the starts b.
FieldsOf(line, i, s, b) ==
  /\ b \in [1..Len(s.fields) -> 1..i]
  /\ \A k, j \in 1..Len(s.fields) : k < j => b[k] < b[j]
  /\ \A j \in 1..i : j \in Starts(line) <=> \E k \in 1..Len(s.fields) : b[k] = j
  /\ s.open <=> Filled(line, i)
  /\ s.open => Len(s.fields) # 0
  /\ \A k \in 1..Len(s.fields) :
       IF s.open /\ k = Len(s.fields) THEN GoesOn(line, i, s.fields[k], b[k])
       ELSE HasEnded(line, i, s.fields[k], b[k])

\* A blank ends the field.
LEMMA BlankCharacter ==
  ASSUME NEW C, NEW line \in Seq(C), NEW i \in Nat, i + 1 <= Len(line), ~Visible(line[i + 1]),
         NEW s \in Splits(C), NEW b, FieldsOf(line, i, s, b)
  PROVE  FieldsOf(line, i + 1, [open |-> FALSE, fields |-> s.fields], b)
<1>1. PICK g : g = s.fields
  OBVIOUS
<1>2. g \in Seq(Seq(C)) /\ Len(g) \in Nat /\ \A k \in 1..Len(g) : g[k] \in Seq(C) /\ Len(g[k]) \in Nat
  BY <1>1, LenProperties, ElementOfSeq DEF Splits
<1>3. ~Filled(line, i + 1) /\ i + 1 \notin Starts(line)
  BY DEF Filled, Starts
<1>4. b \in [1..Len(g) -> 1..(i + 1)] /\ \A k \in 1..Len(g) : b[k] \in 1..i
  <2>1. b \in [1..Len(g) -> 1..i]
    BY <1>1 DEF FieldsOf
  <2>2. \A k \in 1..Len(g) : b[k] \in 1..i /\ b[k] \in 1..(i + 1)
    BY <2>1
  <2> QED
    BY <2>1, <2>2
<1>5. \A j \in 1..(i + 1) : j \in Starts(line) <=> \E k \in 1..Len(g) : b[k] = j
  <2>1. \A j \in 1..(i + 1) : j = i + 1 \/ j \in 1..i
    OBVIOUS
  <2>2. \A k \in 1..Len(g) : b[k] # i + 1
    BY <1>4
  <2> QED
    BY <1>1, <1>3, <2>1, <2>2 DEF FieldsOf
<1>6. ASSUME NEW k \in 1..Len(g) PROVE HasEnded(line, i + 1, g[k], b[k])
  <2>1. GoesOn(line, i, g[k], b[k]) \/ HasEnded(line, i, g[k], b[k])
    BY <1>1 DEF FieldsOf
  <2>2. PICK z \in Nat : z = Len(g[k])
    BY <1>2
  <2>3. b[k] \in Nat
    BY <1>4
  <2>4. CASE GoesOn(line, i, g[k], b[k])
    <3>1. b[k] + z = i + 1
      BY <2>2, <2>4 DEF GoesOn
    <3> QED
      BY <1>3, <2>2, <2>4, <3>1 DEF GoesOn, HasEnded
  <2>5. CASE HasEnded(line, i, g[k], b[k])
    <3>1. b[k] + z <= i /\ b[k] + z <= i + 1
      BY <2>2, <2>3, <2>5 DEF HasEnded
    <3> QED
      BY <2>2, <2>5, <3>1 DEF HasEnded
  <2> QED
    BY <2>1, <2>4, <2>5
<1>7. \A k, j \in 1..Len(g) : k < j => b[k] < b[j]
  BY <1>1 DEF FieldsOf
<1> QED
  BY <1>1, <1>3, <1>4, <1>5, <1>6, <1>7 DEF FieldsOf

\* Another character makes the field longer.
LEMMA LongerField ==
  ASSUME NEW C, NEW line \in Seq(C), NEW i \in Nat, i + 1 <= Len(line), Visible(line[i + 1]),
         NEW s \in Splits(C), s.open, NEW b, FieldsOf(line, i, s, b)
  PROVE  FieldsOf(line, i + 1, SplitStep(s, line[i + 1]), b)
<1>1. PICK g : g = s.fields
  OBVIOUS
<1>2. g \in Seq(Seq(C)) /\ Len(g) \in Nat /\ \A k \in 1..Len(g) : g[k] \in Seq(C) /\ Len(g[k]) \in Nat
  BY <1>1, LenProperties, ElementOfSeq DEF Splits
<1>3. PICK m \in Nat : m = Len(g)
  BY <1>2
<1>4. m # 0
  BY <1>1, <1>3 DEF FieldsOf
<1>5. PICK c \in C : c = line[i + 1]
  <2>1. i + 1 \in 1..Len(line)
    BY LenProperties
  <2> QED
    BY <2>1, ElementOfSeq
<1>6. PICK h : h = Append(Front(g), Append(Last(g), c))
  OBVIOUS
<1>7. PICK w : w = g[m]
  OBVIOUS
<1>8. w \in Seq(C) /\ Len(w) \in Nat /\ Last(g) = w
  BY <1>2, <1>3, <1>4, <1>7 DEF Last
<1>9. /\ Append(w, c) \in Seq(C) /\ Len(Append(w, c)) = Len(w) + 1
      /\ Len(w) # 0 => Append(w, c)[1] = w[1]
  BY <1>8, AppendProperties, LenProperties
<1>10. /\ Len(h) = m /\ h[m] = Append(w, c)
       /\ \A k \in 1..(m - 1) : h[k] = g[k]
  <2>1. PICK q : q = m - 1
    OBVIOUS
  <2>2. /\ SubSeq(g, 1, q) \in Seq(Seq(C)) /\ Len(SubSeq(g, 1, q)) = q
        /\ \A k \in 1..q : SubSeq(g, 1, q)[k] = g[k]
    <3>1. \A j \in 1..q : j \in 1..Len(g) /\ 1 + j - 1 = j
      BY <1>3, <1>4, <2>1
    <3>2. 1 \in Int /\ q \in Int /\ \A j \in 1..q : g[j] \in Seq(C)
      BY <1>2, <1>3, <2>1, <3>1
    <3>3. /\ SubSeq(g, 1, q) \in Seq(Seq(C))
          /\ Len(SubSeq(g, 1, q)) = IF 1 <= q THEN q - 1 + 1 ELSE 0
          /\ \A k \in 1..(q - 1 + 1) : SubSeq(g, 1, q)[k] = g[1 + k - 1]
      BY <3>2, SubSeqProperties
    <3>4. q - 1 + 1 = q /\ (1 <= q \/ q = 0)
      BY <1>3, <1>4, <2>1
    <3> QED
      BY <3>1, <3>3, <3>4
  <2>3. h = Append(SubSeq(g, 1, q), Append(w, c))
    BY <1>3, <1>6, <1>8, <2>1 DEF Front
  <2>4. /\ Len(h) = q + 1 /\ h[q + 1] = Append(w, c)
        /\ \A k \in 1..q : h[k] = g[k]
    BY <1>9, <2>2, <2>3, AppendProperties
  <2> QED
    BY <1>3, <1>4, <2>1, <2>4
<1>11. SplitStep(s, line[i + 1]) = [open |-> TRUE, fields |-> h]
  BY <1>1, <1>5, <1>6, StepIs
<1>12. Filled(line, i + 1) /\ Filled(line, i) /\ i + 1 \notin Starts(line)
  <2>1. i + 1 \in DOMAIN line /\ (i + 1) - 1 = i
    BY LenProperties
  <2> QED
    BY <2>1 DEF FieldsOf, Filled, Starts
<1>13. b \in [1..m -> 1..(i + 1)] /\ \A k \in 1..m : b[k] \in 1..i
  BY <1>1, <1>3 DEF FieldsOf
<1>14. \A j \in 1..(i + 1) : j \in Starts(line) <=> \E k \in 1..m : b[k] = j
  <2>1. \A j \in 1..(i + 1) : j = i + 1 \/ j \in 1..i
    OBVIOUS
  <2>2. \A k \in 1..m : b[k] # i + 1
    BY <1>13
  <2> QED
    BY <1>1, <1>3, <1>12, <2>1, <2>2 DEF FieldsOf
<1>15. GoesOn(line, i + 1, h[m], b[m])
  <2>1. GoesOn(line, i, w, b[m])
    BY <1>1, <1>3, <1>4, <1>7 DEF FieldsOf
  <2>2. PICK z \in Nat : z = Len(w)
    BY <1>8
  <2>3. b[m] \in Nat /\ b[m] + z = i + 1 /\ z # 0 /\ w[1] = line[b[m]]
    BY <1>4, <1>13, <2>1, <2>2 DEF GoesOn, FieldAt
  <2>4. \A d \in 0..((z + 1) - 1) : Filled(line, b[m] + d)
    <3>1. \A d \in 0..(z - 1) : Filled(line, b[m] + d)
      BY <2>1, <2>2 DEF GoesOn, FieldAt
    <3>2. \A d \in 0..((z + 1) - 1) : d \in 0..(z - 1) \/ b[m] + d = i + 1
      BY <2>3
    <3> QED
      BY <1>12, <3>1, <3>2
  <2>5. z + 1 # 0 /\ b[m] + (z + 1) = (i + 1) + 1
    BY <2>3
  <2>6. PICK v : v = h[m]
    OBVIOUS
  <2>7. Len(v) = z + 1 /\ v[1] = line[b[m]]
    BY <1>9, <1>10, <2>2, <2>3, <2>6
  <2>8. GoesOn(line, i + 1, v, b[m])
    BY <2>4, <2>5, <2>7 DEF GoesOn, FieldAt
  <2> QED
    BY <2>6, <2>8
<1>16. ASSUME NEW k \in 1..m, k # m PROVE HasEnded(line, i + 1, h[k], b[k])
  <2>1. HasEnded(line, i, g[k], b[k])
    BY <1>1, <1>3, <1>16 DEF FieldsOf
  <2>2. h[k] = g[k]
    BY <1>10, <1>16
  <2>3. PICK z \in Nat : z = Len(g[k])
    BY <1>2, <1>3
  <2>4. b[k] + z <= i /\ b[k] \in Nat
    BY <1>13, <2>1, <2>3 DEF HasEnded
  <2>5. b[k] + z <= i + 1
    BY <2>4
  <2> QED
    BY <2>1, <2>2, <2>3, <2>5 DEF HasEnded
<1>17. \A k, j \in 1..m : k < j => b[k] < b[j]
  BY <1>1, <1>3 DEF FieldsOf
<1>18. PICK v : v = [open |-> TRUE, fields |-> h]
  OBVIOUS
<1>19. v.open = TRUE /\ v.fields = h
  BY <1>18
<1>20. \A k \in 1..m : IF k = m THEN GoesOn(line, i + 1, h[k], b[k])
                       ELSE HasEnded(line, i + 1, h[k], b[k])
  BY <1>15, <1>16
<1>21. FieldsOf(line, i + 1, v, b)
  BY <1>4, <1>10, <1>12, <1>13, <1>14, <1>17, <1>19, <1>20 DEF FieldsOf
<1> QED
  BY <1>11, <1>18, <1>21

\* A character after a blank begins a field.
LEMMA NewField ==
  ASSUME NEW C, NEW line \in Seq(C), NEW i \in Nat, i + 1 <= Len(line), Visible(line[i + 1]),
         NEW s \in Splits(C), ~s.open, NEW b, FieldsOf(line, i, s, b)
  PROVE  \E e : FieldsOf(line, i + 1, SplitStep(s, line[i + 1]), e)
<1>1. PICK g : g = s.fields
  OBVIOUS
<1>2. g \in Seq(Seq(C)) /\ Len(g) \in Nat /\ \A k \in 1..Len(g) : g[k] \in Seq(C) /\ Len(g[k]) \in Nat
  BY <1>1, LenProperties, ElementOfSeq DEF Splits
<1>3. PICK m \in Nat : m = Len(g)
  BY <1>2
<1>4. PICK c \in C : c = line[i + 1]
  <2>1. i + 1 \in 1..Len(line)
    BY LenProperties
  <2> QED
    BY <2>1, ElementOfSeq
<1>5. PICK h : h = Append(g, <<c>>)
  OBVIOUS
<1>6. Len(h) = m + 1 /\ h[m + 1] = <<c>> /\ \A k \in 1..m : h[k] = g[k]
  <2>1. <<c>> \in Seq(C)
    OBVIOUS
  <2> QED
    BY <1>2, <1>3, <1>5, <2>1, AppendProperties
<1>7. PICK v : v = [open |-> TRUE, fields |-> h]
  OBVIOUS
<1>8. v.open = TRUE /\ v.fields = h /\ SplitStep(s, line[i + 1]) = v
  BY <1>1, <1>4, <1>5, <1>7, StepIs
<1>9. Filled(line, i + 1) /\ ~Filled(line, i) /\ i + 1 \in Starts(line)
  <2>1. i + 1 \in DOMAIN line /\ (i + 1) - 1 = i
    BY LenProperties
  <2> QED
    BY <2>1 DEF FieldsOf, Filled, Starts
<1>10. b \in [1..m -> 1..i]
  BY <1>1, <1>3 DEF FieldsOf
<1>11. PICK e : e = [k \in 1..(m + 1) |-> IF k = m + 1 THEN i + 1 ELSE b[k]]
  OBVIOUS
<1>12. e[m + 1] = i + 1 /\ \A k \in 1..m : e[k] = b[k] /\ e[k] \in 1..i
  <2>1. m + 1 \in 1..(m + 1) /\ \A k \in 1..m : k \in 1..(m + 1) /\ k # m + 1
    OBVIOUS
  <2> QED
    BY <1>10, <1>11, <2>1
<1>13. \A k \in 1..(m + 1) : k = m + 1 \/ k \in 1..m
  OBVIOUS
<1>14. e \in [1..(m + 1) -> 1..(i + 1)]
  <2>1. \A k \in 1..(m + 1) : e[k] \in 1..(i + 1)
    BY <1>12, <1>13
  <2> QED
    BY <1>11, <2>1
<1>15. \A k, j \in 1..(m + 1) : k < j => e[k] < e[j]
  <2>1. \A k, j \in 1..m : k < j => b[k] < b[j]
    BY <1>1, <1>3 DEF FieldsOf
  <2>2. \A k, j \in 1..(m + 1) : k < j => k \in 1..m
    OBVIOUS
  <2> QED
    BY <1>12, <1>13, <2>1, <2>2
<1>16. \A j \in 1..(i + 1) : j \in Starts(line) <=> \E k \in 1..(m + 1) : e[k] = j
  <2>1. \A j \in 1..(i + 1) : j = i + 1 \/ j \in 1..i
    OBVIOUS
  <2>2. \A j \in 1..i : j \in Starts(line) <=> \E k \in 1..m : b[k] = j
    BY <1>1, <1>3 DEF FieldsOf
  <2>3. m + 1 \in 1..(m + 1) /\ \A k \in 1..m : k \in 1..(m + 1)
    OBVIOUS
  <2>4. \A j \in 1..i : j # i + 1
    OBVIOUS
  <2> QED
    BY <1>9, <1>12, <1>13, <2>1, <2>2, <2>3, <2>4
<1>17. GoesOn(line, i + 1, h[m + 1], e[m + 1])
  <2>1. PICK w : w = h[m + 1]
    OBVIOUS
  <2>2. Len(w) = 1 /\ w[1] = line[i + 1] /\ e[m + 1] = i + 1
    BY <1>4, <1>6, <1>12, <2>1
  <2>3. \A d \in 0..(1 - 1) : (i + 1) + d = i + 1
    OBVIOUS
  <2>4. GoesOn(line, i + 1, w, e[m + 1])
    BY <1>9, <2>2, <2>3 DEF GoesOn, FieldAt
  <2> QED
    BY <2>1, <2>4
<1>18. ASSUME NEW k \in 1..m PROVE HasEnded(line, i + 1, h[k], e[k])
  <2>1. HasEnded(line, i, g[k], b[k])
    BY <1>1, <1>3 DEF FieldsOf
  <2>2. h[k] = g[k] /\ e[k] = b[k]
    BY <1>6, <1>12
  <2>3. PICK z \in Nat : z = Len(g[k])
    BY <1>2, <1>3
  <2>4. b[k] + z <= i /\ b[k] \in Nat
    BY <1>10, <2>1, <2>3 DEF HasEnded
  <2>5. b[k] + z <= i + 1
    BY <2>4
  <2> QED
    BY <2>1, <2>2, <2>3, <2>5 DEF HasEnded
<1>19. \A k \in 1..(m + 1) : IF k = m + 1 THEN GoesOn(line, i + 1, h[k], e[k])
                             ELSE HasEnded(line, i + 1, h[k], e[k])
  BY <1>13, <1>17, <1>18
<1>20. m + 1 # 0
  OBVIOUS
<1>21. FieldsOf(line, i + 1, v, e)
  BY <1>6, <1>8, <1>9, <1>14, <1>15, <1>16, <1>19, <1>20 DEF FieldsOf
<1> QED
  BY <1>8, <1>21

\* The fields among all characters.
LEMMA FieldsAre ==
  ASSUME NEW C, NEW line \in Seq(C), NEW u, Splitting(u, line)
  PROVE  /\ u[Len(line)] \in Splits(C)
         /\ \E b : FieldsOf(line, Len(line), u[Len(line)], b)
<1> DEFINE Sound(s, i) == s \in Splits(C) /\ \E b : FieldsOf(line, i, s, b)
           T == {i \in Nat : i <= Len(line) => Sound(u[i], i)}
<1>1. Len(line) \in Nat /\ \A i \in 1..Len(line) : line[i] \in C
  BY LenProperties, ElementOfSeq
<1>2. 0 \in T
  <2>1. PICK s : s = [open |-> FALSE, fields |-> <<>>]
    OBVIOUS
  <2>2. s.open = FALSE /\ s.fields = <<>> /\ u[0] = s
    BY <2>1 DEF Splitting
  <2>3. s \in Splits(C)
    <3>1. <<>> \in Seq(Seq(C))
      BY EmptySeq
    <3> QED
      BY <2>1, <3>1 DEF Splits
  <2>4. Len(s.fields) = 0 /\ 0 \notin DOMAIN line
    BY <1>1, <2>2, LenProperties
  <2>5. \A j \in 1..0 : FALSE
    OBVIOUS
  <2>6. PICK e : e = [j \in 1..0 |-> 0]
    OBVIOUS
  <2>8. e \in [1..0 -> 1..0]
    BY <2>5, <2>6
  <2>7. FieldsOf(line, 0, s, e)
    BY <2>2, <2>4, <2>5, <2>8 DEF FieldsOf, Filled
  <2> QED
    BY <2>2, <2>3, <2>7
<1>3. ASSUME NEW i \in T PROVE i + 1 \in T
  <2> SUFFICES ASSUME i + 1 <= Len(line) PROVE Sound(u[i + 1], i + 1)
    OBVIOUS
  <2>1. i <= Len(line) /\ i + 1 \in 1..Len(line) /\ (i + 1) - 1 = i
    BY <1>1
  <2>2. PICK s : s = u[i]
    OBVIOUS
  <2>3. s \in Splits(C) /\ \E b : FieldsOf(line, i, s, b)
    BY <2>1, <2>2
  <2>4. PICK b : FieldsOf(line, i, s, b)
    BY <2>3
  <2>5. PICK v : v = SplitStep(s, line[i + 1])
    OBVIOUS
  <2>6. u[i + 1] = v
    BY <2>1, <2>2, <2>5 DEF Splitting
  <2>7. v \in Splits(C)
    <3>1. s.open => Len(s.fields) # 0
      BY <2>4 DEF FieldsOf
    <3> QED
      BY <1>1, <2>1, <2>3, <2>5, <3>1, StepType
  <2>8. \E e : FieldsOf(line, i + 1, v, e)
    <3>1. CASE ~Visible(line[i + 1])
      BY <2>3, <2>4, <2>5, <3>1, BlankCharacter, StepIs
    <3>2. CASE Visible(line[i + 1]) /\ s.open
      BY <2>3, <2>4, <2>5, <3>2, LongerField
    <3>3. CASE Visible(line[i + 1]) /\ ~s.open
      BY <2>3, <2>4, <2>5, <3>3, NewField
    <3> QED
      BY <3>1, <3>2, <3>3
  <2> QED
    BY <2>6, <2>7, <2>8
<1>4. T = Nat
  <2> HIDE DEF T
  <2> QED
    BY <1>2, <1>3, Induct DEF T
<1> QED
  BY <1>1, <1>4

Firsts(b, k) == {b[q] : q \in 1..k}

\* An increasing sequence has as many values as positions.
LEMMA IncreasingCount ==
  ASSUME NEW m \in Nat, NEW b, \A k, j \in 1..m : k < j => b[k] < b[j], NEW k \in 0..m,
         \A j \in 1..m : b[j] \in Nat
  PROVE  IsFiniteSet(Firsts(b, k)) /\ Cardinality(Firsts(b, k)) = k
<1> DEFINE T == {j \in Nat : j <= m => IsFiniteSet(Firsts(b, j)) /\ Cardinality(Firsts(b, j)) = j}
<1>1. 0 \in T
  <2>1. Firsts(b, 0) = {}
    BY DEF Firsts
  <2> QED
    BY <2>1, FS_EmptySet
<1>2. ASSUME NEW j \in T PROVE j + 1 \in T
  <2> SUFFICES ASSUME j + 1 <= m
               PROVE  /\ IsFiniteSet(Firsts(b, j + 1))
                      /\ Cardinality(Firsts(b, j + 1)) = j + 1
    OBVIOUS
  <2>1. PICK x : x = b[j + 1]
    OBVIOUS
  <2>2. Firsts(b, j + 1) = Firsts(b, j) \cup {x}
    <3>1. \A q \in 1..(j + 1) : q \in 1..j \/ q = j + 1
      OBVIOUS
    <3>2. \A q \in 1..j : q \in 1..(j + 1)
      OBVIOUS
    <3> QED
      BY <2>1, <3>1, <3>2 DEF Firsts
  <2>3. x \notin Firsts(b, j)
    <3>1. \A q \in 1..j : q \in 1..m /\ j + 1 \in 1..m /\ q < j + 1
      OBVIOUS
    <3>2. \A q \in 1..j : b[q] \in Nat /\ b[j + 1] \in Nat /\ b[q] < b[j + 1]
      BY <3>1
    <3>3. \A q \in 1..j : b[q] # x
      BY <2>1, <3>2
    <3> QED
      BY <3>3 DEF Firsts
  <2>4. IsFiniteSet(Firsts(b, j)) /\ Cardinality(Firsts(b, j)) = j
    OBVIOUS
  <2> QED
    BY <2>2, <2>3, <2>4, FS_AddElement
<1>3. T = Nat
  <2> HIDE DEF T
  <2> QED
    BY <1>1, <1>2, Induct DEF T
<1> QED
  BY <1>3

StartsUpTo(line, i) == {j \in Starts(line) : j <= i}
NthStart(line, s) == CHOOSE i \in Starts(line) : Cardinality(StartsUpTo(line, i)) = s
RunFrom(line, i) == Min({k \in 1..Len(line) : ~Filled(line, i + k)})

\* The format, in these words.
LEMMA FormatIs ==
  ASSUME NEW line
  PROVE  FieldsByFormat(line) =
           [s \in 1..Cardinality(Starts(line)) |->
              Word(SubSeq(line, NthStart(line, s),
                          NthStart(line, s) + RunFrom(line, NthStart(line, s)) - 1))]
BY Zenon DEF FieldsByFormat, Starts, StartsUpTo, NthStart, RunFrom, Filled, Visible

\* Where the fields begin, and how long they are.
LEMMA StartsAre ==
  ASSUME NEW C, NEW line \in Seq(C), NEW s \in Splits(C), NEW b,
         FieldsOf(line, Len(line), s, b)
  PROVE  /\ Cardinality(Starts(line)) = Len(s.fields)
         /\ \A k \in 1..Len(s.fields) : /\ NthStart(line, k) = b[k]
                                        /\ RunFrom(line, b[k]) = Len(s.fields[k])
<1>1. PICK g : g = s.fields
  OBVIOUS
<1>2. g \in Seq(Seq(C)) /\ Len(g) \in Nat /\ \A k \in 1..Len(g) : g[k] \in Seq(C) /\ Len(g[k]) \in Nat
  BY <1>1, LenProperties, ElementOfSeq DEF Splits
<1>3. PICK m \in Nat : m = Len(g)
  BY <1>2
<1>4. PICK z \in Nat : z = Len(line)
  BY LenProperties
<1>5. /\ b \in [1..m -> 1..z]
      /\ \A k, j \in 1..m : k < j => b[k] < b[j]
      /\ \A j \in 1..z : j \in Starts(line) <=> \E k \in 1..m : b[k] = j
  BY <1>1, <1>3, <1>4 DEF FieldsOf
<1>6. \A k \in 1..m : b[k] \in 1..z /\ b[k] \in Nat
  BY <1>5
<1>7. Starts(line) \subseteq 1..z
  BY <1>4, LenProperties DEF Starts
<1>8. Starts(line) = Firsts(b, m)
  BY <1>5, <1>6, <1>7 DEF Firsts
<1>9. Cardinality(Starts(line)) = m
  <2>1. m \in 0..m
    OBVIOUS
  <2> QED
    BY ZenonT(60), <1>5, <1>6, <1>8, <2>1, IncreasingCount
<1>10. ASSUME NEW k \in 1..m PROVE Cardinality(StartsUpTo(line, b[k])) = k
  <2>1. StartsUpTo(line, b[k]) = Firsts(b, k)
    <3>1. ASSUME NEW q \in 1..m PROVE b[q] <= b[k] <=> q \in 1..k
      <4>1. q < k => b[q] < b[k]
        BY <1>5
      <4>2. k < q => b[k] < b[q]
        BY <1>5
      <4>3. b[q] \in Nat /\ b[k] \in Nat
        BY <1>6
      <4> QED
        BY <4>1, <4>2, <4>3
    <3>2. \A q \in 1..k : q \in 1..m
      OBVIOUS
    <3> QED
      BY <1>8, <3>1, <3>2 DEF StartsUpTo, Firsts
  <2>2. k \in 0..m
    OBVIOUS
  <2> QED
    BY ZenonT(60), <1>5, <1>6, <2>1, <2>2, IncreasingCount
<1>11. ASSUME NEW k \in 1..m PROVE NthStart(line, k) = b[k]
  <2>1. b[k] \in Starts(line)
    BY <1>5, <1>6
  <2>2. \A i \in Starts(line) : Cardinality(StartsUpTo(line, i)) = k => i = b[k]
    <3>1. \A i \in Starts(line) : \E q \in 1..m : i = b[q]
      BY <1>5, <1>7
    <3> QED
      BY <1>10, <3>1
  <2> QED
    BY <1>10, <2>1, <2>2 DEF NthStart
<1>12. ASSUME NEW k \in 1..m PROVE RunFrom(line, b[k]) = Len(g[k])
  <2>1. PICK w : w = g[k]
    OBVIOUS
  <2>2. PICK y \in Nat : y = Len(w)
    BY <1>2, <1>3, <2>1
  <2>3. PICK a \in 1..z : a = b[k]
    BY <1>6
  <2>4. GoesOn(line, z, w, a) \/ HasEnded(line, z, w, a)
    BY <1>1, <1>3, <1>4, <2>1, <2>3 DEF FieldsOf
  <2>5. y # 0 /\ \A d \in 0..(y - 1) : Filled(line, a + d)
    BY <2>2, <2>4 DEF GoesOn, HasEnded, FieldAt
  <2>6. a + y <= z + 1 /\ ~Filled(line, a + y)
    <3>1. CASE GoesOn(line, z, w, a)
      <4>1. a + y = z + 1 /\ z + 1 \notin 1..z
        BY <2>2, <3>1 DEF GoesOn
      <4>2. a + y \notin DOMAIN line
        BY <1>4, <4>1, LenProperties
      <4> QED
        BY <4>1, <4>2 DEF Filled
    <3>2. CASE HasEnded(line, z, w, a)
      <4>1. a + y <= z /\ a \in Nat
        BY <2>2, <3>2 DEF HasEnded
      <4>2. a + y <= z + 1
        BY <4>1
      <4> QED
        BY <2>2, <3>2, <4>2 DEF HasEnded
    <3> QED
      BY <2>4, <3>1, <3>2
  <2> DEFINE K == {d \in 1..z : ~Filled(line, a + d)}
  <2>7. y \in K /\ \A d \in K : y <= d
    <3>1. y \in 1..z
      BY <2>5, <2>6
    <3>2. y \in K
      BY <2>6, <3>1
    <3>3. ASSUME NEW d \in K PROVE y <= d
      <4>1. d \in Nat /\ d \notin 0..(y - 1)
        BY <2>5
      <4> QED
        BY <4>1
    <3> QED
      BY <3>2, <3>3
  <2>8. K \subseteq Nat
    OBVIOUS
  <2>9. Min(K) = y
    <3> HIDE DEF K
    <3>1. \A d \in K : (\A e \in K : d <= e) => d = y
      BY <2>7, <2>8
    <3> QED
      BY <2>7, <3>1 DEF Min
  <2>10. RunFrom(line, a) = Min(K)
    BY <1>4 DEF RunFrom
  <2> QED
    BY <2>1, <2>2, <2>3, <2>9, <2>10
<1> QED
  BY <1>1, <1>3, <1>9, <1>11, <1>12

\* A line is split as the format says.
LEMMA SplitByFormat ==
  ASSUME NEW C, NEW line \in Seq(C)
  PROVE  /\ SplitFields(line) \in Seq(Seq(C))
         /\ [k \in DOMAIN SplitFields(line) |-> Word(SplitFields(line)[k])] = FieldsByFormat(line)
<1>1. PICK u : Splitting(u, line) /\ SplitFields(line) = u[Len(line)].fields
  BY SplitsOneByOne
<1>2. PICK s : s = u[Len(line)]
  OBVIOUS
<1>3. s \in Splits(C) /\ \E b : FieldsOf(line, Len(line), s, b)
  BY <1>1, <1>2, FieldsAre
<1>4. PICK b : FieldsOf(line, Len(line), s, b)
  BY <1>3
<1>5. PICK g : g = s.fields
  OBVIOUS
<1>6. g \in Seq(Seq(C)) /\ Len(g) \in Nat /\ \A k \in 1..Len(g) : g[k] \in Seq(C) /\ Len(g[k]) \in Nat
  BY <1>3, <1>5, LenProperties, ElementOfSeq DEF Splits
<1>7. PICK m \in Nat : m = Len(g)
  BY <1>6
<1>8. /\ Cardinality(Starts(line)) = m
      /\ \A k \in 1..m : NthStart(line, k) = b[k] /\ RunFrom(line, b[k]) = Len(g[k])
  BY <1>3, <1>4, <1>5, <1>7, StartsAre
<1>9. ASSUME NEW k \in 1..m
      PROVE  Word(SubSeq(line, NthStart(line, k),
                         NthStart(line, k) + RunFrom(line, NthStart(line, k)) - 1)) = Word(g[k])
  <2>1. PICK w : w = g[k]
    OBVIOUS
  <2>2. PICK y \in Nat : y = Len(w)
    BY <1>6, <1>7, <2>1
  <2>3. PICK a : a = b[k]
    OBVIOUS
  <2>4. a \in 1..Len(line)
    BY <1>4, <1>5, <1>7, <2>3 DEF FieldsOf
  <2>5. FieldAt(line, w, a)
    BY <1>4, <1>5, <1>7, <2>1, <2>3 DEF FieldsOf, GoesOn, HasEnded
  <2>6. y # 0 /\ w[1] = line[a] /\ \A d \in 0..(y - 1) : a + d \in 1..Len(line)
    BY <2>2, <2>5, LenProperties DEF FieldAt, Filled
  <2>7. PICK e : e = a + y - 1
    OBVIOUS
  <2>8. a \in Int /\ e \in Int /\ e - a + 1 = y /\ a <= e /\ 1 \in 1..y /\ a + 1 - 1 = a
    BY <2>2, <2>4, <2>6, <2>7, LenProperties
  <2>9. \A i \in a..e : line[i] \in C
    <3>1. ASSUME NEW i \in a..e PROVE i \in 1..Len(line)
      <4>1. i - a \in 0..(y - 1) /\ a + (i - a) = i
        BY <2>7, <2>8
      <4> QED
        BY <2>6, <4>1
    <3> QED
      BY <3>1, ElementOfSeq
  <2>10. PICK v : v = SubSeq(line, a, e)
    OBVIOUS
  <2>11. /\ Len(v) = IF a <= e THEN e - a + 1 ELSE 0
         /\ \A i \in 1..(e - a + 1) : v[i] = line[a + i - 1]
    BY <2>8, <2>9, <2>10, SubSeqProperties
  <2>12. Len(v) = y /\ v[1] = w[1]
    BY <2>6, <2>8, <2>11
  <2>13. Word(v) = Word(w)
    BY <2>2, <2>12 DEF Word
  <2>14. NthStart(line, k) = a /\ RunFrom(line, a) = y
    BY <1>8, <2>1, <2>2, <2>3
  <2> QED
    BY <2>1, <2>7, <2>10, <2>13, <2>14
<1>10. SplitFields(line) = g /\ DOMAIN g = 1..m
  BY <1>1, <1>2, <1>5, <1>6, <1>7, LenProperties
<1> QED
  BY <1>6, <1>8, <1>9, <1>10, FormatIs

\* Dropping the CR leaves a line.
LEMMA ChompType ==
  ASSUME NEW C, NEW line \in Seq(C)
  PROVE  Chomp(line) \in Seq(C)
<1>1. PICK k : k = Len(line) - 1
  OBVIOUS
<1>2. Len(line) \in Nat /\ (line # <<>> => Len(line) # 0)
  BY LenProperties, EmptySeq
<1>3. line # <<>> => SubSeq(line, 1, k) \in Seq(C)
  <2>1. line # <<>> => \A j \in 1..k : line[j] \in C
    <3>1. line # <<>> => \A j \in 1..k : j \in 1..Len(line)
      BY <1>1, <1>2
    <3> QED
      BY <3>1, ElementOfSeq
  <2> QED
    BY <1>1, <1>2, <2>1, SubSeqProperties
<1> QED
  BY <1>1, <1>3 DEF Chomp, Front

\* One more line.
CasesStep(cases, line) ==
  IF Skipped(Chomp(line)) THEN cases ELSE Append(cases, Chomp(line))

\* The cases of a file are found line by line.
LEMMA CasesOneByOne ==
  ASSUME NEW C, NEW file \in Seq(Seq(C))
  PROVE  /\ \A m \in 0..Len(file) : CasesAmong(file, m) \in Seq(Seq(C))
         /\ CasesAmong(file, 0) = <<>>
         /\ \A m \in 0..(Len(file) - 1) :
              CasesAmong(file, m + 1) = CasesStep(CasesAmong(file, m), file[m + 1])
<1> DEFINE Is(e) == e = [i \in 0..Len(file) |->
                           IF i = 0 THEN <<>> ELSE CasesStep(e[i - 1], file[i])]
           S == Seq(Seq(C))
           step == [p \in Nat \X S |-> IF p[1] \in 1..Len(file) THEN CasesStep(p[2], file[p[1]])
                                       ELSE <<>>]
<1>1. Len(file) \in Nat /\ \A i \in 1..Len(file) : file[i] \in Seq(C)
  BY LenProperties, ElementOfSeq
<1>2. <<>> \in S
  BY EmptySeq
<1>3. \A s \in S, line \in Seq(C) : CasesStep(s, line) \in S
  <2>1. \A line \in Seq(C) : Chomp(line) \in Seq(C)
    BY ChompType
  <2> QED
    BY <2>1, AppendProperties DEF CasesStep
<1>4. step \in [Nat \X S -> S]
  <2> HIDE DEF S
  <2> QED
    BY <1>1, <1>2, <1>3
<1>5. \A i \in 1..Len(file), s \in S : step[<<i, s>>] = CasesStep(s, file[i])
  <2> HIDE DEF S
  <2>1. \A i \in 1..Len(file) : i \in Nat
    BY <1>1
  <2> QED
    BY <2>1
<1>6. PICK k : k = Len(file)
  OBVIOUS
<1>7. PICK first : first = <<>>
  OBVIOUS
<1>8. PICK e : Recurs(e, S, first, step, k)
  <2> HIDE DEF S, step
  <2> QED
    BY <1>1, <1>2, <1>4, <1>6, <1>7, Recursion
<1>9. Is(e)
  <2> HIDE DEF S, step
  <2>1. e \in [0..k -> S] /\ e[0] = first /\ \A i \in 1..k : e[i] = step[<<i, e[i - 1]>>]
    BY <1>8 DEF Recurs
  <2>2. \A i \in 1..k : i - 1 \in 0..k /\ i # 0
    BY <1>1, <1>6
  <2>3. \A i \in 1..k : e[i] = CasesStep(e[i - 1], file[i])
    BY <1>5, <1>6, <2>1, <2>2
  <2>4. \A i \in 0..k : e[i] = IF i = 0 THEN <<>> ELSE CasesStep(e[i - 1], file[i])
    <3>1. \A i \in 0..k : i # 0 => i \in 1..k
      BY <1>1, <1>6
    <3> QED
      BY <1>7, <2>1, <2>3, <3>1
  <2> QED
    BY <1>6, <2>1, <2>4
<1> DEFINE u == CHOOSE d : Is(d)
<1>10. Is(u)
  <2> HIDE DEF Is
  <2> QED
    BY <1>9
<1>11. ASSUME NEW m PROVE CasesAmong(file, m) = u[m]
  BY Zenon DEF CasesAmong, CasesStep
<1> HIDE DEF u
<1>12. u[0] = <<>>
  BY <1>1, <1>10
<1>13. ASSUME NEW m \in 0..(Len(file) - 1) PROVE u[m + 1] = CasesStep(u[m], file[m + 1])
  <2>1. m + 1 \in 0..Len(file) /\ m + 1 # 0 /\ (m + 1) - 1 = m
    BY <1>1
  <2>2. u[m + 1] = CasesStep(u[(m + 1) - 1], file[m + 1])
    BY <1>10, <2>1
  <2> QED
    BY <2>1, <2>2
<1> DEFINE T == {m \in Nat : m <= Len(file) => u[m] \in S}
<1>14. 0 \in T
  BY <1>2, <1>12
<1>15. ASSUME NEW m \in T PROVE m + 1 \in T
  <2> SUFFICES ASSUME m + 1 <= Len(file) PROVE u[m + 1] \in S
    OBVIOUS
  <2> HIDE DEF S
  <2>1. m \in 0..(Len(file) - 1) /\ m <= Len(file) /\ m + 1 \in 1..Len(file)
    BY <1>1
  <2>2. u[m] \in S
    BY <2>1
  <2> QED
    BY <1>1, <1>3, <1>13, <2>1, <2>2
<1>16. T = Nat
  <2> HIDE DEF T
  <2> QED
    BY <1>14, <1>15, Induct DEF T
<1>17. \A m \in 0..Len(file) : u[m] \in S
  <2>1. \A m \in 0..Len(file) : m \in Nat /\ m <= Len(file)
    BY <1>1
  <2> HIDE DEF S
  <2> QED
    BY <1>16, <2>1
<1> QED
  BY <1>11, <1>12, <1>13, <1>17

\* One more argument.
OptionsStep(found, list, i) ==
  IF i - 1 \in found /\ list[i - 1] \in Valued THEN found ELSE found \cup {i}

\* An argument is an option or an input unless the one before it is an option that
\* takes it as its value.
LEMMA OptionsOneByOne ==
  ASSUME NEW C, NEW list \in Seq(C)
  PROVE  /\ OptionsIn(list) \subseteq 1..Len(list)
         /\ \A i \in 1..Len(list) :
              i \in OptionsIn(list) <=> ~(i - 1 \in OptionsIn(list) /\ list[i - 1] \in Valued)
<1> DEFINE Is(e) == e = [i \in 0..Len(list) |->
                           IF i = 0 THEN {} ELSE OptionsStep(e[i - 1], list, i)]
           S == SUBSET Nat
           step == [p \in Nat \X S |-> OptionsStep(p[2], list, p[1])]
<1>1. Len(list) \in Nat
  BY LenProperties
<1>2. PICK first : first = {}
  OBVIOUS
<1>3. first \in S
  BY <1>2
<1>4. step \in [Nat \X S -> S]
  <2>1. \A s \in S, i \in Nat : OptionsStep(s, list, i) \in S
    BY DEF OptionsStep
  <2> HIDE DEF S
  <2> QED
    BY <2>1
<1>5. \A i \in Nat, s \in S : step[<<i, s>>] = OptionsStep(s, list, i)
  <2> HIDE DEF S
  <2> QED
    OBVIOUS
<1>6. PICK k : k = Len(list)
  OBVIOUS
<1>7. PICK e : Recurs(e, S, first, step, k)
  <2> HIDE DEF S, step
  <2> QED
    BY <1>1, <1>3, <1>4, <1>6, Recursion
<1>8. Is(e)
  <2> HIDE DEF S, step
  <2>1. e \in [0..k -> S] /\ e[0] = first /\ \A i \in 1..k : e[i] = step[<<i, e[i - 1]>>]
    BY <1>7 DEF Recurs
  <2>2. \A i \in 1..k : i - 1 \in 0..k /\ i # 0 /\ i \in Nat
    BY <1>1, <1>6
  <2>3. \A i \in 1..k : e[i] = OptionsStep(e[i - 1], list, i)
    BY <1>5, <2>1, <2>2
  <2>4. \A i \in 0..k : e[i] = IF i = 0 THEN {} ELSE OptionsStep(e[i - 1], list, i)
    <3>1. \A i \in 0..k : i # 0 => i \in 1..k
      BY <1>1, <1>6
    <3> QED
      BY <1>2, <2>1, <2>3, <3>1
  <2> QED
    BY <1>6, <2>1, <2>4
<1> DEFINE u == CHOOSE d : Is(d)
<1>9. Is(u)
  <2> HIDE DEF Is
  <2> QED
    BY <1>8
<1>10. OptionsIn(list) = u[Len(list)]
  BY Zenon DEF OptionsIn, OptionsStep
<1> HIDE DEF u
<1>11. u[0] = {}
  BY <1>1, <1>9
<1>12. ASSUME NEW m \in Nat, m + 1 <= Len(list) PROVE u[m + 1] = OptionsStep(u[m], list, m + 1)
  <2>1. m + 1 \in 0..Len(list) /\ m + 1 # 0 /\ (m + 1) - 1 = m
    BY <1>1, <1>12
  <2>2. u[m + 1] = OptionsStep(u[(m + 1) - 1], list, m + 1)
    BY <1>9, <2>1
  <2> QED
    BY <2>1, <2>2
<1> DEFINE Sound(found, m) ==
             /\ found \subseteq 1..m
             /\ \A i \in 1..m : i \in found <=> ~(i - 1 \in found /\ list[i - 1] \in Valued)
           T == {m \in Nat : m <= Len(list) => Sound(u[m], m)}
<1>13. 0 \in T
  BY <1>11
<1>14. ASSUME NEW m \in T PROVE m + 1 \in T
  <2> SUFFICES ASSUME m + 1 <= Len(list) PROVE Sound(u[m + 1], m + 1)
    OBVIOUS
  <2>1. PICK a : a = u[m]
    OBVIOUS
  <2>2. PICK b : b = u[m + 1]
    OBVIOUS
  <2>3. Sound(a, m)
    BY <1>1, <2>1
  <2>4. b = IF m \in a /\ list[m] \in Valued THEN a ELSE a \cup {m + 1}
    <3>1. (m + 1) - 1 = m
      OBVIOUS
    <3> QED
      BY <1>12, <2>1, <2>2, <3>1 DEF OptionsStep
  <2>5. b \subseteq 1..(m + 1) /\ \A i \in 0..m : i \in b <=> i \in a
    BY <2>3, <2>4
  <2>6. \A i \in 1..m : i \in b <=> ~(i - 1 \in b /\ list[i - 1] \in Valued)
    <3>1. \A i \in 1..m : i \in 0..m /\ i - 1 \in 0..m
      OBVIOUS
    <3> HIDE DEF T
    <3> QED
      BY <2>3, <2>5, <3>1
  <2>7. m + 1 \in b <=> ~(m \in b /\ list[m] \in Valued)
    <3>1. m \in 0..m /\ m + 1 \notin a
      BY <2>3
    <3> QED
      BY <2>4, <2>5, <3>1
  <2>8. \A i \in 1..(m + 1) : i \in 1..m \/ (i = m + 1 /\ i - 1 = m)
    OBVIOUS
  <2>9. \A i \in 1..(m + 1) : i \in b <=> ~(i - 1 \in b /\ list[i - 1] \in Valued)
    BY <2>6, <2>7, <2>8
  <2> QED
    BY <2>2, <2>5, <2>9
<1>15. T = Nat
  <2> HIDE DEF T
  <2> QED
    BY <1>13, <1>14, Induct DEF T
<1> QED
  BY <1>1, <1>10, <1>15

\* The first check that fails is reported.
LEMMA FirstIsReported ==
  ASSUME NEW checks, NEW k \in Nat, DOMAIN checks = 1..k,
         NEW i \in 1..k, checks[i].fails, \A j \in 1..(i - 1) : ~checks[j].fails
  PROVE  FirstFailure(checks) = checks[i].code
<1> DEFINE first(m) == checks[m].fails /\ \A j \in 1..(m - 1) : ~checks[j].fails
<1>1. first(i)
  OBVIOUS
<1>2. ASSUME NEW m \in 1..k, first(m) PROVE m = i
  <2>1. ~(m < i) /\ ~(i < m)
    BY <1>2
  <2> QED
    BY <2>1
<1>3. (CHOOSE m \in DOMAIN checks : first(m)) = i
  <2> HIDE DEF first
  <2> QED
    BY <1>1, <1>2
<1> QED
  BY <1>3 DEF FirstFailure

\* Lists of checks that agree up to one that fails report the same.
LEMMA FirstAgrees ==
  ASSUME NEW a, NEW b, NEW k \in Nat, DOMAIN a = 1..k, DOMAIN b = 1..k,
         NEW p \in 1..k, a[p].fails, \A i \in 1..p : a[i] = b[i]
  PROVE  FirstFailure(a) = FirstFailure(b)
<1> DEFINE F == {i \in 1..p : a[i].fails}
<1>1. PICK i \in F : \A j \in F : i <= j
  <2>1. F \subseteq Nat /\ p \in F
    OBVIOUS
  <2> HIDE DEF F
  <2> QED
    BY <2>1, Least
<1>2. i \in 1..p /\ a[i].fails /\ a[i] = b[i] /\ i \in 1..k
  OBVIOUS
<1>3. \A j \in 1..(i - 1) : ~a[j].fails /\ ~b[j].fails
  <2>1. \A j \in 1..(i - 1) : j \in 1..p /\ ~(i <= j)
    BY <1>2
  <2> QED
    BY <1>1, <2>1
<1>4. FirstFailure(a) = a[i].code
  BY <1>2, <1>3, FirstIsReported
<1>5. FirstFailure(b) = b[i].code
  <2>1. b[i].fails
    BY <1>2
  <2> QED
    BY <1>2, <1>3, <2>1, FirstIsReported
<1> QED
  BY <1>2, <1>4, <1>5

\* Whether there is room for the cells does not matter for a size out of range.
LEMMA OutOfRange ==
  ASSUME NEW fp, NEW o, NEW x, NEW y, ~SizeInRange(x), ~SizeInRange(y)
  PROVE  Prepare(fp, x, o) = Prepare(fp, y, o)
<1> DEFINE List(size) ==
      <<Check(fp = "empty", "invalid_fingerprint"),
        Check(~ValidShape(o.shape) \/ ~ValidStyle(o.frame), "invalid_argument"),
        Check(~SizeInRange(size), "invalid_size"),
        Check(~FrameAllowed(ResolveFrame(o.frame, fp, o.shape), o.shape), "invalid_frame"),
        Check(o.opaque /\ ~o.distinct, "low_contrast"),
        Check(MakeGeometry(size, o.shape, ResolveFrame(o.frame, fp, o.shape)).cell < 1,
              "invalid_size")>>
<1>1. Prepare(fp, x, o) = FirstFailure(List(x)) /\ Prepare(fp, y, o) = FirstFailure(List(y))
  BY Zenon DEF Prepare
<1>2. DOMAIN List(x) = 1..6 /\ DOMAIN List(y) = 1..6
  OBVIOUS
<1>3. List(x)[1] = List(y)[1] /\ List(x)[2] = List(y)[2]
  OBVIOUS
<1>4. List(x)[3] = Check(TRUE, "invalid_size") /\ List(y)[3] = Check(TRUE, "invalid_size")
  <2>1. (~SizeInRange(x)) = TRUE /\ (~SizeInRange(y)) = TRUE
    OBVIOUS
  <2>2. /\ List(x)[3] = Check(~SizeInRange(x), "invalid_size")
        /\ List(y)[3] = Check(~SizeInRange(y), "invalid_size")
    OBVIOUS
  <2> HIDE DEF List
  <2> QED
    BY Zenon, <2>1, <2>2
<1> HIDE DEF List
<1>5. List(x)[3].fails /\ \A i \in 1..3 : List(x)[i] = List(y)[i]
  <2>1. List(x)[3].fails
    BY <1>4 DEF Check
  <2>2. \A i \in 1..3 : i = 1 \/ i = 2 \/ i = 3
    OBVIOUS
  <2> QED
    BY <1>3, <1>4, <2>1, <2>2
<1>6. PICK a, b : a = List(x) /\ b = List(y)
  OBVIOUS
<1>7. PICK k, p : k = 6 /\ p = 3
  OBVIOUS
<1>8. FirstFailure(a) = FirstFailure(b)
  <2>1. k \in Nat /\ p \in 1..k
    BY <1>7
  <2>2. DOMAIN a = 1..k /\ DOMAIN b = 1..k
    BY <1>2, <1>6, <1>7
  <2>3. a[p].fails
    BY <1>5, <1>6, <1>7
  <2>4. \A i \in 1..p : a[i] = b[i]
    BY <1>5, <1>6, <1>7
  <2> QED
    BY <2>1, <2>2, <2>3, <2>4, FirstAgrees
<1> QED
  BY <1>1, <1>6, <1>8

\* The answer by its parts.
Answered(blank, digits, secret, drawn, format, quality) ==
  FirstFailure(<<
    Check(blank, "empty_input"), Check(digits, "invalid_hex"), Check(secret, "invalid_key"),
    Check(drawn # "ok", drawn), Check(format, "invalid_argument"),
    Check(quality, "invalid_quality")>>)

\* A request is answered alike whatever the numbers beyond what the library takes.
LEMMA BeyondIsBeyond ==
  ASSUME NEW q, NEW w,
         q.text = w.text, q.input = w.input, q.key = w.key, q.shape = w.shape,
         q.frame = w.frame, q.background = w.background, q.format = w.format,
         q.size = w.size \/ (~SizeInRange(q.size) /\ ~SizeInRange(w.size)),
         q.quality = w.quality \/ (q.quality \notin 50..100 /\ w.quality \notin 50..100)
  PROVE  Run(q) = Run(w)
<1> DEFINE Blank(v) == v.text /\ v.input = ""
           Digits(v) == ~v.text /\ (~Hex(v.input).valid \/ Hex(v.input).size = 0)
           Secret(v) == v.key # "" /\ (~FromHex(v.key) \/ Hex(v.key).size # 32 \/ Hex(v.key).zero)
           Drawn(v) == Prepare(ModeOf(v), v.size, OptionsOf(v))
           Format(v) == v.format \notin {"png", "bmp", "jpeg", "rgba"}
           Quality(v) == v.format = "jpeg" /\ v.quality \notin 50..100
<1>1. \A v : Run(v) = Answered(Blank(v), Digits(v), Secret(v), Drawn(v), Format(v), Quality(v))
  BY Zenon DEF Run, Answered
<1>2. Blank(q) = Blank(w) /\ Digits(q) = Digits(w)
  OBVIOUS
<1>3. Secret(q) = Secret(w) /\ Format(q) = Format(w)
  OBVIOUS
<1>4. Quality(q) = Quality(w)
  OBVIOUS
<1>5. Drawn(q) = Drawn(w)
  <2>1. PICK fp, o : fp = ModeOf(q) /\ o = OptionsOf(q)
    OBVIOUS
  <2>2. ModeOf(w) = fp /\ OptionsOf(w) = o
    BY <2>1 DEF ModeOf, OptionsOf
  <2>3. Prepare(fp, q.size, o) = Prepare(fp, w.size, o)
    BY OutOfRange
  <2> QED
    BY <2>1, <2>2, <2>3
<1> HIDE DEF Blank, Digits, Secret, Drawn, Format, Quality
<1> QED
  BY Zenon, <1>1, <1>2, <1>3, <1>4, <1>5

\* A number is kept, or both it and what is kept are beyond what the library takes.
LEMMA NumbersKept ==
  ASSUME NEW w \in KnownWords, IsNumber(w)
  PROVE  /\ Number(w).value \in Nat
         /\ \/ ParseNumber(w) = Number(w).value
            \/ ParseNumber(w) > 1024 /\ ParseNumber(w) \in Nat /\ Number(w).value > 1024
<1>1. PICK v \in Nat : v = Number(w).value
  BY WordsAssumption DEF IsNumber
<1>2. MaxNumber \in Nat /\ MaxNumber > 1024
  BY MaxNumberAssumption
<1>3. ParseNumber(w) = IF v < MaxNumber THEN v ELSE MaxNumber
  BY <1>1 DEF ParseNumber, Smaller
<1> QED
  BY <1>1, <1>2, <1>3

\* The fields are words.
LEMMA FieldsType ==
  ASSUME NEW line \in Seq(KnownWords)
  PROVE  FieldsByFormat(line) \in Seq(KnownWords)
<1>1. PICK g : g = SplitFields(line)
  OBVIOUS
<1>2. g \in Seq(Seq(KnownWords)) /\ FieldsByFormat(line) = [k \in DOMAIN g |-> Word(g[k])]
  BY <1>1, SplitByFormat
<1>3. PICK m \in Nat : m = Len(g)
  BY <1>2, LenProperties
<1>4. DOMAIN g = 1..m
  BY <1>2, <1>3, LenProperties
<1>5. ASSUME NEW k \in 1..m PROVE Word(g[k]) \in KnownWords
  <2>1. PICK w : w = g[k]
    OBVIOUS
  <2>2. w \in Seq(KnownWords)
    BY <1>2, <1>3, <2>1, ElementOfSeq
  <2>3. Len(w) = 1 => w[1] \in KnownWords
    BY <2>2, ElementOfSeq
  <2>4. "glued" \in KnownWords
    BY DEF KnownWords
  <2> QED
    BY <2>1, <2>3, <2>4 DEF Word
<1>6. FieldsByFormat(line) = [k \in 1..m |-> Word(g[k])]
  BY <1>2, <1>4
<1> QED
  BY <1>5, <1>6, IsASeq

\* What the format says of a line is what is made of its fields.
LEMMA SaysIs ==
  ASSUME NEW line \in Seq(KnownWords)
  PROVE  SaysOf(line) = IF IsCase(FieldsByFormat(line))
                        THEN Run(RequestOf(FieldsByFormat(line))) ELSE "bad_case"
<1> DEFINE Legal(f) ==
             /\ Len(f) = 11 /\ f[1] \in {"hex", "text"}
             /\ Number(f[4]).valid /\ Number(f[8]).valid /\ Number(f[10]).valid
             /\ Number(f[8]).value <= 255
             /\ f[5] \in Shape /\ f[6] \in DOMAIN FrameNames
             /\ IsRgba(f[7]) /\ IsRgb(f[11]) /\ (f[1] = "text" => FromHex(f[2]))
           Meant(f) == [RequestOf(f) EXCEPT !.size = Number(f[4]).value,
                                            !.quality = Number(f[10]).value]
<1>1. SaysOf(line) = IF ~Legal(FieldsByFormat(line)) THEN "bad_case"
                     ELSE Run(Meant(FieldsByFormat(line)))
  BY Zenon DEF SaysOf
<1>2. PICK f : f = FieldsByFormat(line)
  OBVIOUS
<1>3. f \in Seq(KnownWords)
  BY <1>2, FieldsType
<1>4. \A k \in 1..11 : Len(f) = 11 => f[k] \in KnownWords
  <2>1. \A k \in 1..11 : Len(f) = 11 => k \in 1..Len(f)
    OBVIOUS
  <2> QED
    BY <1>3, <2>1, ElementOfSeq
<1>5. IsCase(f) <=> Legal(f)
  <2>1. ASSUME Len(f) = 11, IsNumber(f[8])
        PROVE  ParseNumber(f[8]) <= 255 <=> Number(f[8]).value <= 255
    <3>1. PICK w : w = f[8]
      OBVIOUS
    <3>2. w \in KnownWords /\ IsNumber(w)
      BY <1>4, <2>1, <3>1
    <3>3. /\ Number(w).value \in Nat
          /\ \/ ParseNumber(w) = Number(w).value
             \/ ParseNumber(w) > 1024 /\ ParseNumber(w) \in Nat /\ Number(w).value > 1024
      BY <3>2, NumbersKept
    <3>4. ParseNumber(w) <= 255 <=> Number(w).value <= 255
      BY <3>3
    <3> QED
      BY <3>1, <3>4
  <2> QED
    BY <2>1 DEF IsCase, IsNumber
<1>6. ASSUME IsCase(f) PROVE Run(Meant(f)) = Run(RequestOf(f))
  <2>1. Len(f) = 11 /\ IsNumber(f[4]) /\ IsNumber(f[10])
    BY <1>6 DEF IsCase
  <2>2. PICK w : w = RequestOf(f)
    OBVIOUS
  <2>3. PICK q : q = Meant(f)
    OBVIOUS
  <2>4. PICK x, y : x = f[4] /\ y = f[10]
    OBVIOUS
  <2>5. x \in KnownWords /\ y \in KnownWords /\ IsNumber(x) /\ IsNumber(y)
    BY <1>4, <2>1, <2>4
  <2>6. w.size = ParseNumber(x) /\ w.quality = ParseNumber(y)
    BY <2>2, <2>4 DEF RequestOf
  <2>7. /\ q.text = w.text /\ q.input = w.input /\ q.key = w.key /\ q.shape = w.shape
        /\ q.frame = w.frame /\ q.background = w.background /\ q.format = w.format
        /\ q.size = Number(x).value /\ q.quality = Number(y).value
    BY <2>2, <2>3, <2>4 DEF RequestOf
  <2>8. q.size = w.size \/ (~SizeInRange(q.size) /\ ~SizeInRange(w.size))
    <3>1. PICK e, d : e = ParseNumber(x) /\ d = Number(x).value
      OBVIOUS
    <3>2. d \in Nat /\ (e = d \/ (e > 1024 /\ e \in Nat /\ d > 1024))
      BY <2>5, <3>1, NumbersKept
    <3>3. w.size = e /\ q.size = d
      BY <2>6, <2>7, <3>1
    <3>4. e = d \/ (d \notin 16..1024 /\ e \notin 16..1024)
      <4>1. CASE e > 1024 /\ e \in Nat /\ d > 1024
        <5>1. d > 1024 /\ e > 1024 /\ d \in Nat /\ e \in Nat
          BY <3>2, <4>1
        <5> QED
          BY <5>1
      <4> QED
        BY <3>2, <4>1
    <3> QED
      BY <3>3, <3>4 DEF SizeInRange
  <2>9. q.quality = w.quality \/ (q.quality \notin 50..100 /\ w.quality \notin 50..100)
    <3>1. PICK e, d : e = ParseNumber(y) /\ d = Number(y).value
      OBVIOUS
    <3>2. d \in Nat /\ (e = d \/ (e > 1024 /\ e \in Nat /\ d > 1024))
      BY <2>5, <3>1, NumbersKept
    <3>3. w.quality = e /\ q.quality = d
      BY <2>6, <2>7, <3>1
    <3>4. e = d \/ (d \notin 50..100 /\ e \notin 50..100)
      <4>1. CASE e > 1024 /\ e \in Nat /\ d > 1024
        <5>1. d > 1024 /\ e > 1024 /\ d \in Nat /\ e \in Nat
          BY <3>2, <4>1
        <5> QED
          BY <5>1
      <4> QED
        BY <3>2, <4>1
    <3> QED
      BY <3>3, <3>4
  <2> HIDE DEF Meant
  <2>10. Run(q) = Run(w)
    BY <2>7, <2>8, <2>9, BeyondIsBeyond
  <2> QED
    BY <2>2, <2>3, <2>10
<1> HIDE DEF Legal, Meant
<1> QED
  BY <1>1, <1>2, <1>5, <1>6

CliSpec == CliInit /\ [][CliNext]_cli_vars

-----------------------------------------------------------------------------
(* A batch *)

\* A sequence of anything.
IsList(list) == list \in Seq(Range(list))

\* A list with one more entry.
LEMMA ListAppended ==
  ASSUME NEW list, IsList(list), NEW x
  PROVE  /\ IsList(Append(list, x)) /\ Len(list) \in Nat
         /\ Len(Append(list, x)) = Len(list) + 1 /\ Append(list, x)[Len(list) + 1] = x
         /\ \A k \in 1..Len(list) : Append(list, x)[k] = list[k]
<1> DEFINE S == Range(list) \cup {x}
<1>1. Range(list) \subseteq S /\ x \in S
  OBVIOUS
<1>2. list \in Seq(S)
  BY <1>1, SeqMonotonic DEF IsList
<1> HIDE DEF S
<1>3. PICK e : e = Append(list, x)
  OBVIOUS
<1>4. /\ e \in Seq(S) /\ Len(e) = Len(list) + 1 /\ Len(list) \in Nat
      /\ e[Len(list) + 1] = x /\ \A k \in 1..Len(list) : e[k] = list[k]
  BY <1>1, <1>2, <1>3, AppendProperties, LenProperties
<1>5. e \in Seq(Range(e))
  <2>1. DOMAIN e = 1..Len(e) /\ Len(e) \in Nat /\ e = [i \in 1..Len(e) |-> e[i]]
    BY <1>4, LenProperties
  <2>2. \A i \in 1..Len(e) : e[i] \in Range(e)
    BY <2>1 DEF Range
  <2> QED
    BY <2>1, <2>2, IsASeq
<1> QED
  BY <1>3, <1>4, <1>5 DEF IsList

Replaced(list, i, x) == [list EXCEPT ![i] = x]

\* A list with one entry replaced.
LEMMA ListReplaced ==
  ASSUME NEW list, IsList(list), NEW i \in 1..Len(list), NEW x, NEW e,
         e = Replaced(list, i, x)
  PROVE  /\ IsList(e) /\ Len(e) = Len(list) /\ Len(list) \in Nat /\ e[i] = x
         /\ \A k \in 1..Len(list) : k # i => e[k] = list[k]
<1> DEFINE S == Range(list) \cup {x}
<1>1. Range(list) \subseteq S /\ x \in S
  OBVIOUS
<1>2. list \in Seq(S)
  BY <1>1, SeqMonotonic DEF IsList
<1> HIDE DEF S
<1>4. e \in Seq(S) /\ Len(e) = Len(list) /\ Len(list) \in Nat
  BY <1>1, <1>2, ExceptSeq, LenProperties DEF Replaced
<1>5. /\ DOMAIN list = 1..Len(list) /\ e[i] = x
      /\ \A k \in 1..Len(list) : k # i => e[k] = list[k]
  BY <1>2, LenProperties DEF Replaced
<1>6. e \in Seq(Range(e))
  <2>1. DOMAIN e = 1..Len(e) /\ Len(e) \in Nat /\ e = [j \in 1..Len(e) |-> e[j]]
    BY <1>4, LenProperties
  <2>2. \A j \in 1..Len(e) : e[j] \in Range(e)
    BY <2>1 DEF Range
  <2> QED
    BY <2>1, <2>2, IsASeq
<1> QED
  BY <1>4, <1>5, <1>6 DEF IsList

\* The request of a case, and where its picture goes.
AskedBy(c, k) == RequestOf(FieldsByFormat(c[k]))
FileOf(c, k) == <<k, AskedBy(c, k).format>>
Oks(c, m) == {k \in 1..m : SaysOf(c[k]) = "ok"}

\* A line of output, under its number, that says what the format says of the case.
Says(x, k, line) ==
  /\ {"n", "says", "whole"} \subseteq DOMAIN x
  /\ x.n = k
  /\ x.says = SaysOf(line)

\* The lines of output of the cases c.
Listed(list, c) == Len(list) = Len(c) /\ \A k \in 1..Len(c) : Says(list[k], k, c[k])

\* The first m lines are finished, and their files are there.
Finished(list, m) == \A k \in 1..m : list[k].whole = TRUE
Named(fs, c, m) == DOMAIN fs = {FileOf(c, k) : k \in Oks(c, m)}
Filed(fs, un, c, m) ==
  \A k \in Oks(c, m) : /\ fs[FileOf(c, k)].of = AskedBy(c, k)
                       /\ fs[FileOf(c, k)].whole = TRUE \/ "close" \in un

\* The last line is not finished.
Unfinished(list, c, m) ==
  m # 0 /\ SaysOf(c[m]) = "ok" /\ list[m].whole = FALSE /\ Finished(list, m - 1)

CliType ==
  /\ argv \in Seq(KnownWords) /\ lines \in Seq(Seq(KnownWords))
  /\ at \in Nat /\ at <= Len(lines)
  /\ cli_pc \in {"args", "single", "batch", "line", "write", "done"}

\* Nothing is printed or written before a batch begins or a picture is answered.
NothingYet ==
  cli_pc \in {"args", "single", "batch"} =>
    at = 0 /\ n = 0 /\ printed = <<>> /\ files = <<>> /\ cli_rc = 0

InBatch == cli_pc = "line" \/ at # 0

BatchLines == InBatch => IsList(printed) /\ n = Len(CasesRead) /\ Listed(printed, CasesRead)

BatchFiles ==
  InBatch =>
    /\ cli_pc \in {"line", "done"} /\ cli_rc = 0 =>
         /\ Finished(printed, n) /\ Named(files, CasesRead, n)
         /\ Filed(files, unnoticed, CasesRead, n)
    /\ cli_pc = "write" =>
         /\ Unfinished(printed, CasesRead, n) /\ Named(files, CasesRead, n - 1)
         /\ Filed(files, unnoticed, CasesRead, n - 1)
         /\ out_path = FileOf(CasesRead, n) /\ rq = AskedBy(CasesRead, n)
    /\ cli_pc = "done" /\ cli_rc # 0 =>
         /\ Unfinished(printed, CasesRead, n) /\ Named(files, CasesRead, n)
         /\ Filed(files, unnoticed, CasesRead, n - 1)
    /\ cli_pc \in {"line", "write"} => cli_rc = 0
    /\ cli_pc = "done" /\ cli_rc = 0 /\ "read" \notin unnoticed => at = Len(lines)

BatchIInv == CliType /\ NothingYet /\ BatchLines /\ BatchFiles

\* The lists are lists of words.
LEMMA ListsAreWords ==
  /\ \A list \in ArgumentLists : list \in Seq(KnownWords)
  /\ \A file \in CaseFiles : file \in Seq(Seq(KnownWords))
<1>1. ASSUME NEW list \in ArgumentLists PROVE list \in Seq(KnownWords)
  <2>1. list \in Seq(STRING)
    BY ListsAssumption
  <2>2. DOMAIN list = 1..Len(list) /\ Len(list) \in Nat /\ list = [i \in 1..Len(list) |-> list[i]]
    BY <2>1, LenProperties
  <2>3. \A i \in 1..Len(list) : list[i] \in KnownWords
    <3>1. \A i \in 1..Len(list) : list[i] \in Range(list)
      BY <2>2 DEF Range
    <3>2. Range(list) \in {Range(e) : e \in ArgumentLists}
      OBVIOUS
    <3>3. Range(list) \subseteq KnownWords
      BY <3>2 DEF KnownWords
    <3> QED
      BY <3>1, <3>3
  <2> QED
    BY <2>2, <2>3, IsASeq
<1>2. ASSUME NEW file \in CaseFiles PROVE file \in Seq(Seq(KnownWords))
  <2>1. file \in Seq(Seq(STRING))
    BY ListsAssumption
  <2>2. DOMAIN file = 1..Len(file) /\ Len(file) \in Nat /\ file = [i \in 1..Len(file) |-> file[i]]
    BY <2>1, LenProperties
  <2>3. ASSUME NEW i \in 1..Len(file) PROVE file[i] \in Seq(KnownWords)
    <3>1. PICK line : line = file[i]
      OBVIOUS
    <3>2. line \in Seq(STRING) /\ line \in Range(file)
      BY <2>1, <2>2, <3>1, ElementOfSeq DEF Range
    <3>3. /\ DOMAIN line = 1..Len(line) /\ Len(line) \in Nat
          /\ line = [j \in 1..Len(line) |-> line[j]]
      BY <3>2, LenProperties
    <3>4. \A j \in 1..Len(line) : line[j] \in Range(line)
      BY <3>3 DEF Range
    <3>5. \A j \in 1..Len(line) : line[j] \in KnownWords
      <4>1. ASSUME NEW w \in Range(line) PROVE w \in KnownWords
        <5>1. w \in UNION {Range(e) : e \in Range(file)}
          BY <3>2
        <5> QED
          BY <5>1 DEF KnownWords
      <4> QED
        BY <3>4, <4>1
    <3> QED
      BY <3>1, <3>3, <3>5, IsASeq
  <2> QED
    BY <2>2, <2>3, IsASeq
<1> QED
  BY <1>1, <1>2

\* The invariant holds before an argument is read.
LEMMA InitBatch == CliInit => BatchIInv
<1> SUFFICES ASSUME CliInit PROVE BatchIInv
  OBVIOUS
<1>1. lines \in Seq(Seq(KnownWords))
  <2>1. <<>> \in Seq(Seq(KnownWords))
    BY EmptySeq
  <2> QED
    BY <2>1, ListsAreWords DEF CliInit
<1>2. argv \in Seq(KnownWords)
  BY ListsAreWords DEF CliInit
<1>3. Len(lines) \in Nat
  BY <1>1, LenProperties
<1> QED
  BY <1>1, <1>2, <1>3 DEF CliInit, BatchIInv, CliType, NothingYet, InBatch, BatchLines, BatchFiles

\* The cases so far stay what they are.
LEMMA CasesStay ==
  ASSUME NEW c, NEW d, NEW m \in Nat, \A k \in 1..m : c[k] = d[k], NEW fs, NEW un
  PROVE  /\ Oks(d, m) = Oks(c, m)
         /\ Named(fs, c, m) => Named(fs, d, m)
         /\ Filed(fs, un, c, m) => Filed(fs, un, d, m)
<1>1. \A k \in 1..m : FileOf(c, k) = FileOf(d, k) /\ AskedBy(c, k) = AskedBy(d, k)
  BY DEF FileOf, AskedBy
<1>2. Oks(d, m) = Oks(c, m)
  BY DEF Oks
<1>3. \A k \in Oks(c, m) : k \in 1..m
  BY DEF Oks
<1>4. Named(fs, c, m) => Named(fs, d, m)
  BY <1>1, <1>2, <1>3 DEF Named
<1>5. Filed(fs, un, c, m) => Filed(fs, un, d, m)
  BY <1>1, <1>2, <1>3 DEF Filed
<1> QED
  BY <1>2, <1>4, <1>5

\* The cases that say ok, with one more case.
LEMMA OneMoreCase ==
  ASSUME NEW c, NEW m \in Nat
  PROVE  Oks(c, m + 1) = IF SaysOf(c[m + 1]) = "ok" THEN Oks(c, m) \cup {m + 1} ELSE Oks(c, m)
<1>1. \A k \in 1..(m + 1) : k \in 1..m \/ k = m + 1
  OBVIOUS
<1>2. \A k \in 1..m : k \in 1..(m + 1)
  OBVIOUS
<1>3. m + 1 \in 1..(m + 1)
  OBVIOUS
<1> QED
  BY <1>1, <1>2, <1>3 DEF Oks

\* The line that is next.
LEMMA NextLine ==
  ASSUME CliType, at < Len(lines)
  PROVE  /\ TextLine \in Seq(KnownWords)
         /\ Fields = FieldsByFormat(TextLine)
         /\ CasesRead \in Seq(Seq(KnownWords))
         /\ CasesAmong(lines, at + 1) = IF Skipped(TextLine) THEN CasesRead
                                        ELSE Append(CasesRead, TextLine)
         /\ at + 1 \in Nat /\ at + 1 <= Len(lines)
<1>1. /\ lines \in Seq(Seq(KnownWords)) /\ at \in Nat /\ Len(lines) \in Nat
  BY LenProperties DEF CliType
<1>2. at + 1 \in 1..Len(lines) /\ at \in 0..Len(lines) /\ at \in 0..(Len(lines) - 1)
  BY <1>1
<1>3. TextLine \in Seq(KnownWords)
  <2>1. lines[at + 1] \in Seq(KnownWords)
    BY <1>1, <1>2, ElementOfSeq
  <2> QED
    BY <2>1, ChompType DEF TextLine
<1>4. Fields = FieldsByFormat(TextLine)
  BY <1>3, SplitByFormat DEF Fields
<1>5. /\ CasesRead \in Seq(Seq(KnownWords))
      /\ CasesAmong(lines, at + 1) = CasesStep(CasesRead, lines[at + 1])
  BY <1>1, <1>2, CasesOneByOne DEF CasesRead
<1> QED
  BY <1>1, <1>2, <1>3, <1>4, <1>5 DEF CasesStep, TextLine

\* One more case, and its line of output.
CaseAdded(list, c, m, line, x, d, e) ==
  /\ IsList(e) /\ Listed(e, d) /\ Len(d) = m + 1 /\ m \in Nat
  /\ d[m + 1] = line /\ e[m + 1] = x
  /\ \A k \in 1..m : d[k] = c[k] /\ e[k] = list[k]

\* A case and its line of output are added together.
LEMMA ListedAppend ==
  ASSUME NEW list, IsList(list), NEW c, c \in Seq(Seq(KnownWords)), Listed(list, c), NEW m, m = Len(c),
         NEW line, line \in Seq(KnownWords), NEW x, Says(x, m + 1, line),
         NEW d, d = Append(c, line), NEW e, e = Append(list, x)
  PROVE  CaseAdded(list, c, m, line, x, d, e)
<1>1. m \in Nat
  BY LenProperties
<1>3. Len(d) = m + 1 /\ d[m + 1] = line /\ \A k \in 1..m : d[k] = c[k]
  BY <1>1, AppendProperties
<1>5. Len(list) = m
  BY <1>1 DEF Listed
<1>6. IsList(e) /\ Len(e) = m + 1 /\ e[m + 1] = x /\ \A k \in 1..m : e[k] = list[k]
  BY <1>5, ListAppended
<1>7. Listed(e, d)
  <2>1. ASSUME NEW k \in 1..(m + 1)
        PROVE  Says(e[k], k, d[k])
    <3>1. CASE k = m + 1
      BY <1>1, <1>3, <1>6, <3>1
    <3>2. CASE k # m + 1
      <4>1. k \in 1..m
        BY <3>2
      <4> QED
        BY <1>3, <1>6, <4>1 DEF Listed
    <3> QED
      BY <3>1, <3>2
  <2> QED
    BY <1>3, <1>6, <2>1 DEF Listed
<1> QED
  BY <1>1, <1>3, <1>6, <1>7 DEF CaseAdded

\* A line that is skipped prints nothing.
LEMMA SkipKeeps == BatchIInv /\ SkipLine => BatchIInv'
<1> SUFFICES ASSUME BatchIInv, SkipLine PROVE BatchIInv'
  OBVIOUS
<1>1. /\ cli_pc = "line" /\ cli_pc' = cli_pc /\ at < Len(lines) /\ Skipped(TextLine) /\ at' = at + 1
      /\ lines' = lines /\ argv' = argv /\ printed' = printed /\ files' = files /\ n' = n
      /\ unnoticed' = unnoticed /\ cli_rc' = cli_rc
  BY DEF SkipLine
<1>2. CasesRead' = CasesRead /\ at + 1 \in Nat /\ at + 1 <= Len(lines)
  BY <1>1, NextLine DEF BatchIInv, CasesRead
<1>3. CliType' /\ NothingYet'
  BY <1>1, <1>2 DEF BatchIInv, CliType, NothingYet
<1>4. BatchLines'
  BY <1>1, <1>2 DEF BatchIInv, BatchLines, InBatch
<1>5. BatchFiles'
  BY <1>1, <1>2 DEF BatchIInv, BatchFiles, InBatch
<1> QED
  BY <1>3, <1>4, <1>5 DEF BatchIInv

\* A line that is no case says so.
LEMMA BadCaseKeeps == BatchIInv /\ BadCase => BatchIInv'
<1> SUFFICES ASSUME BatchIInv, BadCase PROVE BatchIInv'
  OBVIOUS
<1>1. /\ cli_pc = "line" /\ cli_pc' = cli_pc /\ at < Len(lines) /\ ~Skipped(TextLine) /\ at' = at + 1
      /\ ~IsCase(Fields) /\ n' = n + 1
      /\ printed' = Append(printed, [n |-> n + 1, says |-> "bad_case", whole |-> TRUE])
      /\ lines' = lines /\ argv' = argv /\ files' = files
      /\ unnoticed' = unnoticed /\ cli_rc' = cli_rc
  BY DEF BadCase
<1>2. /\ TextLine \in Seq(KnownWords) /\ Fields = FieldsByFormat(TextLine)
      /\ CasesRead \in Seq(Seq(KnownWords)) /\ CasesRead' = Append(CasesRead, TextLine)
      /\ at + 1 \in Nat /\ at + 1 <= Len(lines)
  BY <1>1, NextLine DEF BatchIInv, CasesRead
<1>3. /\ IsList(printed) /\ n = Len(CasesRead) /\ Listed(printed, CasesRead)
      /\ Finished(printed, n) /\ Named(files, CasesRead, n)
      /\ Filed(files, unnoticed, CasesRead, n) /\ cli_rc = 0
  BY <1>1 DEF BatchIInv, BatchLines, BatchFiles, InBatch
<1>4. PICK c, d, line, e : c = CasesRead /\ d = CasesRead' /\ line = TextLine /\ e = printed'
  OBVIOUS
<1>5. PICK x : x = [n |-> n + 1, says |-> "bad_case", whole |-> TRUE]
  OBVIOUS
<1>6. SaysOf(line) = "bad_case"
  BY <1>1, <1>2, <1>4, SaysIs
<1>7. Says(x, Len(c) + 1, line) /\ x.whole = TRUE
  BY <1>3, <1>4, <1>5, <1>6 DEF Says
<1>8. d = Append(c, line) /\ e = Append(printed, x) /\ Len(c) = n
  BY <1>1, <1>2, <1>3, <1>4, <1>5
<1>9. /\ IsList(e) /\ Listed(e, d) /\ Len(d) = n + 1 /\ n \in Nat
      /\ d[n + 1] = line /\ e[n + 1] = x
      /\ \A k \in 1..n : d[k] = c[k] /\ e[k] = printed[k]
  <2>1. IsList(printed) /\ c \in Seq(Seq(KnownWords)) /\ Listed(printed, c) /\ n = Len(c)
    BY <1>2, <1>3, <1>4
  <2>2. line \in Seq(KnownWords) /\ Says(x, n + 1, line)
    BY <1>2, <1>4, <1>7, <1>8
  <2>3. PICK list, m : list = printed /\ m = n
    OBVIOUS
  <2>4. /\ IsList(list) /\ c \in Seq(Seq(KnownWords)) /\ Listed(list, c) /\ m = Len(c)
        /\ line \in Seq(KnownWords) /\ Says(x, m + 1, line)
        /\ d = Append(c, line) /\ e = Append(list, x)
    BY <1>8, <2>1, <2>2, <2>3
  <2>5. CaseAdded(list, c, m, line, x, d, e)
    BY Zenon, <2>4, ListedAppend
  <2>6. CaseAdded(printed, c, n, line, x, d, e)
    BY <2>3, <2>5
  <2> QED
    BY <2>6 DEF CaseAdded
<1>10. Oks(d, n + 1) = Oks(d, n)
  BY <1>6, <1>9, OneMoreCase
<1>11. Named(files, d, n) /\ Filed(files, unnoticed, d, n)
  BY <1>3, <1>4, <1>9, CasesStay
<1>12. Named(files, d, n + 1) /\ Filed(files, unnoticed, d, n + 1)
  BY <1>10, <1>11 DEF Named, Filed
<1>13. Finished(e, n + 1)
  <2>1. \A k \in 1..(n + 1) : k = n + 1 \/ k \in 1..n
    BY <1>9
  <2> QED
    BY <1>3, <1>7, <1>9, <2>1 DEF Finished
<1>14. CliType' /\ NothingYet'
  BY <1>1, <1>2 DEF BatchIInv, CliType, NothingYet
<1>15. BatchLines'
  BY <1>1, <1>4, <1>9 DEF BatchLines
<1>16. BatchFiles'
  BY <1>1, <1>3, <1>4, <1>12, <1>13 DEF BatchFiles
<1> QED
  BY <1>14, <1>15, <1>16 DEF BatchIInv

\* A case is answered as the format asks.
LEMMA AnswerKeeps == BatchIInv /\ AnswerCase => BatchIInv'
<1> SUFFICES ASSUME BatchIInv, AnswerCase PROVE BatchIInv'
  OBVIOUS
<1>1. PICK w : w = RequestOf(Fields)
  OBVIOUS
<1>2. PICK x : x = IF Run(w) # "ok" THEN [n |-> n + 1, says |-> Run(w), whole |-> TRUE]
                   ELSE [n |-> n + 1, says |-> "ok", whole |-> FALSE, mode |-> ModeOf(w)]
  OBVIOUS
<1>3. /\ cli_pc = "line" /\ at < Len(lines) /\ ~Skipped(TextLine) /\ at' = at + 1
      /\ IsCase(Fields) /\ n' = n + 1 /\ rq' = w
      /\ printed' = Append(printed, x)
      /\ out_path' = IF Run(w) = "ok" THEN <<n + 1, w.format>> ELSE <<>>
      /\ cli_pc' = IF Run(w) = "ok" THEN "write" ELSE "line"
      /\ lines' = lines /\ argv' = argv /\ files' = files
      /\ unnoticed' = unnoticed /\ cli_rc' = cli_rc
  BY <1>1, <1>2 DEF AnswerCase
<1>4. /\ TextLine \in Seq(KnownWords) /\ Fields = FieldsByFormat(TextLine)
      /\ CasesRead \in Seq(Seq(KnownWords)) /\ CasesRead' = Append(CasesRead, TextLine)
      /\ at + 1 \in Nat /\ at + 1 <= Len(lines)
  BY <1>3, NextLine DEF BatchIInv, CasesRead
<1>5. /\ IsList(printed) /\ n = Len(CasesRead) /\ Listed(printed, CasesRead)
      /\ Finished(printed, n) /\ Named(files, CasesRead, n)
      /\ Filed(files, unnoticed, CasesRead, n) /\ cli_rc = 0
  BY <1>3 DEF BatchIInv, BatchLines, BatchFiles, InBatch
<1>6. PICK c, d, line, e : c = CasesRead /\ d = CasesRead' /\ line = TextLine /\ e = printed'
  OBVIOUS
<1>7. SaysOf(line) = Run(w)
  BY <1>1, <1>3, <1>4, <1>6, SaysIs
<1>8. /\ Says(x, Len(c) + 1, line)
      /\ Run(w) # "ok" => x.whole = TRUE
      /\ Run(w) = "ok" => x.whole = FALSE
  <2>1. CASE Run(w) = "ok"
    <3>1. x = [n |-> n + 1, says |-> "ok", whole |-> FALSE, mode |-> ModeOf(w)]
      BY <1>2, <2>1
    <3> QED
      BY <1>5, <1>6, <1>7, <2>1, <3>1 DEF Says
  <2>2. CASE Run(w) # "ok"
    <3>1. x = [n |-> n + 1, says |-> Run(w), whole |-> TRUE]
      BY <1>2, <2>2
    <3> QED
      BY <1>5, <1>6, <1>7, <2>2, <3>1 DEF Says
  <2> QED
    BY <2>1, <2>2
<1>9. d = Append(c, line) /\ e = Append(printed, x) /\ Len(c) = n
  BY <1>3, <1>4, <1>5, <1>6
<1>10. /\ IsList(e) /\ Listed(e, d) /\ Len(d) = n + 1 /\ n \in Nat
       /\ d[n + 1] = line /\ e[n + 1] = x
       /\ \A k \in 1..n : d[k] = c[k] /\ e[k] = printed[k]
  <2>1. IsList(printed) /\ c \in Seq(Seq(KnownWords)) /\ Listed(printed, c) /\ n = Len(c)
    BY <1>4, <1>5, <1>6
  <2>2. line \in Seq(KnownWords) /\ Says(x, n + 1, line)
    BY <1>4, <1>6, <1>8, <1>9
  <2>3. PICK list, m : list = printed /\ m = n
    OBVIOUS
  <2>4. /\ IsList(list) /\ c \in Seq(Seq(KnownWords)) /\ Listed(list, c) /\ m = Len(c)
        /\ line \in Seq(KnownWords) /\ Says(x, m + 1, line)
        /\ d = Append(c, line) /\ e = Append(list, x)
    BY <1>9, <2>1, <2>2, <2>3
  <2>5. CaseAdded(list, c, m, line, x, d, e)
    BY Zenon, <2>4, ListedAppend
  <2>6. CaseAdded(printed, c, n, line, x, d, e)
    BY <2>3, <2>5
  <2> QED
    BY <2>6 DEF CaseAdded
<1>11. Named(files, d, n) /\ Filed(files, unnoticed, d, n)
  BY <1>5, <1>6, <1>10, CasesStay
<1>12. Finished(e, n)
  BY <1>5, <1>10 DEF Finished
<1>13. CliType' /\ NothingYet'
  BY <1>3, <1>4 DEF BatchIInv, CliType, NothingYet
<1>14. BatchLines'
  BY <1>3, <1>6, <1>10 DEF BatchLines
<1>15. BatchFiles'
  <2>1. CASE Run(w) = "ok"
    <3>1. (n + 1) - 1 = n /\ n + 1 # 0
      BY <1>10
    <3>2. Unfinished(e, d, n + 1)
      BY <1>7, <1>8, <1>10, <1>12, <2>1, <3>1 DEF Unfinished
    <3>3. AskedBy(d, n + 1) = w
      BY <1>1, <1>4, <1>6, <1>10 DEF AskedBy
    <3>4. FileOf(d, n + 1) = out_path'
      BY <1>3, <2>1, <3>3 DEF FileOf
    <3> QED
      BY <1>3, <1>5, <1>6, <1>11, <2>1, <3>1, <3>2, <3>3, <3>4 DEF BatchFiles
  <2>2. CASE Run(w) # "ok"
    <3>1. Oks(d, n + 1) = Oks(d, n)
      BY <1>7, <1>10, <2>2, OneMoreCase
    <3>2. Named(files, d, n + 1) /\ Filed(files, unnoticed, d, n + 1)
      BY <1>11, <3>1 DEF Named, Filed
    <3>3. Finished(e, n + 1)
      <4>1. \A k \in 1..(n + 1) : k = n + 1 \/ k \in 1..n
        BY <1>10
      <4> QED
        BY <1>8, <1>10, <1>12, <2>2, <4>1 DEF Finished
    <3> QED
      BY <1>3, <1>5, <1>6, <2>2, <3>2, <3>3 DEF BatchFiles
  <2> QED
    BY <2>1, <2>2
<1> QED
  BY <1>13, <1>14, <1>15 DEF BatchIInv

\* A file that is written is there with the request it was asked for.
LEMMA PutIs ==
  ASSUME NEW fs, NEW place, NEW w, NEW whole \in BOOLEAN, NEW g,
         g = [p \in DOMAIN fs \cup {place} |->
                IF p = place THEN [of |-> w, whole |-> whole] ELSE fs[p]]
  PROVE  /\ DOMAIN g = DOMAIN fs \cup {place}
         /\ g[place].of = w /\ g[place].whole = whole
         /\ \A p \in DOMAIN fs : p # place => g[p] = fs[p]
<1>1. PICK v : v = [of |-> w, whole |-> whole]
  OBVIOUS
<1>2. v.of = w /\ v.whole = whole
  BY <1>1
<1>3. g = [p \in DOMAIN fs \cup {place} |-> IF p = place THEN v ELSE fs[p]]
  BY <1>1
<1> QED
  BY <1>2, <1>3

\* The place of a case is its own.
LEMMA OwnPlace ==
  ASSUME NEW c, NEW k, NEW j, k # j
  PROVE  FileOf(c, k) # FileOf(c, j)
BY DEF FileOf

\* Writing a file finishes the last line, or the batch.
LEMMA WriteKeepsBatch == BatchIInv /\ Write => BatchIInv'
<1> SUFFICES ASSUME BatchIInv, Write PROVE BatchIInv'
  OBVIOUS
<1>1. /\ cli_pc = "write" /\ (WriteDone(at > 0) \/ WriteFailed(at > 0))
      /\ argv' = argv /\ lines' = lines /\ at' = at /\ rq' = rq /\ out_path' = out_path /\ n' = n
  BY DEF Write
<1>2. at \in Nat
  BY DEF BatchIInv, CliType
<1>3. CliType' /\ NothingYet'
  <2>1. cli_pc' \in {"line", "done"}
    BY <1>1 DEF WriteDone, WriteFailed
  <2> QED
    BY <1>1, <2>1 DEF BatchIInv, CliType, NothingYet
<1>4. ASSUME at = 0 PROVE BatchLines' /\ BatchFiles'
  <2>1. cli_pc' # "line"
    <3>1. ~(at > 0)
      BY <1>4
    <3> QED
      BY <1>1, <3>1 DEF WriteDone, WriteFailed
  <2> QED
    BY <1>1, <1>4, <2>1 DEF BatchLines, BatchFiles, InBatch
<1>5. ASSUME at # 0 PROVE BatchLines' /\ BatchFiles'
  <2>1. at > 0
    BY <1>2, <1>5
  <2>2. /\ IsList(printed) /\ n = Len(CasesRead) /\ Listed(printed, CasesRead)
        /\ Unfinished(printed, CasesRead, n) /\ Named(files, CasesRead, n - 1)
        /\ Filed(files, unnoticed, CasesRead, n - 1)
        /\ out_path = FileOf(CasesRead, n) /\ rq = AskedBy(CasesRead, n) /\ cli_rc = 0
    BY <1>1, <1>5 DEF BatchIInv, BatchLines, BatchFiles, InBatch
  <2>3. PICK c : c = CasesRead
    OBVIOUS
  <2>4. CasesRead' = c
    BY <1>1, <2>3 DEF CasesRead
  <2>5. n \in Nat /\ n # 0 /\ n - 1 \in Nat /\ (n - 1) + 1 = n /\ Len(printed) = n
    <3>1. Len(printed) \in Nat
      BY <2>2, ListAppended
    <3> QED
      BY <2>2, <3>1 DEF Listed, Unfinished
  <2>6. Oks(c, n) = Oks(c, n - 1) \cup {n}
    BY <2>2, <2>3, <2>5, OneMoreCase DEF Unfinished
  <2>7. \A k \in Oks(c, n - 1) : k # n
    BY <2>5 DEF Oks
  <2>8. ASSUME NEW whole \in BOOLEAN, NEW g, NEW un, unnoticed \subseteq un,
               g = [p \in DOMAIN files \cup {out_path} |->
                      IF p = out_path THEN [of |-> rq, whole |-> whole] ELSE files[p]]
        PROVE  /\ Named(g, c, n) /\ Filed(g, un, c, n - 1)
               /\ (whole = TRUE \/ "close" \in un) => Filed(g, un, c, n)
    <3>1. /\ DOMAIN g = DOMAIN files \cup {out_path}
          /\ g[out_path].of = rq /\ g[out_path].whole = whole
          /\ \A p \in DOMAIN files : p # out_path => g[p] = files[p]
      BY <2>8, PutIs
    <3>2. DOMAIN files = {FileOf(c, k) : k \in Oks(c, n - 1)} /\ out_path = FileOf(c, n)
      BY <2>2, <2>3 DEF Named
    <3>3. Named(g, c, n)
      BY <2>6, <3>1, <3>2 DEF Named
    <3>4. \A k \in Oks(c, n - 1) : FileOf(c, k) \in DOMAIN files /\ FileOf(c, k) # out_path
      BY <2>7, <3>2, OwnPlace
    <3>5. \A k \in Oks(c, n - 1) : g[FileOf(c, k)] = files[FileOf(c, k)]
      BY <3>1, <3>4
    <3>6. Filed(g, un, c, n - 1)
      BY ZenonT(60), <2>2, <2>3, <2>8, <3>5 DEF Filed
    <3>7. (whole = TRUE \/ "close" \in un) => Filed(g, un, c, n)
      <4>1. g[FileOf(c, n)].of = AskedBy(c, n) /\ g[FileOf(c, n)].whole = whole
        BY <2>2, <2>3, <3>1, <3>2
      <4> QED
        BY <2>6, <3>6, <4>1 DEF Filed
    <3> QED
      BY <3>3, <3>6, <3>7
  <2>9. ASSUME WriteDone(TRUE) PROVE BatchLines' /\ BatchFiles'
    <3>1. PICK whole \in BOOLEAN :
            /\ files' = [p \in DOMAIN files \cup {out_path} |->
                           IF p = out_path THEN [of |-> rq, whole |-> whole] ELSE files[p]]
            /\ unnoticed' = IF whole THEN unnoticed ELSE unnoticed \cup {"close"}
            /\ printed' = [printed EXCEPT ![Len(printed)].whole = TRUE]
            /\ cli_pc' = "line" /\ cli_rc' = cli_rc
      BY <2>9 DEF WriteDone
    <3>2. unnoticed \subseteq unnoticed' /\ (whole = TRUE \/ "close" \in unnoticed')
      BY <3>1
    <3>3. Named(files', c, n) /\ Filed(files', unnoticed', c, n)
      BY <2>8, <3>1, <3>2
    <3>4. PICK x, e : x = [printed[n] EXCEPT !.whole = TRUE] /\ e = printed'
      OBVIOUS
    <3>5. e = Replaced(printed, n, x)
      BY <2>5, <3>1, <3>4 DEF Replaced
    <3>6. n \in 1..Len(printed)
      BY <2>5
    <3>7. IsList(e) /\ Len(e) = n /\ e[n] = x /\ \A k \in 1..n : k # n => e[k] = printed[k]
      BY <2>2, <2>5, <3>5, <3>6, ListReplaced
    <3>8. Says(x, n, c[n]) /\ x.whole = TRUE
      <4>1. Says(printed[n], n, c[n])
        BY <2>2, <2>3, <2>5, <3>6 DEF Listed
      <4>2. PICK y : y = printed[n]
        OBVIOUS
      <4> QED
        BY <3>4, <4>1, <4>2 DEF Says
    <3>9. Listed(e, c)
      BY <2>2, <2>3, <2>5, <3>7, <3>8 DEF Listed
    <3>10. Finished(e, n)
      <4>1. \A k \in 1..n : k = n \/ k \in 1..(n - 1)
        BY <2>5
      <4>2. \A k \in 1..(n - 1) : k \in 1..n /\ k # n
        BY <2>5
      <4>3. Finished(printed, n - 1)
        BY <2>2 DEF Unfinished
      <4> QED
        BY <3>7, <3>8, <4>1, <4>2, <4>3 DEF Finished
    <3>11. BatchLines'
      BY <1>1, <2>2, <2>3, <2>4, <3>4, <3>7, <3>9 DEF BatchLines
    <3>12. BatchFiles'
      BY <1>1, <2>2, <2>4, <3>1, <3>3, <3>4, <3>10 DEF BatchFiles
    <3> QED
      BY <3>11, <3>12
  <2>10. ASSUME WriteFailed(TRUE) PROVE BatchLines' /\ BatchFiles'
    <3>1. /\ files' = [p \in DOMAIN files \cup {out_path} |->
                         IF p = out_path THEN [of |-> rq, whole |-> FALSE] ELSE files[p]]
          /\ cli_pc' = "done" /\ cli_rc' = 1 /\ printed' = printed /\ unnoticed' = unnoticed
      BY <2>10 DEF WriteFailed
    <3>2. Named(files', c, n) /\ Filed(files', unnoticed', c, n - 1)
      BY <2>8, <3>1
    <3>3. BatchLines'
      BY <1>1, <2>2, <2>3, <2>4, <3>1 DEF BatchLines
    <3>4. BatchFiles'
      BY <1>1, <2>2, <2>3, <2>4, <3>1, <3>2 DEF BatchFiles
    <3> QED
      BY <3>3, <3>4
  <2> QED
    <3>1. (at > 0) = TRUE
      BY <2>1
    <3> QED
      BY <1>1, <2>9, <2>10, <3>1
<1> QED
  BY <1>3, <1>4, <1>5 DEF BatchIInv

\* A batch begins with nothing printed.
LEMMA OpenKeeps == BatchIInv /\ OpenBatch => BatchIInv'
<1> SUFFICES ASSUME BatchIInv, OpenBatch PROVE BatchIInv'
  OBVIOUS
<1>1. /\ cli_pc = "batch" /\ ((cli_pc' = "line" /\ cli_rc' = cli_rc) \/ (cli_pc' = "done" /\ cli_rc' = 1))
      /\ argv' = argv /\ lines' = lines /\ at' = at /\ n' = n /\ printed' = printed
      /\ files' = files /\ unnoticed' = unnoticed
  BY DEF OpenBatch
<1>2. at = 0 /\ n = 0 /\ printed = <<>> /\ files = <<>> /\ cli_rc = 0
  BY <1>1 DEF BatchIInv, NothingYet
<1>3. CliType' /\ NothingYet'
  BY <1>1, <1>2 DEF BatchIInv, CliType, NothingYet
<1>4. CasesRead' = <<>>
  <2>1. lines \in Seq(Seq(KnownWords))
    BY DEF BatchIInv, CliType
  <2>2. CasesAmong(lines, 0) = <<>>
    BY <2>1, CasesOneByOne
  <2> QED
    BY <1>1, <1>2, <2>2 DEF CasesRead
<1>5. PICK e : e = <<>>
  OBVIOUS
<1>6. Len(e) = 0 /\ e \in Seq(Range(e)) /\ DOMAIN e = {}
  BY <1>5
<1>7. IsList(e) /\ Listed(e, e) /\ Finished(e, 0) /\ Oks(e, 0) = {}
  BY <1>6 DEF IsList, Listed, Finished, Oks
<1>8. Named(e, e, 0) /\ Filed(e, unnoticed, e, 0)
  BY <1>6, <1>7 DEF Named, Filed
<1>9. BatchLines'
  BY <1>1, <1>2, <1>4, <1>5, <1>6, <1>7 DEF BatchLines
<1>10. BatchFiles'
  BY <1>1, <1>2, <1>4, <1>5, <1>7, <1>8 DEF BatchFiles, InBatch
<1> QED
  BY <1>3, <1>9, <1>10 DEF BatchIInv

\* The end of a batch leaves its lines and files.
LEMMA EndKeeps == BatchIInv /\ EndBatch => BatchIInv'
<1> SUFFICES ASSUME BatchIInv, EndBatch PROVE BatchIInv'
  OBVIOUS
<1>1. /\ cli_pc = "line" /\ cli_pc' = "done" /\ cli_rc' = cli_rc
      /\ unnoticed' = IF at = Len(lines) THEN unnoticed ELSE unnoticed \cup {"read"}
      /\ argv' = argv /\ lines' = lines /\ at' = at /\ n' = n /\ printed' = printed
      /\ files' = files
  BY DEF EndBatch
<1>2. CasesRead' = CasesRead
  BY <1>1 DEF CasesRead
<1>3. CliType' /\ NothingYet'
  BY <1>1 DEF BatchIInv, CliType, NothingYet
<1>4. BatchLines'
  BY <1>1, <1>2 DEF BatchIInv, BatchLines, InBatch
<1>5. Filed(files, unnoticed, CasesRead, n) => Filed(files, unnoticed', CasesRead, n)
  <2>1. unnoticed \subseteq unnoticed'
    BY <1>1
  <2> QED
    BY <2>1 DEF Filed
<1>6. BatchFiles'
  BY <1>1, <1>2, <1>5 DEF BatchIInv, BatchFiles, InBatch
<1> QED
  BY <1>3, <1>4, <1>6 DEF BatchIInv

\* What is read from the arguments and the single picture is no batch.
LEMMA SingleSteps == BatchIInv /\ (ReadArgument \/ EndArguments \/ Single) => BatchIInv'
<1> SUFFICES ASSUME BatchIInv, ReadArgument \/ EndArguments \/ Single PROVE BatchIInv'
  OBVIOUS
<1>1. /\ cli_pc \in {"args", "single"} /\ argv' = argv /\ lines' = lines /\ at' = at /\ n' = n
      /\ files' = files
  BY DEF ReadArgument, EndArguments, Single
<1>2. at = 0 /\ n = 0 /\ printed = <<>> /\ files = <<>> /\ cli_rc = 0
  BY <1>1 DEF BatchIInv, NothingYet
<1>3. CASE ReadArgument
  <2>1. printed' = printed
    BY <1>3 DEF ReadArgument
  <2>2. \/ cli_pc' = cli_pc /\ cli_rc' = cli_rc
        \/ cli_pc' = "done"
        \/ cli_pc' = "batch" /\ cli_rc' = cli_rc
    BY <1>3, Zenon DEF ReadArgument, Usage
  <2> QED
    BY <1>1, <1>2, <2>1, <2>2
    DEF BatchIInv, CliType, NothingYet, BatchLines, BatchFiles, InBatch
<1>4. CASE EndArguments
  <2>1. /\ printed' = printed
        /\ (cli_pc' = "single" /\ cli_rc' = cli_rc) \/ cli_pc' = "done"
    BY <1>4 DEF EndArguments
  <2> QED
    BY <1>1, <1>2, <2>1
    DEF BatchIInv, CliType, NothingYet, BatchLines, BatchFiles, InBatch
<1>5. CASE Single
  <2>1. cli_pc' \in {"done", "write"}
    BY <1>5 DEF Single
  <2> QED
    BY <1>1, <1>2, <2>1
    DEF BatchIInv, CliType, NothingYet, BatchLines, BatchFiles, InBatch
<1> QED
  BY <1>3, <1>4, <1>5

\* Every step keeps the invariant of a batch.
LEMMA StepBatch == BatchIInv /\ [CliNext]_cli_vars => BatchIInv'
<1> SUFFICES ASSUME BatchIInv, [CliNext]_cli_vars PROVE BatchIInv'
  OBVIOUS
<1>1. CASE UNCHANGED cli_vars
  <2>1. CasesRead' = CasesRead
    BY <1>1 DEF CasesRead, cli_vars
  <2> QED
    BY <1>1, <2>1
    DEF BatchIInv, CliType, NothingYet, BatchLines, BatchFiles, InBatch, cli_vars
<1>2. CASE CliNext
  BY <1>2, SingleSteps, WriteKeepsBatch, OpenKeeps, SkipKeeps, BadCaseKeeps, AnswerKeeps, EndKeeps
  DEF CliNext
<1> QED
  BY <1>1, <1>2

\* However long a file of cases is and whatever its words: a case has one line of
\* output, under its number, that says what the format asks for; fields end where
\* the format says, and numbers beyond what is kept change nothing.
THEOREM OutputFollowsFormat == CliSpec => []BatchFollowsFormat
<1>1. ASSUME BatchIInv PROVE BatchFollowsFormat
  <2> SUFFICES ASSUME at > 0
               PROVE  /\ Len(printed) = Len(CasesRead)
                      /\ \A k \in DOMAIN printed : /\ printed[k].n = k
                                                   /\ printed[k].says = SaysOf(CasesRead[k])
    BY DEF BatchFollowsFormat
  <2>1. IsList(printed) /\ Listed(printed, CasesRead)
    BY <1>1 DEF BatchIInv, BatchLines, InBatch
  <2>2. DOMAIN printed = 1..Len(printed)
    BY <2>1, LenProperties DEF IsList
  <2> QED
    BY <2>1, <2>2 DEF Listed, Says
<1> QED
  BY <1>1, InitBatch, StepBatch, PTL DEF CliSpec

\* However long a file of cases is and wherever writing fails: the files are those
\* of the lines that say ok, each with the picture of its own request.
THEOREM FilesAreTheLines == CliSpec => []FilesMatchLines
<1>1. ASSUME BatchIInv PROVE FilesMatchLines
  <2> DEFINE Ended == {k \in DOMAIN printed : printed[k].says = "ok" /\ printed[k].whole}
             Of(k) == RequestOf(FieldsByFormat(CasesRead[k]))
             failed == cli_pc = "done" /\ cli_rc # 0
             last == IF failed THEN {Len(printed)} ELSE {}
  <2> SUFFICES ASSUME at > 0
               PROVE  /\ DOMAIN files = {<<k, Of(k).format>> : k \in Ended \cup last}
                      /\ \A k \in Ended : LET file == files[<<k, Of(k).format>>]
                                           IN  file.of = Of(k) /\ (file.whole \/ "close" \in unnoticed)
                      /\ \A k \in DOMAIN printed :
                           ~printed[k].whole => k = Len(printed) /\ (cli_pc = "write" \/ failed)
                      /\ cli_pc = "done" /\ ~failed /\ "read" \notin unnoticed => at = Len(lines)
    BY DEF FilesMatchLines
  <2>1. PICK c : c = CasesRead
    OBVIOUS
  <2>2. InBatch /\ IsList(printed) /\ Listed(printed, c) /\ n = Len(c)
    BY <1>1, <2>1 DEF BatchIInv, BatchLines, InBatch
  <2>3. DOMAIN printed = 1..n /\ Len(printed) = n /\ n \in Nat
    BY <2>2, LenProperties DEF IsList, Listed
  <2>4. \A k \in 1..n : printed[k].says = SaysOf(c[k])
    BY <2>2 DEF Listed, Says
  <2>5. \A k : <<k, Of(k).format>> = FileOf(c, k) /\ Of(k) = AskedBy(c, k)
    BY <2>1 DEF FileOf, AskedBy
  <2>6. cli_pc \in {"line", "write", "done"}
    <3>1. at # 0
      OBVIOUS
    <3> QED
      BY <1>1, <3>1 DEF BatchIInv, CliType, NothingYet
  <2>7. ASSUME NEW m \in 0..n, Finished(printed, m),
               m = n \/ (m = n - 1 /\ printed[n].whole = FALSE)
        PROVE  Ended = Oks(c, m)
    <3>1. \A k \in 1..n : k \in 1..m \/ (k = n /\ m = n - 1)
      BY <2>3, <2>7
    <3>2. \A k \in 1..m : printed[k].whole = TRUE /\ k \in 1..n
      BY <2>3, <2>7 DEF Finished
    <3>3. \A k \in 1..n : printed[k].whole <=> k \in 1..m
      <4>1. ASSUME NEW k \in 1..n, k \notin 1..m PROVE printed[k].whole = FALSE
        BY <2>3, <2>7, <3>1, <4>1
      <4> QED
        BY <3>2, <4>1
    <3> QED
      BY <2>3, <2>4, <3>2, <3>3 DEF Oks
  <2>8. CASE cli_pc = "line" \/ (cli_pc = "done" /\ cli_rc = 0)
    <3>1. /\ Finished(printed, n) /\ Named(files, c, n) /\ Filed(files, unnoticed, c, n)
          /\ cli_pc = "done" /\ "read" \notin unnoticed => at = Len(lines)
      <4>1. cli_rc = 0
        BY <1>1, <2>2, <2>8 DEF BatchIInv, BatchFiles
      <4> QED
        BY <1>1, <2>1, <2>2, <2>8, <4>1 DEF BatchIInv, BatchFiles
    <3>2. Ended = Oks(c, n)
      <4>1. n \in 0..n
        BY <2>3
      <4> HIDE DEF Ended
      <4> QED
        BY <2>7, <3>1, <4>1
    <3>3. ~failed /\ last = {}
      BY <2>8
    <3>4. \A k \in 1..n : printed[k].whole
      BY <3>1 DEF Finished
    <3> HIDE DEF Ended, Of, failed, last
    <3>5. DOMAIN files = {<<k, Of(k).format>> : k \in Ended \cup last}
      BY <2>5, <3>1, <3>2, <3>3 DEF Named
    <3>6. \A k \in Ended : LET file == files[<<k, Of(k).format>>]
                            IN  file.of = Of(k) /\ (file.whole \/ "close" \in unnoticed)
      BY <2>5, <3>1, <3>2 DEF Filed
    <3> QED
      BY <2>3, <3>1, <3>3, <3>4, <3>5, <3>6
  <2>9. CASE cli_pc = "write" \/ (cli_pc = "done" /\ cli_rc # 0)
    <3>1. /\ Unfinished(printed, c, n) /\ Filed(files, unnoticed, c, n - 1)
          /\ cli_pc = "write" => Named(files, c, n - 1)
          /\ cli_pc = "done" => Named(files, c, n)
      BY <1>1, <2>1, <2>2, <2>9 DEF BatchIInv, BatchFiles
    <3>2. /\ n # 0 /\ n - 1 \in 0..n /\ n - 1 \in Nat /\ (n - 1) + 1 = n
          /\ Finished(printed, n - 1) /\ printed[n].whole = FALSE
      BY <2>3, <3>1 DEF Unfinished
    <3>3. Ended = Oks(c, n - 1)
      <4>1. PICK m : m = n - 1
        OBVIOUS
      <4> HIDE DEF Ended
      <4> QED
        BY <2>7, <3>2, <4>1
    <3>4. Oks(c, n) = Oks(c, n - 1) \cup {n}
      BY <3>1, <3>2, OneMoreCase DEF Unfinished
    <3>5. (cli_pc = "write" => last = {}) /\ (cli_pc = "done" => failed /\ last = {n})
      BY <2>3, <2>9
    <3>6. \A k \in 1..n : ~printed[k].whole => k = n
      <4>1. \A k \in 1..n : k = n \/ k \in 1..(n - 1)
        BY <2>3
      <4> QED
        BY <3>2, <4>1 DEF Finished
    <3> HIDE DEF Ended, Of, failed, last
    <3>7. DOMAIN files = {<<k, Of(k).format>> : k \in Ended \cup last}
      BY <2>5, <2>9, <3>1, <3>3, <3>4, <3>5 DEF Named
    <3>8. \A k \in Ended : LET file == files[<<k, Of(k).format>>]
                            IN  file.of = Of(k) /\ (file.whole \/ "close" \in unnoticed)
      BY <2>5, <3>1, <3>3 DEF Filed
    <3>9. cli_pc = "write" \/ failed
      BY <2>9, <3>5
    <3>10. ~(cli_pc = "done" /\ ~failed)
      BY <3>5
    <3> QED
      BY <2>3, <3>6, <3>7, <3>8, <3>9, <3>10
  <2> QED
    BY <2>6, <2>8, <2>9
<1> QED
  BY <1>1, InitBatch, StepBatch, PTL DEF CliSpec

-----------------------------------------------------------------------------
(* A single picture *)

\* Where an option is read among the first k arguments, and what it is last given.
GivenAt(list, k, option) == {i \in OptionsIn(list) : i < k /\ list[i] = option}
Latest(places) == CHOOSE i \in places : \A j \in places : j <= i
GivenBy(list, k, option, default) ==
  IF GivenAt(list, k, option) = {} THEN default
  ELSE list[1 + Latest(GivenAt(list, k, option))]

\* What is given at the end.
LEMMA GivenIs ==
  ASSUME NEW option, NEW default
  PROVE  Given(option, default) = GivenBy(argv, Len(argv), option, default)
BY Zenon DEF Given, GivenBy, GivenAt, Latest

\* The latest place is the greatest.
LEMMA LatestIs ==
  ASSUME NEW places \in SUBSET Nat, NEW i \in places, \A j \in places : j <= i
  PROVE  Latest(places) = i
<1>1. \A e \in places : (\A j \in places : j <= e) => e = i
  OBVIOUS
<1> QED
  BY <1>1 DEF Latest

\* An option that is given its value.
LEMMA ReadPair ==
  ASSUME NEW C, NEW list \in Seq(C), NEW k \in Nat, k + 2 <= Len(list),
         k + 1 \in OptionsIn(list), list[k + 1] \in Valued, NEW option \in Valued, NEW default
  PROVE  /\ GivenBy(list, k + 2, option, default) =
              IF list[k + 1] = option THEN list[k + 2] ELSE GivenBy(list, k, option, default)
         /\ k + 2 < Len(list) => (k + 2) + 1 \in OptionsIn(list)
         /\ GivenAt(list, k + 2, option) = {} <=>
              (GivenAt(list, k, option) = {} /\ list[k + 1] # option)
<1>1. /\ OptionsIn(list) \subseteq 1..Len(list) /\ Len(list) \in Nat
      /\ \A i \in 1..Len(list) :
           i \in OptionsIn(list) <=> ~(i - 1 \in OptionsIn(list) /\ list[i - 1] \in Valued)
  BY OptionsOneByOne, LenProperties
<1>2. k \in OptionsIn(list) => list[k] \notin Valued
  <2>1. k + 1 \in 1..Len(list) /\ (k + 1) - 1 = k
    BY <1>1
  <2> QED
    BY <1>1, <2>1
<1>3. k + 2 \notin OptionsIn(list)
  <2>1. k + 2 \in 1..Len(list) /\ (k + 2) - 1 = k + 1
    BY <1>1
  <2> QED
    BY <1>1, <2>1
<1>4. k + 2 < Len(list) => (k + 2) + 1 \in OptionsIn(list)
  <2>1. ((k + 2) + 1) - 1 = k + 2 /\ (k + 2 < Len(list) => (k + 2) + 1 \in 1..Len(list))
    BY <1>1
  <2> QED
    BY <1>1, <1>3, <2>1
<1>5. PICK b, d : b = GivenAt(list, k, option) /\ d = GivenAt(list, k + 2, option)
  OBVIOUS
<1>6. d = IF list[k + 1] = option THEN b \cup {k + 1} ELSE b
  <2>1. \A i \in Nat : i < k + 2 <=> i < k \/ i = k \/ i = k + 1
    OBVIOUS
  <2>2. \A i \in OptionsIn(list) : i \in Nat
    BY <1>1
  <2>3. \A i : i \in d <=> i \in OptionsIn(list) /\ i < k + 2 /\ list[i] = option
    BY <1>5 DEF GivenAt
  <2>4. \A i : i \in b <=> i \in OptionsIn(list) /\ i < k /\ list[i] = option
    BY <1>5 DEF GivenAt
  <2>5. \A i : i \in d <=> i \in b \/ (i = k + 1 /\ list[k + 1] = option)
    BY <1>2, <2>1, <2>2, <2>3, <2>4
  <2> QED
    BY <2>5
<1>7. ASSUME list[k + 1] = option PROVE Latest(d) = k + 1 /\ d # {}
  <2>1. d \in SUBSET Nat /\ k + 1 \in d /\ \A j \in d : j <= k + 1
    <3>1. \A j \in b : j \in Nat /\ j < k
      BY <1>1, <1>5 DEF GivenAt
    <3> QED
      BY <1>6, <1>7, <3>1
  <2>2. PICK i \in d : i = k + 1
    BY <2>1
  <2> QED
    BY <2>1, <2>2, LatestIs
<1>8. GivenBy(list, k + 2, option, default) =
        IF list[k + 1] = option THEN list[k + 2] ELSE GivenBy(list, k, option, default)
  <2>1. 1 + (k + 1) = k + 2
    OBVIOUS
  <2> QED
    BY <1>5, <1>6, <1>7, <2>1 DEF GivenBy
<1> QED
  BY <1>4, <1>5, <1>6, <1>8

\* An argument that stands for itself.
LEMMA ReadOne ==
  ASSUME NEW C, NEW list \in Seq(C), NEW k \in Nat, k + 1 <= Len(list),
         k + 1 \in OptionsIn(list), list[k + 1] \notin Valued, NEW option \in Valued, NEW default
  PROVE  /\ GivenBy(list, k + 1, option, default) = GivenBy(list, k, option, default)
         /\ GivenAt(list, k + 1, option) = GivenAt(list, k, option)
         /\ k + 1 < Len(list) => (k + 1) + 1 \in OptionsIn(list)
<1>1. /\ OptionsIn(list) \subseteq 1..Len(list) /\ Len(list) \in Nat
      /\ \A i \in 1..Len(list) :
           i \in OptionsIn(list) <=> ~(i - 1 \in OptionsIn(list) /\ list[i - 1] \in Valued)
  BY OptionsOneByOne, LenProperties
<1>2. k \in OptionsIn(list) => list[k] \notin Valued
  <2>1. k + 1 \in 1..Len(list) /\ (k + 1) - 1 = k
    BY <1>1
  <2> QED
    BY <1>1, <2>1
<1>3. k + 1 < Len(list) => (k + 1) + 1 \in OptionsIn(list)
  <2>1. ((k + 1) + 1) - 1 = k + 1 /\ (k + 1 < Len(list) => (k + 1) + 1 \in 1..Len(list))
    BY <1>1
  <2> QED
    BY <1>1, <2>1
<1>4. GivenAt(list, k + 1, option) = GivenAt(list, k, option)
  <2>1. \A i \in OptionsIn(list) : i \in Nat /\ (i < k + 1 <=> i < k \/ i = k)
    BY <1>1
  <2> QED
    BY <1>2, <2>1 DEF GivenAt
<1> QED
  BY <1>3, <1>4 DEF GivenBy

\* What is given is a word.
LEMMA GivenType ==
  ASSUME NEW list \in Seq(KnownWords), NEW k \in Nat, k <= Len(list), NEW option,
         NEW default \in KnownWords
  PROVE  GivenBy(list, k, option, default) \in KnownWords
<1>1. OptionsIn(list) \subseteq 1..Len(list) /\ Len(list) \in Nat
  BY OptionsOneByOne, LenProperties
<1>2. PICK b : b = GivenAt(list, k, option)
  OBVIOUS
<1>3. ASSUME b # {} PROVE list[1 + Latest(b)] \in KnownWords
  <2>1. \A i \in b : i \in Nat /\ i < k /\ i <= k
    BY <1>1, <1>2 DEF GivenAt
  <2>2. \E i \in b : \A j \in b : j <= i
    <3> DEFINE U == {m \in 0..k : \A j \in b : j <= m}
    <3>1. U \subseteq Nat /\ k \in U
      BY <2>1
    <3>2. PICK m \in U : \A j \in U : m <= j
      <4> HIDE DEF U
      <4> QED
        BY <3>1, Least
    <3>3. m \in Nat /\ m <= k /\ \A j \in b : j <= m
      OBVIOUS
    <3>4. m \in b
      <4> SUFFICES ASSUME m \notin b PROVE FALSE
        OBVIOUS
      <4>1. \A j \in b : j <= m - 1 /\ m - 1 >= 0
        BY <2>1, <3>3
      <4>2. m - 1 \in U
        <5>1. m # 0 /\ m - 1 \in 0..k
          BY <1>3, <3>3, <4>1
        <5> QED
          BY <4>1, <5>1
      <4> QED
        BY <3>2, <3>3, <4>2
    <3> QED
      BY <3>3, <3>4
  <2>3. Latest(b) \in b
    BY <2>2 DEF Latest
  <2>4. 1 + Latest(b) \in 1..Len(list)
    BY <1>1, <2>1, <2>3
  <2> QED
    BY <2>4, ElementOfSeq
<1> QED
  BY <1>2, <1>3 DEF GivenBy

RequestFields == {"text", "input", "key", "size", "shape", "frame", "background", "frame_alpha",
                  "format", "quality", "matte"}

\* What the path of an output names.
NamedFormat(path) ==
  LET named == Extension(path)
  IN  IF named \in {"bmp", "rgba", "jpeg"} THEN named
      ELSE IF named = "jpg" THEN "jpeg" ELSE "png"

IsRequest(w) == w = [f \in RequestFields |-> w[f]]

\* The options with a value as the first k arguments give them, but for the format.
AsGiven(a, w, k) ==
  /\ IsRequest(w)
  /\ w.key = GivenBy(a, k, "--key", "")
  /\ w.shape = GivenBy(a, k, "--shape", "square")
  /\ w.frame = FrameNames[GivenBy(a, k, "--frame", "automatic")]
  /\ w.background = GivenBy(a, k, "--background", "ffffffff")
  /\ w.matte = GivenBy(a, k, "--matte", "ffffff")
  /\ w.size = ParseNumber(GivenBy(a, k, "--size", "128"))
  /\ IsNumber(GivenBy(a, k, "--size", "128"))
  /\ w.quality = ParseNumber(GivenBy(a, k, "--quality", "92"))
  /\ w.frame_alpha = ParseNumber(GivenBy(a, k, "--frame-alpha", "255"))
  /\ IsNumber(GivenBy(a, k, "--frame-alpha", "255"))
  /\ w.frame_alpha <= 255

\* The places of the options and inputs among the first k arguments, and what the
\* arguments at some places say by themselves.
Standing(a, k) == {i \in OptionsIn(a) : i <= k}
IsInput(x) == x \notin Dashed \cup {"-h"}
Plain(a, w, have, places) ==
  /\ w.text \in BOOLEAN
  /\ w.text = TRUE <=> \E i \in places : a[i] = "--text"
  /\ have = TRUE <=> \E i \in places : IsInput(a[i])
  /\ \A i \in places : IsInput(a[i]) => w.input = a[i]

\* The path, the format, and whether there is one.
PathGiven(a, path, k) ==
  path = IF GivenBy(a, k, "--out", "") = "" THEN <<>> ELSE <<GivenBy(a, k, "--out", "")>>
FormatGiven(a, w, given, k) ==
  /\ w.format = GivenBy(a, k, "--format", "png")
  /\ given = TRUE <=> GivenAt(a, k, "--format") # {}

\* The first k arguments are read, and the others are left.
ReadUpTo(a, left_over, w, path, given, k) ==
  /\ k \in Nat /\ k <= Len(a)
  /\ left_over \in Seq(KnownWords) /\ Len(left_over) = Len(a) - k
  /\ \A j \in 1..Len(left_over) : left_over[j] = a[k + j]
  /\ k < Len(a) => k + 1 \in OptionsIn(a)
  /\ AsGiven(a, w, k) /\ PathGiven(a, path, k) /\ FormatGiven(a, w, given, k)

\* All arguments are read.
AskedFor(a, w) ==
  /\ AsGiven(a, w, Len(a)) /\ Plain(a, w, TRUE, OptionsIn(a))
  /\ w.format = GivenBy(a, Len(a), "--format", NamedFormat(GivenBy(a, Len(a), "--out", "")))

ReadOf(a, left_over, w, path, given, have, k) ==
  ReadUpTo(a, left_over, w, path, given, k) /\ Plain(a, w, have, Standing(a, k))

ArgumentsRead ==
  /\ format_given \in BOOLEAN /\ have_input \in BOOLEAN
  /\ cli_pc = "args" => \E k : ReadOf(argv, args, rq, out_path, format_given, have_input, k)
  /\ cli_pc = "single" => AskedFor(argv, rq) /\ PathGiven(argv, out_path, Len(argv))

\* The files are one at a path, if there is one, with the picture of a request.
At(path) == IF path = <<>> THEN {} ELSE {path}
FilesOf(fs, path, w) == DOMAIN fs \subseteq At(path) /\ \A p \in DOMAIN fs : fs[p].of = w
Complete(fs, path, faults) ==
  \A p \in At(path) : p \in DOMAIN fs /\ (fs[p].whole = TRUE \/ "close" \in faults)

SingleAnswered ==
  at = 0 =>
    /\ cli_pc \in {"args", "single", "batch", "line"} => printed = <<>> /\ files = <<>>
    /\ printed = <<>> => files = <<>>
    /\ printed # <<>> =>
         /\ AskedFor(argv, rq) /\ SizeInRange(rq.size) /\ PathGiven(argv, out_path, Len(argv))
         /\ FilesOf(files, out_path, rq)
    /\ cli_pc = "write" =>
         /\ files = <<>> /\ cli_rc = 0 /\ IsList(printed) /\ Len(printed) = 1
         /\ out_path # <<>>
    /\ cli_rc # 0 => \A p \in DOMAIN files : files[p].whole = FALSE
    /\ cli_pc = "done" /\ cli_rc = 0 /\ printed # <<>> => Complete(files, out_path, unnoticed)

SingleIInv == BatchIInv /\ ArgumentsRead /\ SingleAnswered

\* The options of a single picture, one by one.
LEMMA SetIs ==
  ASSUME NEW w, IsRequest(w), NEW option \in Valued, NEW x, NEW v, v = Set(w, option, x)
  PROVE  /\ IsRequest(v)
         /\ v.key = IF option = "--key" THEN x ELSE w.key
         /\ v.shape = IF option = "--shape" THEN x ELSE w.shape
         /\ v.frame = IF option = "--frame" THEN FrameNames[x] ELSE w.frame
         /\ v.background = IF option = "--background" THEN x ELSE w.background
         /\ v.matte = IF option = "--matte" THEN x ELSE w.matte
         /\ v.size = IF option = "--size" THEN ParseNumber(x) ELSE w.size
         /\ v.quality = IF option = "--quality" THEN ParseNumber(x) ELSE w.quality
         /\ v.frame_alpha = IF option = "--frame-alpha" THEN ParseNumber(x) ELSE w.frame_alpha
         /\ v.format = IF option = "--format" THEN x ELSE w.format
         /\ v.text = w.text /\ v.input = w.input
<1> DEFINE Changed(field, y) == v = [w EXCEPT ![field] = y]
<1>1. DOMAIN w = RequestFields
  <2>1. PICK u : u = [f \in RequestFields |-> w[f]]
    OBVIOUS
  <2> QED
    BY <2>1 DEF IsRequest
<1>2. ASSUME NEW field \in RequestFields, NEW y, Changed(field, y)
      PROVE  /\ IsRequest(v) /\ v[field] = y
             /\ \A f \in RequestFields : f # field => v[f] = w[f]
  BY <1>1, <1>2 DEF IsRequest
<1>3. PICK m, g : m = ParseNumber(x) /\ g = FrameNames[x]
  OBVIOUS
<1>4. /\ option = "--key" => Changed("key", x)
      /\ option = "--size" => Changed("size", m)
      /\ option = "--shape" => Changed("shape", x)
      /\ option = "--frame" => Changed("frame", g)
      /\ option = "--background" => Changed("background", x)
  BY <1>3 DEF Set
<1>5. /\ option = "--frame-alpha" => Changed("frame_alpha", m)
      /\ option = "--format" => Changed("format", x)
      /\ option = "--quality" => Changed("quality", m)
      /\ option = "--matte" => Changed("matte", x)
      /\ option = "--out" => v = w
  BY <1>3 DEF Set
<1> HIDE DEF Changed
<1>6. CASE option = "--key"
  BY <1>2, <1>4, <1>6 DEF RequestFields
<1>7. CASE option = "--size"
  BY <1>2, <1>3, <1>4, <1>7 DEF RequestFields
<1>8. CASE option = "--shape"
  BY <1>2, <1>4, <1>8 DEF RequestFields
<1>9. CASE option = "--frame"
  BY <1>2, <1>3, <1>4, <1>9 DEF RequestFields
<1>10. CASE option = "--background"
  BY <1>2, <1>4, <1>10 DEF RequestFields
<1>11. CASE option = "--frame-alpha"
  BY <1>2, <1>3, <1>5, <1>11 DEF RequestFields
<1>12. CASE option = "--format"
  BY <1>2, <1>5, <1>12 DEF RequestFields
<1>13. CASE option = "--quality"
  BY <1>2, <1>3, <1>5, <1>13 DEF RequestFields
<1>14. CASE option = "--matte"
  BY <1>2, <1>5, <1>14 DEF RequestFields
<1>15. CASE option = "--out"
  BY <1>5, <1>15
<1> QED
  BY <1>6, <1>7, <1>8, <1>9, <1>10, <1>11, <1>12, <1>13, <1>14, <1>15 DEF Valued

\* One more argument that is an option or an input, and one that is with its value.
LEMMA StandingIs ==
  ASSUME NEW C, NEW a \in Seq(C), NEW k \in Nat, k + 1 <= Len(a), k + 1 \in OptionsIn(a)
  PROVE  /\ Standing(a, k + 1) = Standing(a, k) \cup {k + 1}
         /\ k + 2 <= Len(a) /\ a[k + 1] \in Valued =>
              Standing(a, k + 2) = Standing(a, k) \cup {k + 1}
         /\ Standing(a, Len(a)) = OptionsIn(a)
         /\ k + 1 \notin Standing(a, k)
<1>1. /\ OptionsIn(a) \subseteq 1..Len(a) /\ Len(a) \in Nat
      /\ \A i \in 1..Len(a) :
           i \in OptionsIn(a) <=> ~(i - 1 \in OptionsIn(a) /\ a[i - 1] \in Valued)
  BY OptionsOneByOne, LenProperties
<1>2. \A i \in OptionsIn(a) : /\ i \in Nat /\ i <= Len(a)
                              /\ i <= k + 1 <=> i <= k \/ i = k + 1
                              /\ i <= k + 2 <=> i <= k \/ i = k + 1 \/ i = k + 2
  BY <1>1
<1>3. k + 2 <= Len(a) /\ a[k + 1] \in Valued => k + 2 \notin OptionsIn(a)
  <2>1. k + 2 <= Len(a) => k + 2 \in 1..Len(a) /\ (k + 2) - 1 = k + 1
    BY <1>1
  <2> QED
    BY <1>1, <2>1
<1>4. ~(k + 1 <= k)
  OBVIOUS
<1>5. Standing(a, k + 1) = Standing(a, k) \cup {k + 1}
  BY <1>2 DEF Standing
<1>6. ASSUME k + 2 <= Len(a), a[k + 1] \in Valued
      PROVE  Standing(a, k + 2) = Standing(a, k) \cup {k + 1}
  <2>1. PICK m : m = k + 2
    OBVIOUS
  <2> QED
    BY <1>2, <1>3, <1>6, <2>1 DEF Standing
<1>7. Standing(a, Len(a)) = OptionsIn(a)
  BY <1>2 DEF Standing
<1> QED
  BY <1>4, <1>5, <1>6, <1>7 DEF Standing

\* No check fails of those that let pass.
LEMMA NoneFails ==
  ASSUME NEW checks, NEW k \in Nat, DOMAIN checks = 1..k,
         \A i \in 1..k : checks[i].fails => checks[i].code # "ok",
         FirstFailure(checks) = "ok"
  PROVE  \A i \in 1..k : ~checks[i].fails
<1> SUFFICES ASSUME NEW p \in 1..k, checks[p].fails PROVE FALSE
  OBVIOUS
<1> DEFINE F == {i \in 1..k : checks[i].fails}
<1>1. PICK i \in F : \A j \in F : i <= j
  <2>1. F \subseteq Nat /\ p \in F
    OBVIOUS
  <2> HIDE DEF F
  <2> QED
    BY <2>1, Least
<1>2. i \in 1..k /\ checks[i].fails
  OBVIOUS
<1>3. \A j \in 1..(i - 1) : ~checks[j].fails
  <2>1. \A j \in 1..(i - 1) : j \in 1..k /\ ~(i <= j)
    BY <1>2
  <2> QED
    BY <1>1, <2>1
<1>4. FirstFailure(checks) = checks[i].code
  BY <1>2, <1>3, FirstIsReported
<1> QED
  BY <1>2, <1>4

\* What the library draws has a size it draws.
LEMMA PreparedInRange ==
  ASSUME NEW fp, NEW size, NEW o, Prepare(fp, size, o) = "ok"
  PROVE  SizeInRange(size)
<1> DEFINE list ==
      <<Check(fp = "empty", "invalid_fingerprint"),
        Check(~ValidShape(o.shape) \/ ~ValidStyle(o.frame), "invalid_argument"),
        Check(~SizeInRange(size), "invalid_size"),
        Check(~FrameAllowed(ResolveFrame(o.frame, fp, o.shape), o.shape), "invalid_frame"),
        Check(o.opaque /\ ~o.distinct, "low_contrast"),
        Check(MakeGeometry(size, o.shape, ResolveFrame(o.frame, fp, o.shape)).cell < 1,
              "invalid_size")>>
<1>1. Prepare(fp, size, o) = FirstFailure(list)
  BY Zenon DEF Prepare
<1>2. DOMAIN list = 1..6
  OBVIOUS
<1>3. /\ list[1].code # "ok" /\ list[2].code # "ok" /\ list[3].code # "ok"
      /\ list[4].code # "ok" /\ list[5].code # "ok" /\ list[6].code # "ok"
  BY DEF Check
<1>4. list[3].fails <=> ~SizeInRange(size)
  BY DEF Check
<1> HIDE DEF list
<1>5. PICK checks, k, p : checks = list /\ k = 6 /\ p = 3
  OBVIOUS
<1>6. k \in Nat /\ p \in 1..k /\ DOMAIN checks = 1..k /\ FirstFailure(checks) = "ok"
  BY <1>1, <1>2, <1>5
<1>7. \A i \in 1..k : checks[i].code # "ok"
  <2>1. \A i \in 1..6 : i = 1 \/ i = 2 \/ i = 3 \/ i = 4 \/ i = 5 \/ i = 6
    OBVIOUS
  <2> QED
    BY <1>3, <1>5, <2>1
<1>8. \A i \in 1..k : ~checks[i].fails
  BY <1>6, <1>7, NoneFails
<1>9. ~list[3].fails
  BY <1>5, <1>6, <1>8
<1> QED
  BY <1>4, <1>9

\* What is answered with a picture has a size the library draws.
LEMMA AnsweredInRange ==
  ASSUME NEW w, Run(w) = "ok"
  PROVE  SizeInRange(w.size)
<1> DEFINE Drawn == Prepare(ModeOf(w), w.size, OptionsOf(w))
           list ==
      <<Check(w.text /\ w.input = "", "empty_input"),
        Check(~w.text /\ (~Hex(w.input).valid \/ Hex(w.input).size = 0), "invalid_hex"),
        Check(w.key # "" /\ (~FromHex(w.key) \/ Hex(w.key).size # 32 \/ Hex(w.key).zero),
              "invalid_key"),
        Check(Drawn # "ok", Drawn),
        Check(w.format \notin {"png", "bmp", "jpeg", "rgba"}, "invalid_argument"),
        Check(w.format = "jpeg" /\ w.quality \notin 50..100, "invalid_quality")>>
<1>1. Run(w) = FirstFailure(list)
  BY Zenon DEF Run
<1> HIDE DEF Drawn
<1>2. DOMAIN list = 1..6
  OBVIOUS
<1>3. /\ list[1].code # "ok" /\ list[2].code # "ok" /\ list[3].code # "ok"
      /\ list[5].code # "ok" /\ list[6].code # "ok"
  BY DEF Check
<1>4. (list[4].fails <=> Drawn # "ok") /\ list[4].code = Drawn
  BY DEF Check
<1> HIDE DEF list
<1>5. PICK checks, k, p : checks = list /\ k = 6 /\ p = 4
  OBVIOUS
<1>6. k \in Nat /\ p \in 1..k /\ DOMAIN checks = 1..k /\ FirstFailure(checks) = "ok"
  BY <1>1, <1>2, <1>5
<1>7. \A i \in 1..k : checks[i].fails => checks[i].code # "ok"
  <2>1. \A i \in 1..6 : i = 1 \/ i = 2 \/ i = 3 \/ i = 4 \/ i = 5 \/ i = 6
    OBVIOUS
  <2> QED
    BY <1>3, <1>4, <1>5, <2>1
<1>8. \A i \in 1..k : ~checks[i].fails
  BY <1>6, <1>7, NoneFails
<1>9. ~list[4].fails
  BY <1>5, <1>6, <1>8
<1>10. Drawn = "ok"
  BY <1>4, <1>9
<1> QED
  BY <1>10, PreparedInRange DEF Drawn

\* What is left of the arguments when the first of them is taken.
LEMMA RestIs ==
  ASSUME NEW a \in Seq(KnownWords), NEW l \in Seq(KnownWords), NEW k \in Nat, l # <<>>,
         k <= Len(a), Len(l) = Len(a) - k, \A j \in 1..Len(l) : l[j] = a[k + j]
  PROVE  /\ k + 1 \in Nat /\ k + 1 <= Len(a) /\ l[1] = a[k + 1]
         /\ Tail(l) \in Seq(KnownWords) /\ Len(Tail(l)) = Len(a) - (k + 1)
         /\ \A j \in 1..Len(Tail(l)) : Tail(l)[j] = a[(k + 1) + j]
<1>1. Len(a) \in Nat /\ Len(l) \in Nat
  BY LenProperties
<1>2. /\ Tail(l) \in Seq(KnownWords) /\ Len(Tail(l)) = Len(l) - 1
      /\ \A j \in 1..(Len(l) - 1) : Tail(l)[j] = l[j + 1]
  BY HeadTailProperties
<1>3. Len(l) # 0
  BY EmptySeq
<1>4. 1 \in 1..Len(l) /\ \A j \in 1..(Len(l) - 1) : j + 1 \in 1..Len(l) /\ k + (j + 1) = (k + 1) + j
  BY <1>1, <1>3
<1> QED
  BY <1>1, <1>2, <1>3, <1>4

\* An argument that stands for itself is read.
LEMMA TookOne ==
  ASSUME NEW a \in Seq(KnownWords), NEW l, NEW w, NEW path, NEW given, NEW k,
         ReadUpTo(a, l, w, path, given, k), l # <<>>, l[1] \notin Valued,
         NEW v, IsRequest(v), \A f \in RequestFields \ {"text", "input"} : v[f] = w[f]
  PROVE  ReadUpTo(a, Tail(l), v, path, given, k + 1)
<1>1. /\ k \in Nat /\ k <= Len(a)
      /\ l \in Seq(KnownWords) /\ Len(l) = Len(a) - k
      /\ \A j \in 1..Len(l) : l[j] = a[k + j]
      /\ k < Len(a) => k + 1 \in OptionsIn(a)
      /\ AsGiven(a, w, k) /\ PathGiven(a, path, k) /\ FormatGiven(a, w, given, k)
  BY DEF ReadUpTo
<1>2. /\ k + 1 \in Nat /\ k + 1 <= Len(a) /\ l[1] = a[k + 1]
      /\ Tail(l) \in Seq(KnownWords) /\ Len(Tail(l)) = Len(a) - (k + 1)
      /\ \A j \in 1..Len(Tail(l)) : Tail(l)[j] = a[(k + 1) + j]
  BY <1>1, RestIs
<1>3. k + 1 \in OptionsIn(a) /\ a[k + 1] \notin Valued
  <2>1. Len(a) \in Nat
    BY LenProperties
  <2> QED
    BY <1>1, <1>2, <2>1
<1>4. ASSUME NEW option \in Valued, NEW default
      PROVE  GivenBy(a, k + 1, option, default) = GivenBy(a, k, option, default)
  BY <1>1, <1>2, <1>3, ReadOne
<1>5. GivenAt(a, k + 1, "--format") = GivenAt(a, k, "--format")
  BY <1>1, <1>2, <1>3, ReadOne DEF Valued
<1>6. k + 1 < Len(a) => (k + 1) + 1 \in OptionsIn(a)
  <2>1. "--key" \in Valued
    BY DEF Valued
  <2> QED
    BY <1>1, <1>2, <1>3, <2>1, ReadOne
<1>7. AsGiven(a, v, k + 1)
  <2>1. /\ v.key = w.key /\ v.shape = w.shape /\ v.frame = w.frame
        /\ v.background = w.background /\ v.matte = w.matte /\ v.size = w.size
        /\ v.quality = w.quality /\ v.frame_alpha = w.frame_alpha
    BY DEF RequestFields
  <2>2. /\ GivenBy(a, k + 1, "--key", "") = GivenBy(a, k, "--key", "")
        /\ GivenBy(a, k + 1, "--shape", "square") = GivenBy(a, k, "--shape", "square")
        /\ GivenBy(a, k + 1, "--frame", "automatic") = GivenBy(a, k, "--frame", "automatic")
        /\ GivenBy(a, k + 1, "--background", "ffffffff")
             = GivenBy(a, k, "--background", "ffffffff")
        /\ GivenBy(a, k + 1, "--matte", "ffffff") = GivenBy(a, k, "--matte", "ffffff")
        /\ GivenBy(a, k + 1, "--size", "128") = GivenBy(a, k, "--size", "128")
        /\ GivenBy(a, k + 1, "--quality", "92") = GivenBy(a, k, "--quality", "92")
        /\ GivenBy(a, k + 1, "--frame-alpha", "255") = GivenBy(a, k, "--frame-alpha", "255")
    BY Zenon, <1>4 DEF Valued
  <2> QED
    BY <1>1, <2>1, <2>2 DEF AsGiven
<1>8. PathGiven(a, path, k + 1)
  BY <1>1, <1>4 DEF PathGiven, Valued
<1>9. FormatGiven(a, v, given, k + 1)
  <2>1. v.format = w.format
    BY DEF RequestFields
  <2> QED
    BY <1>1, <1>4, <1>5, <2>1 DEF FormatGiven, Valued
<1> QED
  BY <1>2, <1>6, <1>7, <1>8, <1>9 DEF ReadUpTo

\* The path, and whether there is a format, after an option and its value.
PathTaken(way, path, option, x) ==
  way = IF option # "--out" THEN path ELSE IF x = "" THEN <<>> ELSE <<x>>
FormatTaken(asked, given, option) == asked = TRUE <=> given = TRUE \/ option = "--format"

\* An option and its value are read.
LEMMA TookTwo ==
  ASSUME NEW a \in Seq(KnownWords), NEW l, NEW w, NEW path, NEW given \in BOOLEAN, NEW k,
         ReadUpTo(a, l, w, path, given, k), Len(l) >= 2, NEW option, option = l[1], NEW x, x = l[2],
         option \in Valued, Takes(option, x),
         NEW v, v = Set(w, option, x),
         NEW way, PathTaken(way, path, option, x), NEW asked, FormatTaken(asked, given, option)
  PROVE  ReadUpTo(a, Tail(Tail(l)), v, way, asked, k + 2)
<1>1. /\ k \in Nat /\ k <= Len(a)
      /\ l \in Seq(KnownWords) /\ Len(l) = Len(a) - k
      /\ \A j \in 1..Len(l) : l[j] = a[k + j]
      /\ k < Len(a) => k + 1 \in OptionsIn(a)
      /\ AsGiven(a, w, k) /\ PathGiven(a, path, k) /\ FormatGiven(a, w, given, k)
  BY DEF ReadUpTo
<1>2. Len(a) \in Nat /\ Len(l) \in Nat
  BY <1>1, LenProperties
<1>3. l # <<>>
  <2>1. Len(l) # 0
    BY <1>2
  <2> QED
    BY <2>1
<1>4. PICK t : t = Tail(l)
  OBVIOUS
<1>5. PICK h : h = k + 1
  OBVIOUS
<1>6. /\ h \in Nat /\ h <= Len(a) /\ option = a[h]
      /\ t \in Seq(KnownWords) /\ Len(t) = Len(a) - h
      /\ \A j \in 1..Len(t) : t[j] = a[h + j]
  <2>1. /\ k + 1 \in Nat /\ k + 1 <= Len(a) /\ l[1] = a[k + 1]
        /\ Tail(l) \in Seq(KnownWords) /\ Len(Tail(l)) = Len(a) - (k + 1)
        /\ \A j \in 1..Len(Tail(l)) : Tail(l)[j] = a[(k + 1) + j]
    BY <1>1, <1>3, RestIs
  <2> QED
    BY <1>4, <1>5, <2>1
<1>7. Len(t) # 0 /\ 1 \in 1..Len(t) /\ 2 \in 1..Len(l) /\ k + 2 = h + 1 /\ k < Len(a)
  BY <1>1, <1>2, <1>5, <1>6
<1>8. t # <<>>
  BY <1>7
<1>9. /\ k + 2 \in Nat /\ k + 2 <= Len(a) /\ t[1] = a[k + 2]
      /\ Tail(t) \in Seq(KnownWords) /\ Len(Tail(t)) = Len(a) - (k + 2)
      /\ \A j \in 1..Len(Tail(t)) : Tail(t)[j] = a[(k + 2) + j]
  <2>1. /\ h + 1 \in Nat /\ h + 1 <= Len(a) /\ t[1] = a[h + 1]
        /\ Tail(t) \in Seq(KnownWords) /\ Len(Tail(t)) = Len(a) - (h + 1)
        /\ \A j \in 1..Len(Tail(t)) : Tail(t)[j] = a[(h + 1) + j]
    BY <1>6, <1>8, RestIs
  <2>2. PICK m : m = h + 1
    OBVIOUS
  <2>3. m = k + 2
    BY <1>7, <2>2
  <2> QED
    BY <2>1, <2>2, <2>3
<1>10. x = a[k + 2]
  BY <1>1, <1>7
<1>11. k + 1 \in OptionsIn(a) /\ a[k + 1] = option
  BY <1>1, <1>5, <1>6, <1>7
<1>12. ASSUME NEW o \in Valued, NEW default
       PROVE  /\ GivenBy(a, k + 2, o, default) = IF option = o THEN x ELSE GivenBy(a, k, o, default)
              /\ k + 2 < Len(a) => (k + 2) + 1 \in OptionsIn(a)
              /\ GivenAt(a, k + 2, o) = {} <=> (GivenAt(a, k, o) = {} /\ option # o)
  <2>1. k \in Nat /\ k + 2 <= Len(a) /\ k + 1 \in OptionsIn(a) /\ a[k + 1] \in Valued
    BY <1>1, <1>9, <1>11
  <2>2. /\ GivenBy(a, k + 2, o, default) =
             IF a[k + 1] = o THEN a[k + 2] ELSE GivenBy(a, k, o, default)
        /\ k + 2 < Len(a) => (k + 2) + 1 \in OptionsIn(a)
        /\ GivenAt(a, k + 2, o) = {} <=> (GivenAt(a, k, o) = {} /\ a[k + 1] # o)
    BY ZenonT(60), <2>1, ReadPair
  <2> QED
    BY <1>10, <1>11, <2>2
<1>13. k + 2 < Len(a) => (k + 2) + 1 \in OptionsIn(a)
  BY <1>12
<1>14. /\ IsRequest(v)
       /\ v.key = IF option = "--key" THEN x ELSE w.key
       /\ v.shape = IF option = "--shape" THEN x ELSE w.shape
       /\ v.frame = IF option = "--frame" THEN FrameNames[x] ELSE w.frame
       /\ v.background = IF option = "--background" THEN x ELSE w.background
       /\ v.matte = IF option = "--matte" THEN x ELSE w.matte
       /\ v.size = IF option = "--size" THEN ParseNumber(x) ELSE w.size
       /\ v.quality = IF option = "--quality" THEN ParseNumber(x) ELSE w.quality
       /\ v.frame_alpha = IF option = "--frame-alpha" THEN ParseNumber(x) ELSE w.frame_alpha
       /\ v.format = IF option = "--format" THEN x ELSE w.format
  <2>1. IsRequest(w)
    BY <1>1 DEF AsGiven
  <2> QED
    BY <2>1, SetIs
<1>15. /\ option \in {"--size", "--frame-alpha"} => IsNumber(x)
       /\ option = "--frame-alpha" => ParseNumber(x) <= 255
  BY DEF Takes
<1>16. AsGiven(a, v, k + 2)
  <2>1. v.key = GivenBy(a, k + 2, "--key", "")
    BY <1>1, <1>12, <1>14 DEF AsGiven, Valued
  <2>2. v.shape = GivenBy(a, k + 2, "--shape", "square")
    BY <1>1, <1>12, <1>14 DEF AsGiven, Valued
  <2>3. v.background = GivenBy(a, k + 2, "--background", "ffffffff")
    BY <1>1, <1>12, <1>14 DEF AsGiven, Valued
  <2>4. v.matte = GivenBy(a, k + 2, "--matte", "ffffff")
    BY <1>1, <1>12, <1>14 DEF AsGiven, Valued
  <2>5. v.frame = FrameNames[GivenBy(a, k + 2, "--frame", "automatic")]
    <3>1. GivenBy(a, k + 2, "--frame", "automatic") =
            IF option = "--frame" THEN x ELSE GivenBy(a, k, "--frame", "automatic")
      BY <1>12 DEF Valued
    <3> QED
      BY <1>1, <1>14, <3>1 DEF AsGiven
  <2>6. /\ v.size = ParseNumber(GivenBy(a, k + 2, "--size", "128"))
        /\ IsNumber(GivenBy(a, k + 2, "--size", "128"))
    <3>1. GivenBy(a, k + 2, "--size", "128") =
            IF option = "--size" THEN x ELSE GivenBy(a, k, "--size", "128")
      BY <1>12 DEF Valued
    <3> QED
      BY <1>1, <1>14, <1>15, <3>1 DEF AsGiven
  <2>7. v.quality = ParseNumber(GivenBy(a, k + 2, "--quality", "92"))
    <3>1. GivenBy(a, k + 2, "--quality", "92") =
            IF option = "--quality" THEN x ELSE GivenBy(a, k, "--quality", "92")
      BY <1>12 DEF Valued
    <3> QED
      BY <1>1, <1>14, <3>1 DEF AsGiven
  <2>8. /\ v.frame_alpha = ParseNumber(GivenBy(a, k + 2, "--frame-alpha", "255"))
        /\ IsNumber(GivenBy(a, k + 2, "--frame-alpha", "255"))
        /\ v.frame_alpha <= 255
    <3>1. GivenBy(a, k + 2, "--frame-alpha", "255") =
            IF option = "--frame-alpha" THEN x ELSE GivenBy(a, k, "--frame-alpha", "255")
      BY <1>12 DEF Valued
    <3> QED
      BY <1>1, <1>14, <1>15, <3>1 DEF AsGiven
  <2> QED
    BY <1>14, <2>1, <2>2, <2>3, <2>4, <2>5, <2>6, <2>7, <2>8 DEF AsGiven
<1>17. PathGiven(a, way, k + 2)
  <2>1. GivenBy(a, k + 2, "--out", "") = IF option = "--out" THEN x ELSE GivenBy(a, k, "--out", "")
    BY <1>12 DEF Valued
  <2>2. PICK y : y = GivenBy(a, k + 2, "--out", "")
    OBVIOUS
  <2>3. CASE option = "--out"
    BY <2>1, <2>2, <2>3 DEF PathGiven, PathTaken
  <2>4. CASE option # "--out"
    BY <1>1, <2>1, <2>4 DEF PathGiven, PathTaken
  <2> QED
    BY <2>3, <2>4
<1>18. FormatGiven(a, v, asked, k + 2)
  <2>1. /\ GivenBy(a, k + 2, "--format", "png") =
             IF option = "--format" THEN x ELSE GivenBy(a, k, "--format", "png")
        /\ GivenAt(a, k + 2, "--format") = {} <=>
             (GivenAt(a, k, "--format") = {} /\ option # "--format")
    BY <1>12 DEF Valued
  <2> QED
    BY <1>1, <1>14, <2>1 DEF FormatGiven, FormatTaken
<1> QED
  BY <1>4, <1>9, <1>13, <1>16, <1>17, <1>18 DEF ReadUpTo

\* The invariant holds before an argument is read.
LEMMA InitSingle == CliInit => SingleIInv
<1> SUFFICES ASSUME CliInit PROVE SingleIInv
  OBVIOUS
<1>1. BatchIInv
  BY InitBatch
<1>2. /\ argv \in Seq(KnownWords) /\ args = argv /\ out_path = <<>> /\ format_given = FALSE
      /\ have_input = FALSE
      /\ rq = DefaultRequest /\ cli_pc = "args" /\ printed = <<>> /\ files = <<>> /\ cli_rc = 0
  BY <1>1 DEF BatchIInv, CliType, CliInit
<1>3. Len(argv) \in Nat
  BY <1>2, LenProperties
<1>4. \A option : GivenAt(argv, 0, option) = {}
  <2>1. \A i \in OptionsIn(argv) : ~(i < 0)
    <3>1. OptionsIn(argv) \subseteq 1..Len(argv)
      BY <1>2, OptionsOneByOne
    <3> QED
      BY <1>3, <3>1
  <2> QED
    BY <2>1 DEF GivenAt
<1>5. \A option, default : GivenBy(argv, 0, option, default) = default
  BY <1>4 DEF GivenBy
<1>6. 0 < Len(argv) => 0 + 1 \in OptionsIn(argv)
  <2> SUFFICES ASSUME 0 < Len(argv) PROVE 1 \in OptionsIn(argv)
    OBVIOUS
  <2>1. 1 \in 1..Len(argv) /\ 1 - 1 = 0 /\ 0 \notin OptionsIn(argv)
    BY <1>2, <1>3, OptionsOneByOne
  <2> QED
    BY <1>2, <2>1, OptionsOneByOne
<1>7. /\ IsNumber("128") /\ ParseNumber("128") = 128
      /\ IsNumber("255") /\ ParseNumber("255") = 255 /\ ParseNumber("92") = 92
  <2>1. /\ Number("128").valid = TRUE /\ Number("128").value = 128
        /\ Number("255").valid = TRUE /\ Number("255").value = 255
        /\ Number("92").value = 92
    <3>1. /\ Number("128") = [valid |-> TRUE, value |-> 128]
          /\ Number("255") = [valid |-> TRUE, value |-> 255]
          /\ Number("92") = [valid |-> TRUE, value |-> 92]
      BY Zenon, WordsAssumption
    <3> QED
      BY <3>1
  <2>2. MaxNumber \in Nat /\ 255 < MaxNumber
    BY MaxNumberAssumption
  <2> QED
    BY <2>1, <2>2 DEF IsNumber, ParseNumber, Smaller
<1>8. /\ IsRequest(rq) /\ rq.text = FALSE /\ rq.key = "" /\ rq.shape = "square"
      /\ rq.frame = "automatic" /\ rq.background = "ffffffff" /\ rq.matte = "ffffff"
      /\ rq.format = "png" /\ rq.size = ParseNumber("128") /\ rq.quality = ParseNumber("92")
      /\ rq.frame_alpha = ParseNumber("255") /\ rq.frame_alpha <= 255
  <2>1. DOMAIN DefaultRequest = RequestFields
    BY DEF DefaultRequest, RequestFields
  <2>2. DefaultRequest = [f \in DOMAIN DefaultRequest |-> DefaultRequest[f]]
    BY DEF DefaultRequest
  <2>3. IsRequest(DefaultRequest)
    BY Zenon, <2>1, <2>2 DEF IsRequest
  <2>4. PICK d : d = DefaultRequest
    OBVIOUS
  <2>5. /\ d.text = FALSE /\ d.key = "" /\ d.shape = "square" /\ d.frame = "automatic"
        /\ d.background = "ffffffff" /\ d.matte = "ffffff" /\ d.size = 128
        /\ d.quality = 92 /\ d.frame_alpha = 255 /\ d.format = "png"
    BY <2>4 DEF DefaultRequest
  <2>6. d.size = ParseNumber("128") /\ d.quality = ParseNumber("92")
    BY <1>7, <2>5
  <2>7. d.frame_alpha = ParseNumber("255") /\ d.frame_alpha <= 255
    <3>1. d.frame_alpha = 255
      BY <2>5
    <3> QED
      BY <1>7, <3>1
  <2>8. rq = d
    BY Zenon, <1>2, <2>4
  <2> QED
    BY Zenon, <2>3, <2>4, <2>5, <2>6, <2>7, <2>8
<1>9. AsGiven(argv, rq, 0)
  <2>1. /\ GivenBy(argv, 0, "--key", "") = "" /\ GivenBy(argv, 0, "--shape", "square") = "square"
        /\ GivenBy(argv, 0, "--frame", "automatic") = "automatic"
        /\ GivenBy(argv, 0, "--background", "ffffffff") = "ffffffff"
        /\ GivenBy(argv, 0, "--matte", "ffffff") = "ffffff"
        /\ GivenBy(argv, 0, "--size", "128") = "128"
        /\ GivenBy(argv, 0, "--quality", "92") = "92"
        /\ GivenBy(argv, 0, "--frame-alpha", "255") = "255"
    BY Zenon, <1>5
  <2>2. FrameNames["automatic"] = "automatic"
    BY DEF FrameNames
  <2>3. rq.frame = FrameNames[GivenBy(argv, 0, "--frame", "automatic")]
    BY Zenon, <1>8, <2>1, <2>2
  <2>4. /\ rq.size = ParseNumber(GivenBy(argv, 0, "--size", "128"))
        /\ IsNumber(GivenBy(argv, 0, "--size", "128"))
        /\ rq.quality = ParseNumber(GivenBy(argv, 0, "--quality", "92"))
        /\ rq.frame_alpha = ParseNumber(GivenBy(argv, 0, "--frame-alpha", "255"))
        /\ IsNumber(GivenBy(argv, 0, "--frame-alpha", "255"))
    BY Zenon, <1>7, <1>8, <2>1
  <2> QED
    BY Zenon, <1>8, <2>1, <2>3, <2>4 DEF AsGiven
<1>10. PathGiven(argv, out_path, 0) /\ FormatGiven(argv, rq, format_given, 0)
  <2>1. /\ GivenBy(argv, 0, "--out", "") = "" /\ GivenBy(argv, 0, "--format", "png") = "png"
        /\ GivenAt(argv, 0, "--format") = {}
    BY Zenon, <1>4, <1>5
  <2> QED
    BY <1>2, <1>8, <2>1 DEF PathGiven, FormatGiven
<1>11. ReadUpTo(argv, args, rq, out_path, format_given, 0)
  <2>1. \A j \in 1..Len(args) : 0 + j = j
    BY <1>2, <1>3
  <2> QED
    BY <1>2, <1>3, <1>6, <1>9, <1>10, <2>1 DEF ReadUpTo
<1>12. Plain(argv, rq, have_input, Standing(argv, 0))
  <2>1. Standing(argv, 0) = {}
    <3>1. \A i \in OptionsIn(argv) : ~(i <= 0)
      <4>1. OptionsIn(argv) \subseteq 1..Len(argv)
        BY <1>2, OptionsOneByOne
      <4> QED
        BY <1>3, <4>1
    <3> QED
      BY <3>1 DEF Standing
  <2> QED
    BY <1>2, <1>8, <2>1 DEF Plain
<1>13. ArgumentsRead
  <2>1. ReadOf(argv, args, rq, out_path, format_given, have_input, 0)
    BY <1>11, <1>12 DEF ReadOf
  <2>2. \E k : ReadOf(argv, args, rq, out_path, format_given, have_input, k)
    BY <2>1
  <2> QED
    BY <1>2, <2>2 DEF ArgumentsRead
<1>14. SingleAnswered
  BY <1>2 DEF SingleAnswered
<1> QED
  BY <1>1, <1>13, <1>14 DEF SingleIInv

\* The arguments that are read stay the first ones.
LEMMA ReadKeeps == SingleIInv /\ ReadArgument => ArgumentsRead'
<1> SUFFICES ASSUME SingleIInv, ReadArgument PROVE ArgumentsRead'
  OBVIOUS
<1>1. /\ cli_pc = "args" /\ args # <<>> /\ argv' = argv
      /\ format_given \in BOOLEAN /\ have_input \in BOOLEAN
      /\ argv \in Seq(KnownWords)
  BY DEF SingleIInv, BatchIInv, CliType, ArgumentsRead, ReadArgument
<1>2. PICK k : ReadOf(argv, args, rq, out_path, format_given, have_input, k)
  BY <1>1 DEF SingleIInv, ArgumentsRead
<1>3. PICK first : first = args[1]
  OBVIOUS
<1>4. PICK a, l, w, path, given, have, v, held :
        /\ a = argv /\ l = args /\ w = rq /\ path = out_path /\ given = format_given
        /\ have = have_input /\ v = rq' /\ held = have_input'
  OBVIOUS
<1>5. /\ ReadUpTo(a, l, w, path, given, k) /\ Plain(a, w, have, Standing(a, k))
      /\ a \in Seq(KnownWords) /\ l # <<>> /\ given \in BOOLEAN /\ have \in BOOLEAN
      /\ first = l[1]
  BY <1>1, <1>2, <1>3, <1>4 DEF ReadOf
<1>6. /\ k \in Nat /\ k + 1 <= Len(a) /\ k + 1 \in OptionsIn(a) /\ a[k + 1] = first
      /\ Len(l) = Len(a) - k /\ IsRequest(w)
  <2>1. /\ k \in Nat /\ k <= Len(a) /\ l \in Seq(KnownWords) /\ Len(l) = Len(a) - k
        /\ \A j \in 1..Len(l) : l[j] = a[k + j]
        /\ k < Len(a) => k + 1 \in OptionsIn(a)
        /\ AsGiven(a, w, k)
    BY <1>5 DEF ReadUpTo
  <2>2. /\ k + 1 \in Nat /\ k + 1 <= Len(a) /\ l[1] = a[k + 1]
    BY <1>5, <2>1, RestIs
  <2>3. k < Len(a)
    BY <1>5, <2>1, <2>2, LenProperties
  <2> QED
    BY <1>5, <2>1, <2>2, <2>3 DEF AsGiven
<1>7. /\ Standing(a, k + 1) = Standing(a, k) \cup {k + 1}
      /\ k + 2 <= Len(a) /\ first \in Valued => Standing(a, k + 2) = Standing(a, k) \cup {k + 1}
  BY <1>5, <1>6, StandingIs
<1>8. /\ "--text" \notin Valued /\ Valued \subseteq Dashed /\ ~IsInput("--text")
      /\ \A x \in Valued : ~IsInput(x)
  BY DEF Valued, Dashed, IsInput
<1>9. CASE /\ first \notin Valued /\ cli_pc' = cli_pc /\ args' = Tail(args)
           /\ out_path' = out_path /\ format_given' = format_given
           /\ \/ /\ first = "--text" /\ rq' = [rq EXCEPT !.text = TRUE]
                 /\ have_input' = have_input
              \/ /\ IsInput(first) /\ first # "--text" /\ ~have_input
                 /\ rq' = [rq EXCEPT !.input = first] /\ have_input' = TRUE
  <2>1. /\ IsRequest(v) /\ \A f \in RequestFields \ {"text", "input"} : v[f] = w[f]
        /\ \/ first = "--text" /\ v.text = TRUE /\ v.input = w.input /\ held = have
           \/ /\ IsInput(first) /\ first # "--text" /\ have = FALSE
              /\ v.text = w.text /\ v.input = first /\ held = TRUE
    <3>1. DOMAIN w = RequestFields
      <4>1. PICK u : u = [f \in RequestFields |-> w[f]]
        OBVIOUS
      <4> QED
        BY <1>6, <4>1 DEF IsRequest
    <3>2. CASE v = [w EXCEPT !.text = TRUE] /\ first = "--text" /\ held = have
      BY <3>1, <3>2 DEF IsRequest, RequestFields
    <3>3. CASE /\ v = [w EXCEPT !.input = first] /\ held = TRUE /\ have = FALSE
               /\ IsInput(first) /\ first # "--text"
      BY <3>1, <3>3 DEF IsRequest, RequestFields
    <3> QED
      BY <1>1, <1>4, <1>9, <3>2, <3>3
  <2>2. ReadUpTo(a, Tail(l), v, path, given, k + 1)
    BY Zenon, <1>3, <1>4, <1>5, <1>9, <2>1, TookOne
  <2>3. Plain(a, v, held, Standing(a, k + 1))
    BY <1>5, <1>6, <1>7, <1>8, <2>1 DEF Plain
  <2>4. ReadOf(argv', args', rq', out_path', format_given', have_input', k + 1)
    BY Zenon, <1>1, <1>4, <1>9, <2>2, <2>3 DEF ReadOf
  <2>5. \E m : ReadOf(argv', args', rq', out_path', format_given', have_input', m)
    BY <2>4
  <2> QED
    BY <1>1, <1>9, <2>5 DEF ArgumentsRead
<1>10. CASE /\ first \in Valued /\ Len(args) >= 2 /\ Takes(first, args[2])
            /\ rq' = Set(rq, first, args[2])
            /\ out_path' = IF first # "--out" THEN out_path
                            ELSE IF args[2] = "" THEN <<>> ELSE <<args[2]>>
            /\ format_given' = (format_given \/ first = "--format")
            /\ args' = Tail(Tail(args)) /\ cli_pc' = cli_pc /\ have_input' = have_input
  <2>1. PICK way, asked, x : way = out_path' /\ asked = format_given' /\ x = args[2]
    OBVIOUS
  <2>2. PathTaken(way, path, first, x)
    BY Zenon, <1>4, <1>10, <2>1 DEF PathTaken
  <2>3. format_given' \in BOOLEAN
    BY <1>1, <1>10
  <2>4. FormatTaken(asked, given, first)
    <3>1. format_given' = TRUE <=> format_given = TRUE \/ first = "--format"
      BY <1>1, <1>10
    <3> QED
      BY <1>4, <2>1, <3>1 DEF FormatTaken
  <2>5. /\ Len(l) >= 2 /\ x = l[2] /\ first \in Valued /\ Takes(first, x)
        /\ v = Set(w, first, x)
    BY Zenon, <1>4, <1>10, <2>1
  <2>6. ReadUpTo(a, Tail(Tail(l)), v, way, asked, k + 2)
    BY Zenon, <1>5, <2>2, <2>4, <2>5, TookTwo
  <2>7. Plain(a, v, held, Standing(a, k + 2))
    <3>1. v.text = w.text /\ v.input = w.input /\ held = have
      <4>1. v.text = w.text /\ v.input = w.input
        BY <1>6, <2>5, SetIs
      <4> QED
        BY <1>4, <1>10, <4>1
    <3>2. k + 2 <= Len(a)
      BY <1>5, <1>6, <2>5, LenProperties
    <3>3. Standing(a, k + 2) = Standing(a, k) \cup {k + 1}
      BY <1>7, <2>5, <3>2
    <3>4. first # "--text" /\ ~IsInput(first)
      BY <1>8, <2>5
    <3> QED
      BY <1>5, <1>6, <3>1, <3>3, <3>4 DEF Plain
  <2>8. ReadOf(argv', args', rq', out_path', format_given', have_input', k + 2)
    BY Zenon, <1>1, <1>4, <1>10, <2>1, <2>6, <2>7 DEF ReadOf
  <2>9. \E m : ReadOf(argv', args', rq', out_path', format_given', have_input', m)
    BY <2>8
  <2> QED
    BY <1>1, <1>10, <2>3, <2>9 DEF ArgumentsRead
<1>11. CASE /\ cli_pc' \in {"done", "batch"} /\ format_given' = format_given
            /\ have_input' = have_input
  BY <1>1, <1>11 DEF ArgumentsRead
<1> QED
  BY Zenon, <1>3, <1>8, <1>9, <1>10, <1>11 DEF ReadArgument, Usage, IsInput

\* When none is left, the request is as they ask for it.
LEMMA AllRead ==
  ASSUME NEW k, ReadOf(argv, args, rq, out_path, format_given, TRUE, k), args = <<>>,
         argv \in Seq(KnownWords), NEW w, w = [rq EXCEPT !.format = FormatOfPath]
  PROVE  AskedFor(argv, w) /\ PathGiven(argv, out_path, Len(argv))
<1>1. k = Len(argv)
  <2>1. k \in Nat /\ Len(args) = Len(argv) - k /\ Len(argv) \in Nat
    BY LenProperties DEF ReadOf, ReadUpTo
  <2>2. Len(args) = 0
    OBVIOUS
  <2> QED
    BY <2>1, <2>2
<1>2. /\ AsGiven(argv, rq, k) /\ PathGiven(argv, out_path, k)
      /\ FormatGiven(argv, rq, format_given, k)
      /\ Plain(argv, rq, TRUE, Standing(argv, k))
  BY DEF ReadOf, ReadUpTo
<1>3. PICK q : q = FormatOfPath
  OBVIOUS
<1>4. DOMAIN rq = RequestFields /\ w = [rq EXCEPT !.format = q]
  <2>1. PICK u : u = [f \in RequestFields |-> rq[f]]
    OBVIOUS
  <2> QED
    BY <1>2, <1>3, <2>1 DEF AsGiven, IsRequest
<1>5. /\ IsRequest(w) /\ w.format = q
      /\ \A f \in RequestFields \ {"format"} : w[f] = rq[f]
  BY <1>4 DEF IsRequest, RequestFields
<1>6. AsGiven(argv, w, k) /\ Plain(argv, w, TRUE, OptionsIn(argv))
  <2>1. /\ w.key = rq.key /\ w.shape = rq.shape /\ w.frame = rq.frame
        /\ w.background = rq.background /\ w.matte = rq.matte /\ w.size = rq.size
        /\ w.quality = rq.quality /\ w.frame_alpha = rq.frame_alpha
        /\ w.text = rq.text /\ w.input = rq.input
    BY <1>5 DEF RequestFields
  <2>2. AsGiven(argv, w, k)
    BY <1>2, <1>5, <2>1 DEF AsGiven
  <2>3. Standing(argv, k) = OptionsIn(argv)
    <3>1. OptionsIn(argv) \subseteq 1..Len(argv) /\ Len(argv) \in Nat
      BY OptionsOneByOne, LenProperties
    <3> QED
      BY <1>1, <3>1 DEF Standing
  <2>4. Plain(argv, rq, TRUE, OptionsIn(argv))
    BY <1>2, <2>3
  <2> QED
    BY Zenon, <2>1, <2>2, <2>4 DEF Plain
<1>7. PICK b, path : b = GivenAt(argv, k, "--format") /\ path = GivenBy(argv, k, "--out", "")
  OBVIOUS
<1>8. CASE b # {}
  <2>1. format_given
    BY <1>2, <1>7, <1>8 DEF FormatGiven
  <2>2. q = rq.format
    BY <1>3, <2>1 DEF FormatOfPath
  <2>3. GivenBy(argv, k, "--format", "png") = GivenBy(argv, k, "--format", NamedFormat(path))
    BY <1>7, <1>8 DEF GivenBy
  <2> QED
    BY <1>1, <1>2, <1>5, <1>6, <1>7, <2>2, <2>3, Zenon DEF AskedFor, FormatGiven
<1>9. CASE b = {}
  <2>1. ~(format_given = TRUE) /\ rq.format = "png"
    BY <1>2, <1>7, <1>9 DEF FormatGiven, GivenBy
  <2>2. GivenBy(argv, k, "--format", NamedFormat(path)) = NamedFormat(path)
    BY <1>7, <1>9 DEF GivenBy
  <2>3. q = NamedFormat(path)
    <3>1. CASE path = ""
      <4>1. out_path = <<>>
        BY <1>2, <1>7, <3>1 DEF PathGiven
      <4>2. q = rq.format
        BY <1>3, <4>1 DEF FormatOfPath
      <4>3. Extension("") = ""
        BY WordsAssumption
      <4> QED
        BY <2>1, <3>1, <4>2, <4>3 DEF NamedFormat
    <3>2. CASE path # ""
      <4>1. out_path = <<path>>
        BY <1>2, <1>7, <3>2 DEF PathGiven
      <4>2. out_path # <<>> /\ out_path[1] = path
        BY <4>1
      <4>3. PICK named : named = Extension(path)
        OBVIOUS
      <4>4. q = CASE named \in {"bmp", "rgba"} -> named
                  [] named \in {"jpg", "jpeg"} -> "jpeg"
                  [] OTHER -> rq.format
        BY <1>3, <2>1, <4>2, <4>3 DEF FormatOfPath
      <4> QED
        BY <2>1, <4>3, <4>4 DEF NamedFormat
    <3> QED
      BY <3>1, <3>2
  <2> QED
    BY <1>1, <1>2, <1>5, <1>6, <1>7, <2>2, <2>3, Zenon DEF AskedFor
<1> QED
  BY <1>8, <1>9

\* Every step keeps what is read of the arguments.
LEMMA ArgumentsStay == SingleIInv /\ [CliNext]_cli_vars => ArgumentsRead'
<1> SUFFICES ASSUME SingleIInv, [CliNext]_cli_vars PROVE ArgumentsRead'
  OBVIOUS
<1>1. CASE ReadArgument
  BY <1>1, ReadKeeps
<1>2. CASE EndArguments
  <2>1. /\ cli_pc = "args" /\ args = <<>> /\ argv' = argv
        /\ UNCHANGED <<format_given, have_input, out_path>>
        /\ \/ /\ have_input /\ cli_pc' = "single"
              /\ rq' = [rq EXCEPT !.format = FormatOfPath]
           \/ cli_pc' = "done"
    BY <1>2 DEF EndArguments
  <2>2. argv \in Seq(KnownWords) /\ format_given \in BOOLEAN /\ have_input \in BOOLEAN
    BY DEF SingleIInv, BatchIInv, CliType, ArgumentsRead
  <2>3. PICK k : ReadOf(argv, args, rq, out_path, format_given, have_input, k)
    BY <2>1 DEF SingleIInv, ArgumentsRead
  <2>4. CASE /\ have_input /\ cli_pc' = "single"
             /\ rq' = [rq EXCEPT !.format = FormatOfPath]
    <3>1. PICK w : w = rq'
      OBVIOUS
    <3>2. have_input = TRUE
      BY <2>2, <2>4
    <3>3. AskedFor(argv, w) /\ PathGiven(argv, out_path, Len(argv))
      BY <2>1, <2>2, <2>3, <2>4, <3>1, <3>2, AllRead
    <3> QED
      BY <2>1, <2>2, <2>4, <3>1, <3>3 DEF ArgumentsRead
  <2>5. CASE cli_pc' = "done"
    BY <2>1, <2>2, <2>5 DEF ArgumentsRead
  <2> QED
    BY <2>1, <2>4, <2>5
<1>3. CASE Single \/ Write \/ OpenBatch \/ SkipLine \/ BadCase \/ AnswerCase \/ EndBatch
  <2>1. /\ cli_pc' \in {"done", "write", "line"}
        /\ format_given' = format_given /\ have_input' = have_input
    <3>1. CASE Single
      BY <3>1 DEF Single
    <3>2. CASE Write
      <4>1. \A batch \in BOOLEAN : WriteDone(batch) \/ WriteFailed(batch) => cli_pc' \in {"done", "line"}
        BY DEF WriteDone, WriteFailed
      <4>2. (at > 0) \in BOOLEAN
        OBVIOUS
      <4>3. cli_pc' \in {"done", "line"}
        BY Zenon, <3>2, <4>1, <4>2 DEF Write
      <4>4. format_given' = format_given /\ have_input' = have_input
        BY <3>2 DEF Write
      <4> QED
        BY <4>3, <4>4
    <3>3. CASE OpenBatch
      BY <3>3 DEF OpenBatch
    <3>4. CASE SkipLine
      BY <3>4 DEF SkipLine
    <3>5. CASE BadCase
      BY <3>5 DEF BadCase
    <3>6. CASE AnswerCase
      BY <3>6 DEF AnswerCase
    <3>7. CASE EndBatch
      BY <3>7 DEF EndBatch
    <3> QED
      BY <1>3, <3>1, <3>2, <3>3, <3>4, <3>5, <3>6, <3>7
  <2> QED
    BY <2>1 DEF SingleIInv, ArgumentsRead
<1>4. CASE UNCHANGED cli_vars
  BY <1>4 DEF SingleIInv, ArgumentsRead, cli_vars
<1> QED
  BY <1>1, <1>2, <1>3, <1>4 DEF CliNext

\* A picture is written at the path asked for.
LEMMA PictureWritten == SingleIInv /\ Write /\ at = 0 => SingleAnswered'
<1> SUFFICES ASSUME SingleIInv, Write, at = 0 PROVE SingleAnswered'
  OBVIOUS
<1>1. /\ cli_pc = "write" /\ argv' = argv /\ rq' = rq /\ at' = 0 /\ out_path' = out_path
      /\ WriteDone(FALSE) \/ WriteFailed(FALSE)
  <2>1. (at > 0) = FALSE
    OBVIOUS
  <2> QED
    BY Zenon, <2>1 DEF Write
<1>2. /\ files = <<>> /\ cli_rc = 0 /\ IsList(printed) /\ Len(printed) = 1
      /\ printed # <<>> => /\ AskedFor(argv, rq) /\ SizeInRange(rq.size)
                           /\ PathGiven(argv, out_path, Len(argv))
      /\ out_path # <<>>
  BY <1>1 DEF SingleIInv, SingleAnswered
<1>3. AskedFor(argv, rq) /\ SizeInRange(rq.size) /\ PathGiven(argv, out_path, Len(argv))
  <2>1. printed # <<>>
    BY <1>2
  <2> QED
    BY <1>2, <2>1
<1>4. DOMAIN files = {}
  BY <1>2
<1>5. ASSUME NEW whole \in BOOLEAN,
             files' = [p \in DOMAIN files \cup {out_path} |->
                         IF p = out_path THEN [of |-> rq, whole |-> whole] ELSE files[p]]
      PROVE  /\ DOMAIN files' = {out_path} /\ files'[out_path].whole = whole
             /\ files'[out_path].of = rq
  <2>1. PICK fs, place, w, g : fs = files /\ place = out_path /\ w = rq /\ g = files'
    OBVIOUS
  <2>2. /\ DOMAIN g = DOMAIN fs \cup {place}
        /\ g[place].of = w /\ g[place].whole = whole
    BY Zenon, <1>5, <2>1, PutIs
  <2> QED
    BY <1>4, <2>1, <2>2
<1>6. ASSUME NEW whole \in BOOLEAN,
             DOMAIN files' = {out_path}, files'[out_path].whole = whole,
             files'[out_path].of = rq
      PROVE  /\ FilesOf(files', out_path', rq')
             /\ whole = TRUE \/ "close" \in unnoticed' => Complete(files', out_path', unnoticed')
             /\ whole = FALSE => \A p \in DOMAIN files' : files'[p].whole = FALSE
             /\ AskedFor(argv', rq') /\ SizeInRange(rq'.size)
             /\ PathGiven(argv', out_path', Len(argv'))
  <2>1. At(out_path) = {out_path}
    BY <1>2 DEF At
  <2>2. FilesOf(files', out_path', rq')
    BY <1>1, <1>6, <2>1 DEF FilesOf
  <2>3. whole = TRUE \/ "close" \in unnoticed' => Complete(files', out_path', unnoticed')
    BY <1>1, <1>6, <2>1 DEF Complete
  <2>4. whole = FALSE => \A p \in DOMAIN files' : files'[p].whole = FALSE
    BY <1>6
  <2>5. /\ AskedFor(argv', rq') /\ SizeInRange(rq'.size)
        /\ PathGiven(argv', out_path', Len(argv'))
    BY <1>1, <1>3
  <2> QED
    BY <2>2, <2>3, <2>4, <2>5
<1>7. CASE WriteDone(FALSE)
  <2>1. PICK whole \in BOOLEAN :
          /\ files' = [p \in DOMAIN files \cup {out_path} |->
                         IF p = out_path THEN [of |-> rq, whole |-> whole] ELSE files[p]]
          /\ unnoticed' = IF whole THEN unnoticed ELSE unnoticed \cup {"close"}
          /\ cli_pc' = "done" /\ cli_rc' = cli_rc
          /\ printed' = Append(printed, [n |-> 0, says |-> "wrote", whole |-> TRUE])
    BY <1>7 DEF WriteDone
  <2>2. /\ DOMAIN files' = {out_path} /\ files'[out_path].whole = whole
        /\ files'[out_path].of = rq
    BY <1>5, <2>1
  <2>3. whole = TRUE \/ "close" \in unnoticed'
    BY <2>1
  <2>4. /\ FilesOf(files', out_path', rq') /\ Complete(files', out_path', unnoticed')
        /\ AskedFor(argv', rq') /\ SizeInRange(rq'.size)
        /\ PathGiven(argv', out_path', Len(argv'))
    BY <1>6, <2>2, <2>3
  <2>5. printed' # <<>>
    <3>1. PICK e : e = [n |-> 0, says |-> "wrote", whole |-> TRUE]
      OBVIOUS
    <3>2. printed' = Append(printed, e)
      BY <2>1, <3>1
    <3> QED
      BY <3>2
  <2> QED
    BY <1>2, <2>1, <2>4, <2>5 DEF SingleAnswered
<1>8. CASE WriteFailed(FALSE)
  <2>1. /\ files' = [p \in DOMAIN files \cup {out_path} |->
                       IF p = out_path THEN [of |-> rq, whole |-> FALSE] ELSE files[p]]
        /\ cli_pc' = "done" /\ cli_rc' = 1 /\ printed' = printed
    BY <1>8 DEF WriteFailed
  <2>2. PICK whole \in BOOLEAN : whole = FALSE
    OBVIOUS
  <2>3. /\ DOMAIN files' = {out_path} /\ files'[out_path].whole = whole
        /\ files'[out_path].of = rq
    BY <1>5, <2>1, <2>2
  <2>4. /\ FilesOf(files', out_path', rq')
        /\ \A p \in DOMAIN files' : files'[p].whole = FALSE
        /\ AskedFor(argv', rq') /\ SizeInRange(rq'.size)
        /\ PathGiven(argv', out_path', Len(argv'))
    BY <1>6, <2>2, <2>3
  <2>5. printed' # <<>> /\ cli_pc' # "write" /\ cli_rc' # 0
        /\ cli_pc' \notin {"args", "single", "batch", "line"}
    BY <1>2, <2>1
  <2> QED
    BY Zenon, <2>4, <2>5 DEF SingleAnswered
<1> QED
  BY <1>1, <1>7, <1>8

\* Every step keeps what is answered.
LEMMA AnswersStay == SingleIInv /\ [CliNext]_cli_vars => SingleAnswered'
<1> SUFFICES ASSUME SingleIInv, [CliNext]_cli_vars PROVE SingleAnswered'
  OBVIOUS
<1>1. CASE ReadArgument \/ EndArguments
  <2>1. /\ cli_pc = "args" /\ files' = files /\ printed' = printed
        /\ cli_pc' \in {"args", "single", "batch", "done"}
    <3>1. CASE ReadArgument
      BY <1>1, <3>1, Zenon DEF ReadArgument, Usage
    <3>2. CASE EndArguments
      BY <3>2 DEF EndArguments
    <3> QED
      BY <1>1, <3>1, <3>2
  <2>2. printed = <<>> /\ files = <<>>
    BY <2>1 DEF SingleIInv, BatchIInv, NothingYet
  <2> QED
    BY <2>1, <2>2 DEF SingleAnswered
<1>2. CASE Single
  <2>1. /\ cli_pc = "single" /\ argv' = argv /\ rq' = rq /\ files' = files
        /\ out_path' = out_path
        /\ \/ cli_pc' = "done" /\ printed' = printed
           \/ /\ Run(rq) = "ok" /\ cli_rc' = cli_rc
              /\ cli_pc' = IF out_path = <<>> THEN "done" ELSE "write"
              /\ printed' = <<[n |-> 0, says |-> "ok", whole |-> TRUE, mode |-> ModeOf(rq)]>>
    BY <1>2 DEF Single
  <2>2. printed = <<>> /\ files = <<>> /\ cli_rc = 0
    BY <2>1 DEF SingleIInv, BatchIInv, NothingYet
  <2>3. AskedFor(argv, rq) /\ PathGiven(argv, out_path, Len(argv))
    BY <2>1 DEF SingleIInv, ArgumentsRead
  <2>4. CASE cli_pc' = "done" /\ printed' = printed
    BY <2>1, <2>2, <2>4 DEF SingleAnswered
  <2>5. CASE /\ Run(rq) = "ok" /\ cli_rc' = cli_rc
             /\ cli_pc' = IF out_path = <<>> THEN "done" ELSE "write"
             /\ printed' = <<[n |-> 0, says |-> "ok", whole |-> TRUE, mode |-> ModeOf(rq)]>>
    <3>1. PICK w, x : w = rq /\ x = [n |-> 0, says |-> "ok", whole |-> TRUE, mode |-> ModeOf(rq)]
      OBVIOUS
    <3>2. SizeInRange(w.size)
      BY <2>5, <3>1, AnsweredInRange
    <3>3. PICK e : e = printed'
      OBVIOUS
    <3>4. e = <<x>>
      BY Zenon, <2>5, <3>1, <3>3
    <3>5. Len(e) = 1 /\ IsList(e)
      <4>1. Range(e) = {x} /\ <<x>> \in Seq({x})
        BY <3>4 DEF Range
      <4> QED
        BY <3>4, <4>1 DEF IsList
    <3>6. printed' # <<>> /\ SizeInRange(rq'.size) /\ AskedFor(argv', rq')
          /\ PathGiven(argv', out_path', Len(argv'))
      BY <2>1, <2>3, <3>1, <3>2, <3>3, <3>5
    <3>7. FilesOf(files', out_path', rq')
      BY <2>1, <2>2 DEF FilesOf
    <3>8. cli_pc' = "done" => Complete(files', out_path', unnoticed')
      BY <2>1, <2>5 DEF Complete, At
    <3>9. cli_pc' = "write" => out_path' # <<>>
      BY <2>1, <2>5
    <3> QED
      BY <2>1, <2>2, <2>5, <3>3, <3>5, <3>6, <3>7, <3>8, <3>9 DEF SingleAnswered
  <2> QED
    BY <2>1, <2>4, <2>5
<1>3. CASE Write
  <2>1. at' = at /\ at \in Nat
    BY <1>3 DEF Write, SingleIInv, BatchIInv, CliType
  <2> QED
    BY <1>3, <2>1, PictureWritten DEF SingleAnswered
<1>4. CASE SkipLine \/ BadCase \/ AnswerCase
  <2>1. at' = at + 1 /\ at \in Nat
    BY <1>4 DEF SkipLine, BadCase, AnswerCase, SingleIInv, BatchIInv, CliType
  <2>2. at' # 0
    BY <2>1
  <2> QED
    BY <2>2 DEF SingleAnswered
<1>5. CASE OpenBatch \/ EndBatch
  <2>1. /\ cli_pc \in {"batch", "line"} /\ cli_pc' \in {"line", "done"}
        /\ at' = at /\ printed' = printed /\ files' = files
    BY <1>5 DEF OpenBatch, EndBatch
  <2>2. at = 0 => printed = <<>> /\ files = <<>>
    BY <2>1 DEF SingleIInv, SingleAnswered
  <2> QED
    BY <2>1, <2>2 DEF SingleAnswered
<1>6. CASE UNCHANGED cli_vars
  BY <1>6 DEF SingleIInv, SingleAnswered, cli_vars
<1> QED
  BY <1>1, <1>2, <1>3, <1>4, <1>5, <1>6 DEF CliNext

\* Every step keeps the invariant of a single picture.
LEMMA StepSingle == SingleIInv /\ [CliNext]_cli_vars => SingleIInv'
BY StepBatch, ArgumentsStay, AnswersStay DEF SingleIInv

\* A record of the eleven fields is a request.
LEMMA MadeIsRequest ==
  ASSUME NEW c1, NEW c2, NEW c3, NEW c4, NEW c5, NEW c6, NEW c7, NEW c8, NEW c9, NEW c10,
         NEW c11, NEW w,
         w = [text |-> c1, input |-> c2, key |-> c3, size |-> c4, shape |-> c5, frame |-> c6,
              background |-> c7, frame_alpha |-> c8, format |-> c9, quality |-> c10,
              matte |-> c11]
  PROVE  IsRequest(w)
<1>1. DOMAIN w = RequestFields
  BY DEF RequestFields
<1>2. w = [f \in DOMAIN w |-> w[f]]
  OBVIOUS
<1> QED
  BY Zenon, <1>1, <1>2 DEF IsRequest

\* A request that was asked for is the one the arguments spell.
LEMMA AskedIs ==
  ASSUME argv \in Seq(KnownWords), AskedFor(argv, rq), SizeInRange(rq.size)
  PROVE  rq = Asked
<1>1. PICK a, w : a = argv /\ w = rq
  OBVIOUS
<1>2. \A option, default : Given(option, default) = GivenBy(a, Len(a), option, default)
  BY <1>1, GivenIs
<1>3. /\ AsGiven(a, w, Len(a)) /\ Plain(a, w, TRUE, OptionsIn(a)) /\ SizeInRange(w.size)
      /\ w.format = GivenBy(a, Len(a), "--format", NamedFormat(GivenBy(a, Len(a), "--out", "")))
  BY <1>1 DEF AskedFor
<1>4. PICK x, y, z : /\ x = Given("--size", "128") /\ y = Given("--frame-alpha", "255")
                     /\ z = Given("--quality", "92")
  OBVIOUS
<1>5. x \in KnownWords /\ y \in KnownWords
  <2>1. "128" \in KnownWords /\ "255" \in KnownWords
    BY DEF KnownWords
  <2>2. Len(a) \in Nat /\ Len(a) <= Len(a) /\ a \in Seq(KnownWords)
    BY <1>1, LenProperties
  <2> QED
    BY <1>2, <1>4, <2>1, <2>2, GivenType
<1>6. w.size = Number(x).value
  <2>1. w.size = ParseNumber(x) /\ IsNumber(x) /\ SizeInRange(w.size)
    BY <1>2, <1>3, <1>4 DEF AsGiven
  <2>2. PICK e, d : e = ParseNumber(x) /\ d = Number(x).value
    OBVIOUS
  <2>3. d \in Nat /\ (e = d \/ (e > 1024 /\ e \in Nat /\ d > 1024))
    BY <1>5, <2>1, <2>2, NumbersKept
  <2>4. e \in 16..1024
    BY Zenon, <2>1, <2>2 DEF SizeInRange
  <2>5. e = d
    BY <2>3, <2>4
  <2> QED
    BY Zenon, <2>1, <2>2, <2>5
<1>7. w.frame_alpha = Number(y).value
  <2>1. w.frame_alpha = ParseNumber(y) /\ IsNumber(y) /\ w.frame_alpha <= 255
    BY <1>2, <1>3, <1>4 DEF AsGiven
  <2>2. PICK e, d : e = ParseNumber(y) /\ d = Number(y).value
    OBVIOUS
  <2>3. d \in Nat /\ (e = d \/ (e > 1024 /\ e \in Nat /\ d > 1024))
    BY <1>5, <2>1, <2>2, NumbersKept
  <2>4. ~(e > 1024)
    BY <2>1, <2>2, <2>3
  <2> QED
    BY <2>1, <2>2, <2>3, <2>4
<1>8. w.quality = Smaller(Number(z).value, MaxNumber)
  BY <1>2, <1>3, <1>4 DEF AsGiven, ParseNumber
<1>9. w.text = (\E i \in OptionsIn(a) : a[i] = "--text")
  BY Zenon, <1>3 DEF Plain
<1>10. w.input = a[CHOOSE i \in OptionsIn(a) : a[i] \notin Dashed \cup {"-h"}]
  BY Zenon, <1>3 DEF Plain, IsInput
<1>11. /\ w.key = Given("--key", "") /\ w.shape = Given("--shape", "square")
       /\ w.frame = FrameNames[Given("--frame", "automatic")]
       /\ w.background = Given("--background", "ffffffff")
       /\ w.matte = Given("--matte", "ffffff")
       /\ w.format = Given("--format", NamedFormat(Given("--out", "")))
  BY Zenon, <1>2, <1>3 DEF AsGiven
<1>12. IsRequest(Asked)
  <2>1. PICK c1, c2, c3, c4, c5, c6, c7, c8, c9, c10, c11 :
          Asked = [text |-> c1, input |-> c2, key |-> c3, size |-> c4, shape |-> c5,
                   frame |-> c6, background |-> c7, frame_alpha |-> c8, format |-> c9,
                   quality |-> c10, matte |-> c11]
    BY Zenon DEF Asked
  <2> QED
    BY <2>1, MadeIsRequest
<1>13. w = [f \in RequestFields |-> w[f]]
  BY <1>3 DEF AsGiven, IsRequest
<1>14. PICK u : u = Asked
  OBVIOUS
<1>15. /\ u.text = (\E i \in OptionsIn(a) : a[i] = "--text")
       /\ u.input = a[CHOOSE i \in OptionsIn(a) : a[i] \notin Dashed \cup {"-h"}]
       /\ u.size = Number(x).value /\ u.frame_alpha = Number(y).value
       /\ u.quality = Smaller(Number(z).value, MaxNumber)
       /\ u.key = Given("--key", "") /\ u.shape = Given("--shape", "square")
       /\ u.frame = FrameNames[Given("--frame", "automatic")]
       /\ u.background = Given("--background", "ffffffff")
       /\ u.matte = Given("--matte", "ffffff")
       /\ u.format = Given("--format", NamedFormat(Given("--out", "")))
  BY <1>1, <1>4, <1>14 DEF Asked, NamedFormat
<1>16. \A f \in RequestFields : w[f] = u[f]
  <2>1. /\ w.text = u.text /\ w.input = u.input /\ w.key = u.key /\ w.size = u.size
        /\ w.shape = u.shape /\ w.frame = u.frame /\ w.background = u.background
        /\ w.frame_alpha = u.frame_alpha /\ w.format = u.format /\ w.quality = u.quality
        /\ w.matte = u.matte
    BY Zenon, <1>6, <1>7, <1>8, <1>9, <1>10, <1>11, <1>15
  <2> QED
    BY <2>1 DEF RequestFields
<1>17. w = u
  BY <1>12, <1>13, <1>14, <1>16 DEF IsRequest
<1> QED
  BY <1>1, <1>14, <1>17

\* For every list of arguments: a picture is of the whole request they spell, each
\* option as it was last given and no value taken for an option; it is where they
\* say, and a failure leaves no whole file (hh_cli.cpp:241-309).
THEOREM SingleIsAsAsked == CliSpec => []SingleAsAsked
<1>1. ASSUME SingleIInv PROVE SingleAsAsked
  <2> SUFFICES ASSUME cli_pc \in {"write", "done"}, at = 0, have_input PROVE SingleAsAsked
    BY DEF SingleAsAsked
  <2>1. SingleAnswered
    BY <1>1 DEF SingleIInv
  <2> DEFINE path   == Given("--out", "")
             places == IF path = "" THEN {} ELSE {<<path>>}
  <2>2. cli_rc # 0 => \A p \in DOMAIN files : ~files[p].whole
    BY <2>1 DEF SingleAnswered
  <2>3. printed = <<>> => DOMAIN files = {}
    BY <2>1 DEF SingleAnswered
  <2>4. ASSUME printed # <<>>
        PROVE  /\ rq = Asked /\ At(out_path) = places
               /\ DOMAIN files \subseteq At(out_path)
               /\ \A p \in DOMAIN files : files[p].of = rq
    <3>1. argv \in Seq(KnownWords)
      BY <1>1 DEF SingleIInv, BatchIInv, CliType
    <3>2. /\ AskedFor(argv, rq) /\ SizeInRange(rq.size)
          /\ PathGiven(argv, out_path, Len(argv)) /\ FilesOf(files, out_path, rq)
      BY <2>1, <2>4 DEF SingleAnswered
    <3>3. rq = Asked
      BY <3>1, <3>2, AskedIs
    <3>4. out_path = IF path = "" THEN <<>> ELSE <<path>>
      BY <3>2, GivenIs DEF PathGiven
    <3>5. At(out_path) = places
      BY <3>4 DEF At
    <3> QED
      BY <3>2, <3>3, <3>5 DEF FilesOf
  <2>5. ASSUME cli_pc = "done", cli_rc = 0, printed # <<>>
        PROVE  \A p \in places : p \in DOMAIN files /\ (files[p].whole \/ "close" \in unnoticed)
    <3>1. Complete(files, out_path, unnoticed)
      BY <2>1, <2>5 DEF SingleAnswered
    <3>2. At(out_path) = places
      BY <2>4, <2>5
    <3> QED
      BY <3>1, <3>2 DEF Complete
  <2>6. \A p \in DOMAIN files : files[p].of = Asked
    BY <2>3, <2>4
  <2>7. DOMAIN files \subseteq places
    BY <2>3, <2>4
  <2> HIDE DEF places
  <2> QED
    BY Zenon, <2>2, <2>4, <2>5, <2>6, <2>7 DEF SingleAsAsked, places
<1> QED
  BY <1>1, InitSingle, StepSingle, PTL DEF CliSpec
=============================================================================
