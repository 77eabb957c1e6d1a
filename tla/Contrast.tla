------------------------------ MODULE Contrast ------------------------------
(***************************************************************************)
(* src/contrast.cpp, and the refusal of src/raster.cpp that hangs on it:   *)
(* how much lighter one colour is than another, rounded down to a          *)
(* hundredth, for the four colours of the figures one after another, on    *)
(* what is seen of a background over a page.  Luminances have 34 bits: a   *)
(* number is a pair <<high, low>> here, which is 100000 * high + low.      *)
(***************************************************************************)
EXTENDS Integers, Sequences

CONSTANTS Backgrounds, Alphas, Pages   \* colours <<r, g, b>>, and alphas

ASSUME ColoursAssumption ==
  /\ \A c \in Backgrounds \cup Pages : c \in Seq(0..255) /\ Len(c) = 3
  /\ Alphas \subseteq 0..255

VARIABLES use,      \* "measure": a report for a page; "render": whether to refuse
          options,  \* background, its alpha, the alpha of the frame
          page,
          colour,   \* the next colour of the palette, or 5
          worst,    \* the least contrast so far
          answer    \* the report, or the code; <<>> until it is given

contrast_vars == <<use, options, page, colour, worst, answer>>

lin ==
  <<0, 304, 607, 911, 1214, 1518, 1821, 2125, 2428, 2732, 3035, 3347, 3677, 4025, 4391, 4777,
    5182, 5605, 6049, 6512, 6995, 7499, 8023, 8568, 9134, 9721, 10330, 10960, 11612, 12286,
    12983, 13702, 14444, 15209, 15996, 16807, 17642, 18500, 19382, 20289, 21219, 22174, 23153,
    24158, 25187, 26241, 27321, 28426, 29557, 30713, 31896, 33105, 34340, 35601, 36889, 38204,
    39546, 40915, 42311, 43735, 45186, 46665, 48172, 49707, 51269, 52861, 54480, 56128, 57805,
    59511, 61246, 63010, 64803, 66626, 68478, 70360, 72272, 74214, 76185, 78187, 80220, 82283,
    84376, 86500, 88656, 90842, 93059, 95307, 97587, 99899, 102242, 104616, 107023, 109462,
    111932, 114435, 116971, 119538, 122139, 124772, 127438, 130136, 132868, 135633, 138432,
    141263, 144128, 147027, 149960, 152926, 155926, 158961, 162029, 165132, 168269, 171441,
    174647, 177888, 181164, 184475, 187821, 191202, 194618, 198069, 201556, 205079, 208637,
    212231, 215861, 219526, 223228, 226966, 230740, 234551, 238398, 242281, 246201, 250158,
    254152, 258183, 262251, 266356, 270498, 274677, 278894, 283149, 287441, 291771, 296138,
    300544, 304987, 309469, 313989, 318547, 323143, 327778, 332452, 337164, 341914, 346704,
    351533, 356400, 361307, 366253, 371238, 376262, 381326, 386429, 391572, 396755, 401978,
    407240, 412543, 417885, 423268, 428690, 434154, 439657, 445201, 450786, 456411, 462077,
    467784, 473531, 479320, 485150, 491021, 496933, 502886, 508881, 514918, 520996, 527115,
    533276, 539479, 545724, 552011, 558340, 564712, 571125, 577580, 584078, 590619, 597202,
    603827, 610496, 617207, 623960, 630757, 637597, 644480, 651406, 658375, 665387, 672443,
    679542, 686685, 693872, 701102, 708376, 715694, 723055, 730461, 737910, 745404, 752942,
    760525, 768151, 775822, 783538, 791298, 799103, 806952, 814847, 822786, 830770, 838799,
    846873, 854993, 863157, 871367, 879622, 887923, 896269, 904661, 913099, 921582, 930111,
    938686, 947307, 955973, 964686, 973445, 982251, 991102, 1000000>>

palette == <<<<122, 150, 197>>, <<137, 10, 240>>, <<193, 4, 69>>, <<212, 130, 0>>>>
frame_colour == <<128, 128, 128>>

-----------------------------------------------------------------------------
(* Numbers of 64 bits *)

Number(thousands, rest) ==
  LET t == thousands + rest \div 1000
  IN  <<t \div 100, 1000 * (t % 100) + (rest % 1000)>>

Times(n, x) == <<n * x[1] + (n * x[2]) \div 100000, (n * x[2]) % 100000>>
AtMost(x, y) == x[1] < y[1] \/ (x[1] = y[1] /\ x[2] <= y[2])

\* For quotients of less than a million.
Quotient(x, y) ==
  CHOOSE q \in (x[1] \div (y[1] + 1))..((x[1] + 1) \div y[1]) :
    AtMost(Times(q, y), x) /\ ~AtMost(Times(q + 1, y), x)

-----------------------------------------------------------------------------
(* luminance, contrast_x100 and over *)

\* With the 500000000 that are added to both.
Luminance(c) ==
  LET Of(i) == lin[c[i] + 1]
  IN  Number(2126 * (Of(1) \div 1000) + 7152 * (Of(2) \div 1000) + 722 * (Of(3) \div 1000)
               + 500000,
             2126 * (Of(1) % 1000) + 7152 * (Of(2) % 1000) + 722 * (Of(3) % 1000))

Lighter(a, b) == IF AtMost(Luminance(a), Luminance(b)) THEN b ELSE a
Darker(a, b) == IF AtMost(Luminance(a), Luminance(b)) THEN a ELSE b

\* Mutant: the quotient is rounded to the nearest hundredth.
ContrastRounded(a, b) ==
  (Quotient(Times(200, Luminance(Lighter(a, b))), Luminance(Darker(a, b))) + 1) \div 2

contrast_x100(a, b) ==
  Quotient(Times(100, Luminance(Lighter(a, b))), Luminance(Darker(a, b)))

over(c, a, under) ==
  [ch \in 1..3 |-> (a * c[ch] + (255 - a) * under[ch] + 127) \div 255]

-----------------------------------------------------------------------------
(* figures_contrast_x100, measure_contrast and the check of prepare *)

\* The colour the contrast is taken against.
Behind == IF use = "render" THEN options.background
          ELSE over(options.background, options.background_alpha, page)

ContrastInit ==
  /\ use \in {"measure", "render"}
  /\ options \in [background : Backgrounds, background_alpha : Alphas, frame_alpha : Alphas]
  /\ page \in Pages
  /\ colour = 1 /\ worst = 0 /\ answer = <<>>

\* Only an opaque background is refused.
NotMeasured ==
  /\ answer = <<>> /\ use = "render" /\ options.background_alpha # 255
  /\ answer' = <<"ok">>
  /\ UNCHANGED <<use, options, page, colour, worst>>

Weaker(a, b) == IF a < b THEN a ELSE b

\* The first colour of the palette, or the next.
MeasureColour ==
  LET contrast == contrast_x100(palette[colour], Behind)
  IN  /\ answer = <<>> /\ colour <= Len(palette)
      /\ use = "render" => options.background_alpha = 255
      /\ worst' = IF colour = 1 THEN contrast ELSE Weaker(worst, contrast)
      /\ colour' = colour + 1
      /\ UNCHANGED <<use, options, page, answer>>

Answer ==
  /\ answer = <<>> /\ colour > Len(palette)
  /\ answer' = IF use = "render"
               THEN <<IF worst < 200 THEN "low_contrast" ELSE "ok">>
               ELSE <<worst, contrast_x100(over(frame_colour, options.frame_alpha, Behind),
                                           Behind)>>
  /\ UNCHANGED <<use, options, page, colour, worst>>

ContrastNext == NotMeasured \/ MeasureColour \/ Answer

ContrastSpec == ContrastInit /\ [][ContrastNext]_contrast_vars

-----------------------------------------------------------------------------
(* Properties *)

\* Whether a colour is less than twice as light as another, or as dark: by the
\* luminances alone, without a quotient.
Close(a, b) == ~AtMost(Times(2, Luminance(Darker(a, b))), Luminance(Lighter(a, b)))

\* Whether h is the contrast of two colours in hundredths, those begun left out.
IsContrast(h, a, b) ==
  LET light == Times(100, Luminance(Lighter(a, b)))
      dark  == Luminance(Darker(a, b))
  IN  AtMost(Times(h, dark), light) /\ ~AtMost(Times(h + 1, dark), light)

\* What is seen of a colour over another: in every channel the nearest of 0..255.
Shown(c, alpha, under) ==
  LET Nearest(ch) ==
        CHOOSE v \in 0..255 :
          2 * (255 * v - alpha * c[ch] - (255 - alpha) * under[ch]) \in -255..255
  IN  <<Nearest(1), Nearest(2), Nearest(3)>>

\* A background is refused exactly if it is opaque and one of the figures would be
\* less than twice as light or as dark, whatever the page is; the quotient is rounded
\* to neither side of 200.  A report says the same of an opaque background, and of any
\* other what it would of the colour a page makes of it; no page of white or of 121212
\* without a background hides a figure.  The report's second number is the contrast of
\* what is seen of the frame, over the background over the page, with what is seen
\* beside it: of nothing at alpha 0, which is 1.00 (contrast.cpp:46-76;
\* SPEC.md:321 "a contrast of at least 3:1 against white and against 121212",
\* SPEC.md:343 "page is irrelevant").
RefusalIsExact ==
  answer # <<>> =>
    LET alpha == options.background_alpha
        Hidden(c) == \E i \in DOMAIN palette : Close(palette[i], c)
        seen == Shown(options.background, alpha, page)
    IN  IF use = "render"
        THEN answer = <<"low_contrast">> <=> alpha = 255 /\ Hidden(options.background)
        ELSE /\ answer[1] < 200 <=> Hidden(seen)
             /\ alpha = 0 /\ page \in {<<255, 255, 255>>, <<18, 18, 18>>} => answer[1] >= 300
             /\ IsContrast(answer[2], Shown(frame_colour, options.frame_alpha, seen), seen)
             /\ options.frame_alpha = 0 => answer[2] = 100
=============================================================================
