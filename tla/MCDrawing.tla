----------------------------- MODULE MCDrawing -----------------------------
(***************************************************************************)
(* What a picture is drawn from, each part with inputs of its own, chosen  *)
(* at the start.                                                           *)
(*                                                                         *)
(* The raster has the sizes at which the line, the margin and the parity   *)
(* of the grid change: 16 to 26, the first with a line of two pixels, and  *)
(* a few in between.  Pixels are drawn at the smallest of them, at the     *)
(* ones around the first with room for a thick ring, and at an odd one, as *)
(* an image of odd size has no grid in its exact middle: two layouts with  *)
(* every figure, empty cells among them, in the four colours.              *)
(*                                                                         *)
(* The contrast is that of all greys and of the colours whose contrast to  *)
(* a figure is nearest to 2, on both sides of it; layout and tag are those *)
(* of every byte, and of bits that are set in one byte of the tag.         *)
(***************************************************************************)
EXTENDS Raster, Mix, Contrast, Features

MCSizes == (16..26) \cup {31, 47, 48, 64, 95, 96, 97, 144, 191}

Figures == <<"square", "circle", "triangle_up", "none", "triangle_down",
             "triangle_right", "triangle_left">>

Layout(shift) ==
  [i \in 1..16 |-> [figure |-> Figures[((i + shift) % 7) + 1],
                    colour |-> (i + i \div 4) % 4]]

MCLayouts == {Layout(0), Layout(4)}

Grey(v) == <<v, v, v>>

MCBackgrounds ==
  {Grey(v) : v \in 0..255}
    \cup {<<125, 237, 15>>, <<30, 240, 155>>, <<220, 217, 35>>, <<85, 241, 35>>,
          <<175, 224, 160>>, <<25, 243, 85>>, <<122, 150, 197>>, <<193, 4, 69>>}

MCAlphas == {0, 127, 255}
MCPages == {Grey(255), Grey(18), <<85, 241, 35>>}

MCCellBytes == {[c \in 1..16 |-> (16 * high) + c - 1] : high \in 0..15}
MCTagBytes ==
  {[t \in 1..4 |-> IF t = place THEN v ELSE rest] : place \in 1..4, v \in {0, 1, 170, 255}, rest \in {0, 85}}

RasterIdle ==
  /\ pc = "idle" /\ size = 0 /\ shape = "square" /\ style = "none" /\ cell = 0
  /\ cells = <<>> /\ reference = FALSE /\ row = 0 /\ index = 0 /\ known = <<>> /\ rgba = <<>>
MixIdle ==
  /\ fg = 0 /\ fg_alpha = 0 /\ bg = 0 /\ bg_alpha = 0
  /\ left = 0 /\ n_fg = 0 /\ n_bg = 0 /\ written = TRUE /\ pixel = [channel |-> 0, alpha |-> 0]
ContrastIdle ==
  use = "none" /\ options = <<>> /\ page = <<>> /\ colour = 0 /\ worst = 0 /\ answer = <<>>
FeaturesIdle == fp = <<>> /\ layout = <<>> /\ tag = <<>>

Init ==
  \/ RasterInit /\ MixIdle /\ ContrastIdle /\ FeaturesIdle
  \/ MixInit /\ RasterIdle /\ ContrastIdle /\ FeaturesIdle
  \/ ContrastInit /\ RasterIdle /\ MixIdle /\ FeaturesIdle
  \/ FeaturesInit /\ RasterIdle /\ MixIdle /\ ContrastIdle

\* The variables of the others do not change.
Next ==
  \/ RasterNext /\ UNCHANGED <<mix_vars, contrast_vars, feature_vars>>
  \/ MixNext /\ UNCHANGED <<raster_vars, contrast_vars, feature_vars>>
  \/ use # "none" /\ ContrastNext /\ UNCHANGED <<raster_vars, mix_vars, feature_vars>>
  \/ fp # <<>> /\ FeaturesNext /\ UNCHANGED <<raster_vars, mix_vars, contrast_vars>>

Spec == Init /\ [][Next]_<<raster_vars, mix_vars, contrast_vars, feature_vars>>
=============================================================================
