-------------------------------- MODULE Mix --------------------------------
(***************************************************************************)
(* mix of src/raster.cpp, and the loops that count the samples it mixes:   *)
(* some samples of a pixel show a foreground laid over the background,     *)
(* some the background alone, and the rest nothing.  The colour that is    *)
(* written has straight alpha, so it is a quotient by the alpha of what    *)
(* shows.  The three channels are alike, and one of them is kept.          *)
(***************************************************************************)
EXTENDS Integers

CONSTANT Values   \* the values of channels and alphas tried

ASSUME ValuesAssumption == Values \subseteq 0..255

VARIABLES fg, fg_alpha,  \* the foreground
          bg, bg_alpha,  \* the background
          left,          \* samples of the pixel not counted yet
          n_fg, n_bg,    \* samples of the foreground, of the background alone
          written,       \* whether the pixel has been written
          pixel          \* its channel and its alpha

mix_vars == <<fg, fg_alpha, bg, bg_alpha, left, n_fg, n_bg, written, pixel>>

\* a and p of the code, which are 255 * 255 * 16 times the alpha that shows, and
\* the channel weighed by it.
WeightOf(fa, nf, ba, nb) ==
  nf * (255 * fa + ba * (255 - fa)) + nb * 255 * ba
ChannelSum(f, fa, nf, b, ba, nb) ==
  nf * (255 * fa * f + ba * (255 - fa) * b) + nb * 255 * ba * b

AlphaOf(weight) == (weight + 2040) \div 4080

\* Mutant: the channel of a pixel that is translucent stays multiplied.
MixedMultiplied(sum, weight) == (sum + 520200) \div 1040400

Mixed(sum, weight) == (sum + weight \div 2) \div weight

\* mix, with its two conversions to eight bits.
MixOf(f, fa, nf, b, ba, nb) ==
  LET weight == WeightOf(fa, nf, ba, nb)
  IN  IF AlphaOf(weight) = 0 THEN [channel |-> 0, alpha |-> 0]
      ELSE [channel |-> Mixed(ChannelSum(f, fa, nf, b, ba, nb), weight) % 256,
            alpha |-> AlphaOf(weight) % 256]

MixInit ==
  /\ fg \in Values /\ fg_alpha \in Values
  /\ bg \in Values /\ bg_alpha \in Values
  /\ left = 16 /\ n_fg = 0 /\ n_bg = 0
  /\ written = FALSE /\ pixel = [channel |-> 0, alpha |-> 0]

\* A sample is outside the outline, on the background or on the foreground.
CountSample ==
  \E foreground, background \in 0..1 :
    /\ left > 0 /\ foreground + background <= 1
    /\ left' = left - 1
    /\ n_fg' = n_fg + foreground /\ n_bg' = n_bg + background
    /\ UNCHANGED <<fg, fg_alpha, bg, bg_alpha, written, pixel>>

WritePixel ==
  /\ left = 0 /\ ~written
  /\ written' = TRUE
  /\ pixel' = MixOf(fg, fg_alpha, n_fg, bg, bg_alpha, n_bg)
  /\ UNCHANGED <<fg, fg_alpha, bg, bg_alpha, left, n_fg, n_bg>>

MixNext == CountSample \/ WritePixel

MixSpec == MixInit /\ [][MixNext]_mix_vars

-----------------------------------------------------------------------------
(* Properties *)

\* The largest value of 31 bits: the code's u32 has one bit more.
LargestInt32 == 2147483647

TotalWeight == WeightOf(fg_alpha, n_fg, bg_alpha, n_bg)
TotalSum == ChannelSum(fg, fg_alpha, n_fg, bg, bg_alpha, n_bg)

\* The counters and the sums of mix are what the code's types hold, at every
\* count of samples: no product wraps around in 32 bits.
SumsFit ==
  /\ n_fg \in Nat /\ n_bg \in Nat /\ left \in Nat
  /\ n_fg + n_bg + left <= 16
  /\ TotalWeight \in Nat /\ TotalWeight <= 16 * 65025
  /\ TotalSum \in Nat /\ TotalSum + TotalWeight \div 2 <= LargestInt32

\* A colour that shows lies between the two it is mixed from, whatever their
\* alphas: neither conversion to eight bits cuts anything off, no edge is
\* darker or lighter than both sides of it, and a background that does not
\* show does not tint the figure (raster.cpp:159-172).
ColourBetween ==
  written /\ pixel.alpha # 0 =>
    /\ fg <= bg => pixel.channel \in fg..bg
    /\ bg <= fg => pixel.channel \in bg..fg
    /\ bg_alpha = 0 => pixel.channel = fg
    /\ n_fg = 0 => pixel.channel = bg

\* With an opaque background and figure the formulas are the ones SPEC.md:316
\* gives, and without a background the ones of SPEC.md:317, sample by sample.
ReducesAsSpecified ==
  written /\ n_fg + n_bg = 16 =>
    /\ fg_alpha = 255 /\ bg_alpha = 255 =>
         pixel = [channel |-> (n_fg * fg + n_bg * bg + 8) \div 16, alpha |-> 255]
    /\ fg_alpha = 255 /\ bg_alpha = 0 /\ n_fg > 0 =>
         pixel = [channel |-> fg, alpha |-> (n_fg * 255 + 8) \div 16]
=============================================================================
