------------------------------- MODULE MCHost -------------------------------
(***************************************************************************)
(* What a host sees of a library of functions, in three parts, one of      *)
(* which is chosen at the start.                                           *)
(*                                                                         *)
(* Images of the C++ interface: for the refusals every reason of one,      *)
(* alone and with those checked before and after it, at the two ends of    *)
(* the range of sizes and around 18; for what becomes of the pixels and    *)
(* the bytes one set of options per outcome.                               *)
(*                                                                         *)
(* Buffers of the C interface: pictures of 16, 17 and 18 pixels for a      *)
(* buffer that holds 17, one that is drawn, one that is refused and one    *)
(* that is too large.  The sizes of encodings are small and differ in all  *)
(* that a request is made of.                                              *)
(*                                                                         *)
(* Overlapping arguments: six cells for values of three, so that two of    *)
(* them may lie apart, touch, overlap by one or two cells or be the same.  *)
(***************************************************************************)
EXTENDS Picture, CImages, CIdentity, TLC

Opt(shape, frame, opaque, distinct) ==
  [shape |-> shape, frame |-> frame, opaque |-> opaque, distinct |-> distinct]

EncodedOptions ==
  {Opt("square", "automatic", TRUE, TRUE), Opt("round", "thick", FALSE, FALSE),
   Opt("square", "ticks", TRUE, TRUE), Opt("square", "plain", TRUE, FALSE),
   Opt("bad", "none", TRUE, TRUE)}

MCEncoded == [size : {15, 16, 18}, options : EncodedOptions]

MCOptions ==
  EncodedOptions
    \cup {Opt(shape, frame, TRUE, distinct) :
            shape \in Shape, distinct \in BOOLEAN,
            frame \in {"automatic", "none", "double_line", "thick", "ticks"}}
    \cup {Opt("bad", "ticks", TRUE, FALSE), Opt("square", "bad", TRUE, FALSE)}

Plain == Opt("square", "plain", TRUE, TRUE)

MCPictures ==
  {[fp |-> "keyed", size |-> 16, options |-> Plain],
   [fp |-> "universal", size |-> 17, options |-> Plain],
   [fp |-> "universal", size |-> 18, options |-> Plain],
   [fp |-> "universal", size |-> 16, options |-> [Plain EXCEPT !.distinct = FALSE]],
   [fp |-> "empty", size |-> 16, options |-> Plain]}

MCFormats == {"png", "jpeg 92", "jpeg 49"}
MCEncoderCode(f) == IF f = "jpeg 49" THEN "invalid_quality" ELSE "ok"
MCEncodedSize(r) ==
  1 + (IF r.format = "png" THEN 1 ELSE 0) + (IF r.pixels = Nothing THEN 1 ELSE 0)
MCRenderSize(w, h) == 4 * (w * h)

MCResultWidth ==
  [f \in Forms \cup {"hh_universal_fingerprint", "hh_keyed_fingerprint"} |-> 3]
    @@ [f \in {"hh_key_check_value", "hh_tag"} |-> 2]
    @@ [f \in {"hh_layout_of"} |-> 4]

\* A bit of every cell goes into every bit of a result.
Parity(cells) == Len(SelectSeq(cells, LAMBDA v : v = 1)) % 2

MCHashed(form, cells) ==
  <<Len(cells) % 2, Parity(cells), IF form = "hh_base_digest" THEN 0 ELSE 1>>
MCHashCode(form, cells) ==
  IF cells = <<>> THEN "empty_input"
  ELSE IF form = "hh_base_digest_from_hex" /\ cells[1] = 1 THEN "invalid_hex"
  ELSE "ok"

MCResultOf(function, copies, m) ==
  CASE function = "hh_keyed_fingerprint" ->
         [i \in 1..3 |-> (copies[1][i] + copies[2][4 - i] + i) % 2]
    [] function = "hh_layout_of" ->
         [i \in 1..3 |-> 1 - copies[1][4 - i]] \o <<IF m = "keyed" THEN 1 ELSE 0>>
    [] OTHER -> <<1 - copies[1][3], Parity(copies[1])>>

VARIABLE uses \* the part of the library the host uses

Init ==
  /\ PictureInit /\ CInit
  /\ \/ uses = "images" /\ IdentityInit /\ memory = [a \in 1..Cells |-> 0]
     \/ uses = "C images" /\ IdentityInit /\ memory = [a \in 1..Cells |-> 0]
     \/ uses = "C identity" /\ IdentityInit

Next ==
  /\ UNCHANGED uses
  /\ \/ uses = "images" /\ PictureNext /\ UNCHANGED <<c_vars, identity_vars>>
     \/ uses = "C images" /\ CNext /\ UNCHANGED <<picture_vars, identity_vars>>
     \/ uses = "C identity" /\ IdentityNext
          /\ UNCHANGED <<picture_vars, c_vars>>

Spec == Init /\ [][Next]_<<uses, picture_vars, c_vars, identity_vars>>
=============================================================================
