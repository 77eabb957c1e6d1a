----------------------------- MODULE MCIdentity -----------------------------
(***************************************************************************)
(* Three values of 32 bytes, the one of zeros among them, and functions on  *)
(* them that do not ignore an argument.  The caller's views have each kind *)
(* of size, and one is null with a size.  None shows 32 zeros, so that     *)
(* reading zeros out of an object that was cleared too early is noticed:   *)
(* zeros are offered by the bytes of objects that are unset.               *)
(***************************************************************************)
EXTENDS Identity, TLC

MCBytes32 == 0..2
MCData == 0..4
MCMakeDigest(kind, data) == (2 * data + (IF kind = "text" THEN 2 ELSE 1)) % 3
MCKeyedBytes(k, s) == (k + 2 * s + 1) % 3

V(null, size, data) == [null |-> null, size |-> size, data |-> data]

MCViews == {V(FALSE, 32, 1), V(FALSE, 32, 2),
            V(FALSE, 20, 4), V(FALSE, 0, 4), V(FALSE, 99, 4),
            V(TRUE, 0, 4), V(TRUE, 32, 2)}

MCHexTexts == {[valid |-> TRUE, size |-> 20, data |-> 4],
               [valid |-> TRUE, size |-> 99, data |-> 4],
               [valid |-> FALSE, size |-> 99, data |-> 4]}

\* The objects of a kind are interchangeable: no action names one of them.
MCSymmetry == Permutations(DigestObjects) \cup Permutations(KeyObjects)
              \cup Permutations(PrintObjects)
=============================================================================
