----------------------------- MODULE MCHashing -----------------------------
(***************************************************************************)
(* The hasher and what is fed to it, and the checksum, each with inputs of *)
(* its own, chosen at the start.                                           *)
(*                                                                         *)
(* Blocks have four bytes with a one-byte length field.  The message bytes *)
(* are the two values the padding is made of, so that a message byte can   *)
(* be mistaken for padding.  Eight bytes give messages of two full blocks, *)
(* and every piece of up to six bytes may complete a block, fill one and   *)
(* begin another.                                                          *)
(*                                                                         *)
(* Texts are decoded in chunks of two bytes, and may have three, so that   *)
(* one may take two chunks, the second half filled.  Every text of up to   *)
(* five characters is tried, with a prefix, half a prefix, two prefixes    *)
(* and foreign characters; longer ones with fewer kinds of characters      *)
(* reach four bytes, one too many, behind a prefix.                        *)
(*                                                                         *)
(* The checksum has bytes up to 3 and a block of 4, the longest that fits. *)
(***************************************************************************)
EXTENDS Sha256Stream, HexDigest, Adler32, SequencesExt

MCByte == 0..255
MCOctet(x) == x
MCChunks == BoundedSeq({0, 128}, 6)
MCMidStates == {<<0, 128, 0, 0>>, <<128, 0, 0, 128, 0, 0, 128, 128>>}

MCDst == <<72>>
MCDigits == {"0", "9", "a", "F"}
MCDigitValue(c) ==
  CASE c = "0" -> 0 [] c = "9" -> 9 [] c = "a" -> 10 [] c = "F" -> 15
MCTexts == BoundedSeq({"0", "9", "a", "F", "x", "X", "g"}, 5)
           \cup BoundedSeq({"0", "F", "x"}, 9)
           \cup {<<"0", "x">> \o t : t \in [1..8 -> {"0", "F", "g"}]}

StreamIdle == StreamInit
HexIdle ==
  /\ hex_pc = "idle" /\ text = <<>> /\ hex = <<>> /\ code = "ok" /\ hasher = Fresh
  /\ chunk = <<>> /\ pos = 0 /\ d0 = <<>>
AdlerIdle == size = 0 /\ n = 0 /\ a = 0 /\ b = 0 /\ sums = <<0, 0>>

Init ==
  \/ StreamInit /\ HexIdle /\ AdlerIdle
  \/ StreamIdle /\ HexInit /\ AdlerIdle
  \/ StreamIdle /\ HexIdle /\ AdlerInit

\* The hasher of a caller has work as long as the others have none.
Next ==
  \/ hex_pc = "idle" /\ AdlerIdle /\ StreamNext /\ UNCHANGED <<hex_vars, adler_vars>>
  \/ HexNext /\ UNCHANGED <<stream_vars, adler_vars>>
  \/ AdlerNext /\ UNCHANGED <<stream_vars, hex_vars>>

Spec == Init /\ [][Next]_<<stream_vars, hex_vars, adler_vars>>
=============================================================================
