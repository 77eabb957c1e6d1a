------------------------------ MODULE Features ------------------------------
(***************************************************************************)
(* src/features.cpp: the first sixteen bytes of a fingerprint are its      *)
(* cells, the next four its tag of six characters.                         *)
(***************************************************************************)
EXTENDS Integers, Sequences

CONSTANTS CellBytes, TagBytes   \* the bytes tried: sixteen, and four

ASSUME BytesAssumption ==
  /\ \A c \in CellBytes : c \in Seq(0..255) /\ Len(c) = 16
  /\ \A t \in TagBytes : t \in Seq(0..255) /\ Len(t) = 4
\* Facts of arithmetic that take induction to prove: the shifts of a tag.
ASSUME ShiftsAssumption ==
  /\ 2 ^ 0 = 1 /\ 2 ^ 5 = 32 /\ 2 ^ 6 = 64 /\ 2 ^ 10 = 1024 /\ 2 ^ 14 = 16384
  /\ 2 ^ 15 = 32768 /\ 2 ^ 20 = 1048576 /\ 2 ^ 22 = 4194304 /\ 2 ^ 25 = 33554432

VARIABLES fp,      \* a fingerprint: twenty bytes, all zero if it is empty
          layout,  \* the cells describe returns
          tag      \* the characters so far

feature_vars == <<fp, layout, tag>>

figure_table ==
  <<"none", "none", "square", "circle", "triangle_up", "triangle_right", "triangle_down",
    "triangle_left">>

crockford ==
  <<"0", "1", "2", "3", "4", "5", "6", "7", "8", "9", "A", "B", "C", "D", "E", "F", "G",
    "H", "J", "K", "M", "N", "P", "Q", "R", "S", "T", "V", "W", "X", "Y", "Z">>

Empty == \A i \in DOMAIN fp : fp[i] = 0

\* The three upper bits are the figure, the next two its colour.
CellOf(byte) ==
  LET figure == figure_table[(byte \div 32) + 1]
  IN  [figure |-> figure, colour |-> IF figure = "none" THEN 0 ELSE (byte \div 8) % 4]

FeaturesInit ==
  /\ \/ \E c \in CellBytes, t \in TagBytes : fp = c \o t
     \/ fp = [i \in 1..20 |-> 0]
  /\ layout = <<>> /\ tag = <<>>

\* describe, with cells_of; an empty fingerprint has cells of the first enumerators.
Describe ==
  /\ layout = <<>>
  /\ layout' = [i \in 1..16 |-> IF Empty THEN [figure |-> "none", colour |-> 0]
                                ELSE CellOf(fp[i])]
  /\ UNCHANGED <<fp, tag>>

\* The upper thirty bits of four bytes.
TagBits == fp[17] * 2 ^ 22 + fp[18] * 2 ^ 14 + fp[19] * 2 ^ 6 + fp[20] \div 4

\* Mutant: the shift is by all thirty bits at first.
TagDigitShifted(n) == (TagBits \div 2 ^ (30 - 5 * n)) % 32

TagDigit(n) == (TagBits \div 2 ^ (25 - 5 * n)) % 32

\* tag_of, a character at a time.
PutTagCharacter ==
  /\ Len(tag) < 6
  /\ tag' = Append(tag, crockford[TagDigit(Len(tag)) + 1])
  /\ UNCHANGED <<fp, layout>>

FeaturesNext == Describe \/ PutTagCharacter

FeaturesSpec == FeaturesInit /\ [][FeaturesNext]_feature_vars

-----------------------------------------------------------------------------
(* Properties *)

IndexIn(table, x) == CHOOSE i \in DOMAIN table : table[i] = x

\* The layout and the tag are all there is to the bits they are made of: from the
\* characters, none of which is one of I, L, O and U, come back the thirty bits, from
\* a figure the three bits of its byte and from its colour two, but for a cell without
\* a figure, which is one of the lower quarter of the bytes (features.cpp:23-45).
FeaturesReadBack ==
  /\ \A i \in DOMAIN layout :
       LET c == layout[i]
       IN  IF c.figure = "none" THEN fp[i] < 64 /\ c.colour = 0
           ELSE fp[i] \div 8 = 4 * (IndexIn(figure_table, c.figure) - 1) + c.colour
  /\ Len(tag) = 6 =>
       LET digit(n) == IndexIn(crockford, tag[n]) - 1
           bits[n \in 0..6] == IF n = 0 THEN 0 ELSE 32 * bits[n - 1] + digit(n)
       IN  /\ bits[6] \div 2 ^ 22 = fp[17]
           /\ (bits[6] \div 2 ^ 14) % 256 = fp[18]
           /\ (bits[6] \div 2 ^ 6) % 256 = fp[19]
           /\ bits[6] % 64 = fp[20] \div 4
           /\ \A n \in 1..6 : tag[n] \notin {"I", "L", "O", "U"}
=============================================================================
