--------------------------- MODULE MerklePadding ---------------------------
(***************************************************************************)
(* The padding of FIPS 180-4 section 5.1.1, as the reference that          *)
(* src/sha256.cpp is held against: a message of n bytes is followed by the *)
(* byte 0x80, the fewest zero bytes that make the total a multiple of the  *)
(* block size, and the message length in bits as a big-endian integer of L *)
(* bytes.                                                                  *)
(*                                                                         *)
(* The block size B is 64 and the length field L is 8 in the program; both *)
(* are parameters here.  A byte is a member of Byte, and Octet(n) is the   *)
(* byte whose value is n: a composing module may have other bytes beside   *)
(* the octets, such as the k-th byte of a digest that is left symbolic.    *)
(***************************************************************************)
EXTENDS Integers, Sequences

CONSTANTS B,        \* bytes in a block
          L,        \* bytes in the length field
          Byte,     \* the bytes a message is made of
          Octet(_)  \* the byte of each value in 0..255

ASSUME BlockAssumption == B \in Nat /\ L \in 1..B
ASSUME OctetAssumption == \A n \in 0..255 : Octet(n) \in Byte

\* A fact of arithmetic, stated here because it takes induction to prove.
ASSUME PowerAssumption == \A i \in 0..(L - 1) : 256 ^ i \in Nat \ {0}

Zero == Octet(0)
Terminator == Octet(128)

\* The bit length of n bytes, big-endian.  Only L bytes are kept, as the
\* 64-bit bit_length keeps the value modulo 2^64.
LengthField(n) ==
  [i \in 1..L |-> Octet(((8 * n) \div (256 ^ (L - i))) % 256)]

ZeroCount(n) == CHOOSE z \in 0..(B - 1) : (n + 1 + z + L) % B = 0

Padding(n) ==
  <<Terminator>> \o [i \in 1..ZeroCount(n) |-> Zero] \o LengthField(n)

Padded(message) == message \o Padding(Len(message))
=============================================================================
