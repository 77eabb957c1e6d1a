------------------------------ MODULE Adler32 ------------------------------
(***************************************************************************)
(* adler32 of src/checksum.cpp, which takes the two sums modulo 65521 once *)
(* per block of 5552 bytes instead of once per byte.  The numbers are      *)
(* parameters: what matters is that a block is small enough for the sums   *)
(* to stay below 2^32.                                                     *)
(***************************************************************************)
EXTENDS Integers

CONSTANTS MaxByte,  \* 255
          Modulus,  \* 65521
          Block,    \* 5552
          Word,     \* 2^32
          Bytes,    \* the bytes tried
          MaxSize   \* bound: the longest input

\* What the sums can be at the end of a block that begins with the largest
\* remainders, doubled to stay clear of fractions.
LargestSum(n) == MaxByte * (n * (n + 1)) + 2 * ((n + 1) * (Modulus - 1))

ASSUME NumbersAssumption ==
  /\ MaxByte \in Nat \ {0} /\ Modulus \in Nat \ {0}
  /\ Block \in Nat \ {0} /\ Word \in Nat \ {0}
  /\ Bytes \subseteq 0..MaxByte /\ MaxSize \in Nat
ASSUME BlockFits == LargestSum(Block) < 2 * Word

VARIABLES size,  \* the bytes after the block
          n,     \* the bytes of the block still to come
          a, b,  \* the sums, in words
          sums   \* the sums as RFC 1950 defines them

adler_vars == <<size, n, a, b, sums>>

Least(x, y) == IF x < y THEN x ELSE y

\* A new checksum, or one that goes on from another.
AdlerInit ==
  /\ size \in 0..MaxSize
  /\ n = 0
  /\ a \in 0..(Modulus - 1) /\ b \in 0..(Modulus - 1)
  /\ sums = <<a, b>>

\* Mutant: a block is a byte too long.
StartLongBlock ==
  /\ n = 0 /\ size # 0
  /\ n' = Least(size, Block + 1)
  /\ size' = size - n'
  /\ UNCHANGED <<a, b, sums>>

StartBlock ==
  /\ n = 0 /\ size # 0
  /\ n' = Least(size, Block)
  /\ size' = size - n'
  /\ UNCHANGED <<a, b, sums>>

\* The sums are reduced when the block ends.
Reduced(end, sum) == IF end THEN sum % Modulus ELSE sum

\* A byte of the block; the last one ends it.
AddByte ==
  \E x \in Bytes :
    /\ n # 0
    /\ n' = n - 1
    /\ a' = Reduced(n = 1, (a + x) % Word)
    /\ b' = Reduced(n = 1, (b + ((a + x) % Word)) % Word)
    /\ sums' = <<(sums[1] + x) % Modulus, (sums[2] + sums[1] + x) % Modulus>>
    /\ UNCHANGED size

AdlerNext == StartBlock \/ AddByte

AdlerSpec == AdlerInit /\ [][AdlerNext]_adler_vars

-----------------------------------------------------------------------------
(* Properties *)

\* The sums are words, and remainders between two blocks.
AdlerTypeOK ==
  /\ size \in 0..MaxSize /\ n \in 0..Block
  /\ a \in Nat /\ b \in Nat
  /\ n = 0 => a < Modulus /\ b < Modulus

\* No addition of the inner loop can exceed a word, whatever the bytes are
\* (checksum.cpp:38 "the sums cannot overflow 32 bits").
NoOverflow ==
  n # 0 => a + MaxByte < Word /\ b + a + MaxByte < Word

\* When a block ends, and so when the function returns, the sums are the ones
\* of RFC 1950, which reduces them at every byte.
SumsAreReduced ==
  n = 0 => <<a, b>> = sums
=============================================================================
