----------------------------- MODULE HexDigest -----------------------------
(***************************************************************************)
(* make_base_digest_from_hex of src/derive.cpp up to d0: the text is       *)
(* checked, and then decoded in chunks straight into a hasher, through one *)
(* small array that is never cleared.  M1 and D0 are what make_base_digest *)
(* computes of the same bytes in one piece (m1_header, derive_d0).         *)
(*                                                                         *)
(* A character of the text is one of Digits, "x", "X" or something else.   *)
(***************************************************************************)
EXTENDS Sha256

CONSTANTS Texts,         \* the texts tried
          Digits,        \* the hexadecimal digits among their characters
          DigitValue(_), \* their values
          ChunkSize,     \* chunk.size(), 256 in the program
          Dst,           \* the bytes of "HumanizedHash"
          MaxInputSize   \* max_input_size

ASSUME SizeAssumption == ChunkSize \in Nat \ {0} /\ MaxInputSize \in Nat \ {0}
ASSUME DigitsAssumption ==
  /\ \A c \in Digits : DigitValue(c) \in 0..15
  /\ {"x", "X"} \cap Digits = {}
ASSUME TextsAssumption == \A t \in Texts : t \in Seq(STRING)
\* The powers are a fact of arithmetic that takes induction to prove.
ASSUME HeaderAssumption ==
  Dst \in Seq(Byte) /\ \A i \in 1..4 : 256 ^ (4 - i) \in Nat \ {0}

VARIABLES hex_pc,  \* "check", "decode", "done"
          text,    \* the argument
          hex,     \* what is left of it once the prefix is removed
          code,    \* the code returned
          hasher,  \* the hasher
          chunk,   \* the array, with the bytes of earlier chunks
          pos,     \* the bytes decoded
          d0       \* the digest, or <<>>

hex_vars == <<hex_pc, text, hex, code, hasher, chunk, pos, d0>>

\* put_prefix and m1_header; a length has four bytes.
M1Header(kind, length) ==
  Dst \o <<Octet(0), Octet(1), Octet(kind)>>
      \o [i \in 1..4 |-> Octet((length \div (256 ^ (4 - i))) % 256)]

Binary == 0
\* derive_d0: the header and the data in two pieces.
D0(kind, data) ==
  Finish(Update(Update(Fresh, M1Header(kind, Len(data))), data)).state

CheckLength(size) ==
  IF size = 0 THEN "empty_input"
  ELSE IF size > MaxInputSize THEN "input_too_large" ELSE "ok"

HasPrefix(t) == Len(t) >= 2 /\ t[1] = "0" /\ t[2] \in {"x", "X"}

WithoutPrefix(t) == IF HasPrefix(t) THEN SubSeq(t, 3, Len(t)) ELSE t

\* A text without prefix that is accepted: an even, non-zero number of digits.
IsHex(t) ==
  t # <<>> /\ Len(t) % 2 = 0 /\ \A i \in DOMAIN t : t[i] \in Digits

HexInit ==
  /\ hex_pc = "check"
  /\ text \in Texts
  /\ hex = text
  /\ code = "ok"
  /\ hasher = Fresh
  /\ chunk = [i \in 1..ChunkSize |-> Zero]
  /\ pos = 0
  /\ d0 = <<>>

\* The prefix, the digits, the length, and then the header.
Check ==
  LET t    == WithoutPrefix(text)
      size == Len(t) \div 2
      c    == IF ~IsHex(t) THEN "invalid_hex" ELSE CheckLength(size)
  IN  /\ hex_pc = "check"
      /\ hex' = t
      /\ code' = c
      /\ hex_pc' = IF c = "ok" THEN "decode" ELSE "done"
      /\ hasher' = IF c = "ok" THEN Update(hasher, M1Header(Binary, size)) ELSE hasher
      /\ UNCHANGED <<text, chunk, pos, d0>>

\* Mutant: the whole array is hashed, whatever the last chunk fills.
DecodeChunkWhole ==
  LET size  == Len(hex) \div 2
      n     == IF size - pos < ChunkSize THEN size - pos ELSE ChunkSize
      bytes == [i \in 1..ChunkSize |->
                  IF i > n THEN chunk[i]
                  ELSE Octet(DigitValue(hex[2 * (pos + i) - 1]) * 16
                             + DigitValue(hex[2 * (pos + i)]))]
  IN  /\ hex_pc = "decode" /\ pos < size
      /\ chunk' = bytes
      /\ hasher' = Update(hasher, bytes)
      /\ pos' = pos + n
      /\ UNCHANGED <<hex_pc, text, hex, code, d0>>

\* One pass of the loop: the first n bytes of the array are replaced and
\* hashed.
DecodeChunk ==
  LET size  == Len(hex) \div 2
      n     == IF size - pos < ChunkSize THEN size - pos ELSE ChunkSize
      bytes == [i \in 1..ChunkSize |->
                  IF i > n THEN chunk[i]
                  ELSE Octet(DigitValue(hex[2 * (pos + i) - 1]) * 16
                             + DigitValue(hex[2 * (pos + i)]))]
  IN  /\ hex_pc = "decode" /\ pos < size
      /\ chunk' = bytes
      /\ hasher' = Update(hasher, SubSeq(bytes, 1, n))
      /\ pos' = pos + n
      /\ UNCHANGED <<hex_pc, text, hex, code, d0>>

CompleteHex ==
  /\ hex_pc = "decode" /\ pos >= Len(hex) \div 2
  /\ hasher' = Finish(hasher)
  /\ d0' = Finish(hasher).state
  /\ hex_pc' = "done"
  /\ UNCHANGED <<text, hex, code, chunk, pos>>

HexNext == Check \/ DecodeChunk \/ CompleteHex

HexSpec == HexInit /\ [][HexNext]_hex_vars

-----------------------------------------------------------------------------
(* Properties *)

\* The bytes a text of digits stands for.
Decoded(t) ==
  [i \in 1..(Len(t) \div 2) |->
     Octet(DigitValue(t[2 * i - 1]) * 16 + DigitValue(t[2 * i]))]

\* How many characters at the end of a text are its digits, if it is a text of
\* digits behind at most one prefix (docs/SPEC.md:54-59).
DigitCounts(t) ==
  {k \in 2..Len(t) :
     LET digits == SubSeq(t, Len(t) - k + 1, Len(t))
     IN  /\ k % 2 = 0 /\ \A i \in 1..k : digits[i] \in Digits
         /\ t \in {digits, <<"0", "x">> \o digits, <<"0", "X">> \o digits}}

\* A text and the bytes it spells have the same base digest: decoding in chunks
\* gives the d0 that make_base_digest computes in one piece, and never hashes a
\* byte an earlier chunk left in the array; a text that spells nothing is
\* invalid_hex, whatever its length, and only one that does can be too large
\* (derive.cpp:83-89, 169-203).
SameAsBinary ==
  hex_pc = "done" =>
    \/ /\ DigitCounts(text) = {} /\ code = "invalid_hex" /\ d0 = <<>>
    \/ \E k \in DigitCounts(text) :
         IF k \div 2 > MaxInputSize THEN code = "input_too_large" /\ d0 = <<>>
         ELSE /\ code = "ok"
              /\ d0 = D0(Binary, Decoded(SubSeq(text, Len(text) - k + 1, Len(text))))
=============================================================================
