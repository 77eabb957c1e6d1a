------------------------------ MODULE Rfc8018 ------------------------------
(***************************************************************************)
(* PBKDF2 of RFC 8018 section 5.2 as a promise: the derived key is written *)
(* block by block, block i being the exclusive or T_i of the first c terms *)
(* U_j, each the HMAC of the one before, and the last block is cut to the  *)
(* size that was asked for.  A count of zero counts as one.                *)
(***************************************************************************)
EXTENDS Hmac

CONSTANT MaxCount   \* the largest iteration count

VARIABLES input,    \* [password, salt, iterations, size]: the arguments
          out       \* the bytes of the derived key written so far

vars == <<input, out>>

\* INT(i): four bytes, most significant first.
Int4(i) ==
  [k \in 1..4 |-> Octet((i \div (256 ^ (4 - k))) % 256)]

XorBytes(a, b) == [k \in 1..D |-> Xor(a[k], b[k])]

U(password, salt, i) ==
  LET term[j \in 1..MaxCount] ==
        IF j = 1 THEN HmacOf(password, salt \o Int4(i))
        ELSE HmacOf(password, term[j - 1])
  IN  term

\* T_i after c terms.
T(password, salt, i, c) ==
  LET term == U(password, salt, i)
      sum[j \in 1..MaxCount] ==
        IF j = 1 THEN term[1] ELSE XorBytes(sum[j - 1], term[j])
  IN  sum[c]

Count(iterations) == IF iterations = 0 THEN 1 ELSE iterations

WriteBlock ==
  LET i    == (Len(out) \div D) + 1
      left == input.size - Len(out)
      t    == T(input.password, input.salt, i, Count(input.iterations))
  IN  /\ left > 0
      /\ out' = out \o (IF left < D THEN SubSeq(t, 1, left) ELSE t)
      /\ UNCHANGED input

Init == out = <<>>

Spec == Init /\ [][WriteBlock]_vars
=============================================================================
