------------------------------ MODULE MCPbkdf2 ------------------------------
(***************************************************************************)
(* Bytes as formal sums modulo two: a byte is the set of its summands, the *)
(* exclusive or is the symmetric difference, the zero byte is the empty    *)
(* sum.  Two bytes are then equal only if they are equal for every hash    *)
(* function.  Blocks of seven bytes hold a digest of two, the terminator,  *)
(* two zeros and a length field of two.                                    *)
(***************************************************************************)
EXTENDS Pbkdf2

MCOctet(n) == IF n = 0 THEN {} ELSE {<<"octet", n>>}
MCByte == {MCOctet(n) : n \in 0..255}
MCXor(a, b) == (a \ b) \cup (b \ a)
MCDigestByte(s, k) == {<<"digest", s, k>>}

Bytes(n) == [i \in 1..n |-> {<<"octet", i>>}]

\* No key, a short one, a block, and one that has to be hashed.
MCPasswords == {Bytes(0), Bytes(2), Bytes(7), Bytes(8)}
\* With the four bytes of the index: inside a block, and spilling over.
MCSalts == {Bytes(0), Bytes(1), Bytes(3)}
=============================================================================
