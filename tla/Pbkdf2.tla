------------------------------- MODULE Pbkdf2 -------------------------------
(***************************************************************************)
(* pbkdf2_hmac_sha256 of src/pbkdf2.cpp, one step per pass of its loops.   *)
(*                                                                         *)
(* The code computes U_2, U_3, ... without the HMAC object: it keeps one   *)
(* 64-byte buffer whose last 32 bytes are the padding of a 96-byte message *)
(* and runs the compression function on it from the two mid-states.  That  *)
(* is HMAC only as long as nothing overwrites the padding and the buffer's *)
(* head is the previous term, also from one output block to the next.      *)
(***************************************************************************)
EXTENDS Hmac

CONSTANTS Passwords, Salts,  \* the arguments tried
          MaxCount,          \* bound on the iteration count
          MaxSize            \* bound on the size asked for

\* The code writes the bit length into the last two bytes.
ASSUME LengthAssumption == L >= 2 /\ (B + D) * 8 < 65536

ASSUME ArgumentsAssumption ==
  /\ \A data \in Passwords \cup Salts : data \in Seq(Byte)
  /\ MaxCount \in Nat \ {0} /\ MaxSize \in Nat

\* Facts of arithmetic, stated here because powers take induction.
ASSUME PowersAssumption ==
  /\ 256 ^ 0 = 1 /\ 256 ^ 1 = 256 /\ 256 ^ 2 = 65536 /\ 256 ^ 3 = 16777216
  /\ \A i \in 2..(L - 1) : 256 ^ i >= 65536

VARIABLES pc,            \* "outer", "inner" or "done"
          input,         \* [password, salt, iterations, size]
          prf,           \* the HMAC object of the password
          block,         \* the buffer that is compressed
          t,             \* the sum of the terms
          state,         \* the working state
          block_index, offset, j,
          out            \* the bytes written

vars == <<pc, input, prf, block, t, state, block_index, offset, j, out>>

Input == [password : Passwords, salt : Salts, iterations : 0..MaxCount,
          size : 0..MaxSize]

\* The buffer before the first block: the terminator behind a digest, and the
\* bit length of a block and a digest in the last two bytes.
PaddedTail ==
  LET bit_length == (B + D) * 8
  IN  [i \in 1..B |-> IF i = D + 1 THEN Terminator
                      ELSE IF i = B - 1 THEN Octet(bit_length \div 256)
                      ELSE IF i = B THEN Octet(bit_length % 256)
                      ELSE Zero]

Init ==
  /\ pc = "outer"
  /\ input \in Input
  /\ prf = NewMac(input.password)
  /\ block = PaddedTail
  /\ t = [k \in 1..D |-> Zero]
  /\ state = <<>>
  /\ block_index = 1
  /\ offset = 0
  /\ j = 1
  /\ out = <<>>

IndexBytes(i) == [k \in 1..4 |-> Octet((i \div (256 ^ (4 - k))) % 256)]

\* Mutant: the object itself is used instead of a copy.
FirstTermInPlace ==
  /\ pc = "outer" /\ offset < input.size
  /\ LET first == MacUpdate(MacUpdate(prf, input.salt), IndexBytes(block_index))
     IN  /\ block' = CopyInto(block, 0, MacTag(first))
         /\ t' = MacTag(first)
         /\ prf' = MacFinish(first)
  /\ j' = 1
  /\ pc' = "inner"
  /\ UNCHANGED <<input, state, block_index, offset, out>>

\* U_1 = PRF(P, S || INT(i)), from a copy of the object.
FirstTerm ==
  /\ pc = "outer" /\ offset < input.size
  /\ LET first == MacUpdate(MacUpdate(prf, input.salt), IndexBytes(block_index))
     IN  /\ block' = CopyInto(block, 0, MacTag(first))
         /\ t' = MacTag(first)
  /\ j' = 1
  /\ pc' = "inner"
  /\ UNCHANGED <<input, prf, state, block_index, offset, out>>

\* Mutant: the outer pass compresses the inner digest without its padding.
NextTermBare ==
  /\ pc = "inner" /\ j < input.iterations
  /\ LET inner == Compress(prf.inner_state, block)
         bare  == CopyInto(ZeroBlock, 0, Store(inner))
     IN  /\ state' = Compress(prf.outer_state, bare)
         /\ block' = CopyInto(bare, 0, Store(state'))
         /\ t' = [k \in 1..D |-> Xor(t[k], block'[k])]
  /\ j' = j + 1
  /\ UNCHANGED <<pc, input, prf, block_index, offset, out>>

\* U_j = PRF(P, U_{j-1}), by two compressions of the buffer, and the sum.
NextTerm ==
  /\ pc = "inner" /\ j < input.iterations
  /\ LET inner   == Compress(prf.inner_state, block)
         between == CopyInto(block, 0, Store(inner))
     IN  /\ state' = Compress(prf.outer_state, between)
         /\ block' = CopyInto(between, 0, Store(state'))
         /\ t' = [k \in 1..D |-> Xor(t[k], block'[k])]
  /\ j' = j + 1
  /\ UNCHANGED <<pc, input, prf, block_index, offset, out>>

\* The block of output, cut to what is left of the caller's array.
WriteOut ==
  /\ pc = "inner" /\ j >= input.iterations
  /\ LET left == input.size - offset
     IN  out' = out \o SubSeq(t, 1, IF left < D THEN left ELSE D)
  /\ offset' = offset + D
  /\ block_index' = block_index + 1
  /\ pc' = "outer"
  /\ UNCHANGED <<input, prf, block, t, state, j>>

\* The working memory is wiped on return.
Return ==
  /\ pc = "outer" /\ offset >= input.size
  /\ pc' = "done"
  /\ state' = <<>>
  /\ block' = ZeroBlock
  /\ t' = [k \in 1..D |-> Zero]
  /\ UNCHANGED <<input, prf, block_index, offset, j, out>>

Next == FirstTerm \/ NextTerm \/ WriteOut \/ Return

Spec == Init /\ [][Next]_vars

-----------------------------------------------------------------------------
(* Properties *)

Rfc == INSTANCE Rfc8018

\* In the inner loop the buffer is the term U_j of RFC 8018 and behind it the
\* padding that HMAC appends to a digest behind the padded key, which finish() and
\* sha256_store must not overwrite in any pass of any output block; t is the sum of
\* the first j terms of this output block, none from the block before
\* (pbkdf2.cpp:41-56).
BufferIsTerm ==
  pc = "inner" =>
    /\ SubSeq(block, D + 1, B) = Padding(B + D)
    /\ SubSeq(block, 1, D)
         = Rfc!U(input.password, input.salt, block_index)[j]
    /\ t = Rfc!T(input.password, input.salt, block_index, j)

\* The bytes written are those of RFC 8018, for keys on both sides of a block,
\* any salt, a count of zero and a size that is no multiple of a digest.
KeepsRfc8018 == Rfc!Spec
=============================================================================
