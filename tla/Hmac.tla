-------------------------------- MODULE Hmac --------------------------------
(***************************************************************************)
(* The HMAC object of src/hmac.cpp as operators on a record [inner_state,  *)
(* outer_state, inner]: the two mid-states of the padded key and a hasher  *)
(* resumed from the first.  HmacOf is the definition of RFC 2104 the       *)
(* program's doc names, over whole messages.                               *)
(***************************************************************************)
EXTENDS Sha256

CONSTANTS D,               \* bytes in a digest
          Xor(_, _),       \* exclusive or of two bytes
          DigestByte(_, _) \* byte k of the digest of the absorbed blocks

ASSUME DigestAssumption == D \in Nat \ {0} /\ D + 1 + L <= B

\* sha256_store of a state.
Store(state) == [k \in 1..D |-> DigestByte(state, k)]

Ipad == Octet(54)    \* 0x36
Opad == Octet(92)    \* 0x5C

ZeroBlock == [i \in 1..B |-> Zero]

\* A key longer than a block is hashed first; every key is filled up with
\* zeros.
KeyBlock(key) ==
  IF Len(key) > B THEN CopyInto(ZeroBlock, 0, Store(Hash(key)))
  ELSE CopyInto(ZeroBlock, 0, key)

AbsorbPaddedKey(key_block, pad) ==
  Compress(<<>>, [i \in 1..B |-> Xor(key_block[i], pad)])

NewMac(key) ==
  LET inner_state == AbsorbPaddedKey(KeyBlock(key), Ipad)
  IN  [inner_state |-> inner_state,
       outer_state |-> AbsorbPaddedKey(KeyBlock(key), Opad),
       inner       |-> Resume(inner_state, B)]

MacUpdate(mac, data) == [mac EXCEPT !.inner = Update(@, data)]

\* The tag.  finish() also finishes the inner hasher, so that the object must
\* not be updated afterwards.
MacFinish(mac) == [mac EXCEPT !.inner = Finish(@)]

MacTag(mac) ==
  LET inner_digest == Store(Finish(mac.inner).state)
      outer        == Resume(mac.outer_state, B)
  IN  Store(Finish(Update(outer, inner_digest)).state)

-----------------------------------------------------------------------------
(* The definition of RFC 2104, over whole messages *)

HashOf(message) == Store(Padded(message))

HmacOf(key, text) ==
  LET K == IF Len(key) > B THEN HashOf(key) ELSE key
      Padded0(pad) == [i \in 1..B |-> Xor(IF i <= Len(K) THEN K[i] ELSE Zero,
                                          pad)]
  IN  HashOf(Padded0(Opad) \o HashOf(Padded0(Ipad) \o text))
=============================================================================
