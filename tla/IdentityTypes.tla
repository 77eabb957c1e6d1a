--------------------------- MODULE IdentityTypes ---------------------------
(***************************************************************************)
(* The values the identity objects of src/derive.cpp are made of, shared   *)
(* by the abstract and the detailed specification.                         *)
(*                                                                         *)
(* A value of 32 bytes is a member of Bytes32, and MakeDigest, KeyedBytes  *)
(* stand for the stretched hash and for HMAC: what they compute is the     *)
(* subject of Sha256Stream and Pbkdf2, here they are any functions.        *)
(***************************************************************************)
EXTENDS Integers

CONSTANTS Bytes32,           \* values of 32 bytes
          ZeroBytes,         \* the one that is all zero
          Data,              \* the contents a caller's view may have
          MakeDigest(_, _),  \* kind and data: the base digest
          KeyedBytes(_, _),  \* key and digest: the keyed fingerprint
          MaxInputSize,      \* max_input_size
          Views,             \* the caller's own views
          HexTexts,          \* the hexadecimal texts tried
          DigestObjects, KeyObjects, PrintObjects

ASSUME ZeroAssumption == ZeroBytes \in Bytes32
ASSUME DataAssumption == Bytes32 \subseteq Data
ASSUME MakeDigestAssumption ==
  \A kind \in {"binary", "text"}, data \in Data :
    MakeDigest(kind, data) \in Bytes32
ASSUME KeyedBytesAssumption ==
  \A key \in Bytes32, digest \in Bytes32 : KeyedBytes(key, digest) \in Bytes32
ASSUME MaxInputSizeAssumption == MaxInputSize \in Nat /\ MaxInputSize >= 32

\* A byte_view: a pointer that may be null, a size, and what it points to.
View == [null : BOOLEAN, size : Nat, data : Data]

ASSUME ViewsAssumption ==
  \A v \in Views : v.null \in BOOLEAN /\ v.size \in Nat /\ v.data \in Data
                   /\ (v.size = 32 => v.data \in Bytes32)

\* A text in hexadecimal: whether it is two or more digits of the right kind
\* and number, and the bytes it then stands for.
ASSUME HexTextsAssumption ==
  \A t \in HexTexts : t.valid \in BOOLEAN /\ t.size \in Nat /\ t.data \in Data

Mode == {"universal", "keyed"}

\* check_length.
CheckLength(size) ==
  IF size = 0 THEN "empty_input"
  ELSE IF size > MaxInputSize THEN "input_too_large" ELSE "ok"

\* What digest_of makes of a view: a code, before the hash is computed.
InputCode(v) ==
  IF v.null /\ v.size # 0 THEN "invalid_argument" ELSE CheckLength(v.size)

\* A hexadecimal text is checked for its digits before its length.
HexCode(t) == IF ~t.valid THEN "invalid_hex" ELSE CheckLength(t.size)

\* A view that import_base_digest, make_secret_key and import_fingerprint may
\* copy 32 bytes from.
Is32(v) == ~v.null /\ v.size = 32
=============================================================================
