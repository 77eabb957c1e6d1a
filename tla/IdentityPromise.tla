-------------------------- MODULE IdentityPromise --------------------------
(***************************************************************************)
(* What the identity objects promise: each is unset or has a value, every  *)
(* operation computes its result from the values its arguments had when it *)
(* was called, and an operation that fails leaves its result unset, so     *)
(* that no earlier identity is shown in its place.                         *)
(***************************************************************************)
EXTENDS IdentityTypes

CONSTANT Unset

VARIABLES digests,  \* per object: a value of 32 bytes, or Unset
          keys,     \* the same, never all zero
          prints,   \* per object: bytes and mode, or Unset
          code      \* the code the last operation returned

vars == <<digests, keys, prints, code>>

Init == /\ digests = [d \in DigestObjects |-> Unset]
        /\ keys = [k \in KeyObjects |-> Unset]
        /\ prints = [f \in PrintObjects |-> Unset]
        /\ code = "ok"

\* bytes() of an unset digest or fingerprint is all zero.
DigestBytes(d) == IF digests[d] = Unset THEN ZeroBytes ELSE digests[d]
PrintBytes(f) == IF prints[f] = Unset THEN ZeroBytes ELSE prints[f].bytes

Viewed(bytes) == [null |-> FALSE, size |-> 32, data |-> bytes]

\* What a caller may pass: memory of its own, or the bytes of an object.
Passable == Views \cup {Viewed(DigestBytes(d)) : d \in DigestObjects}
                  \cup {Viewed(PrintBytes(f)) : f \in PrintObjects}

SetDigest(d, c, value) ==
  /\ code' = c
  /\ digests' = [digests EXCEPT ![d] = IF c = "ok" THEN value ELSE Unset]
  /\ UNCHANGED <<keys, prints>>

SetKey(k, c, value) ==
  /\ code' = c
  /\ keys' = [keys EXCEPT ![k] = IF c = "ok" THEN value ELSE Unset]
  /\ UNCHANGED <<digests, prints>>

SetPrint(f, c, bytes, mode) ==
  /\ code' = c
  /\ prints' = [prints EXCEPT ![f] =
       IF c = "ok" THEN [bytes |-> bytes, mode |-> mode] ELSE Unset]
  /\ UNCHANGED <<digests, keys>>

Hash(d) ==
  \/ \E v \in Passable, kind \in {"binary", "text"} :
       SetDigest(d, InputCode(v), MakeDigest(kind, v.data))
  \/ \E t \in HexTexts : SetDigest(d, HexCode(t), MakeDigest("binary", t.data))

ImportDigest(d) ==
  \E v \in Passable :
    SetDigest(d, IF Is32(v) THEN "ok" ELSE "invalid_digest", v.data)

CopyDigest(d, from) ==
  /\ digests' = [digests EXCEPT ![d] = digests[from]]
  /\ UNCHANGED <<keys, prints, code>>

MakeKey(k) ==
  \E v \in Passable :
    SetKey(k, IF Is32(v) /\ v.data # ZeroBytes THEN "ok" ELSE "invalid_key",
           v.data)

CopyKey(k, from) ==
  /\ keys' = [keys EXCEPT ![k] = keys[from]]
  /\ UNCHANGED <<digests, prints, code>>

MoveKey(k, from) ==
  /\ k # from
  /\ keys' = [keys EXCEPT ![k] = keys[from], ![from] = Unset]
  /\ UNCHANGED <<digests, prints, code>>

Universal(f, d) ==
  SetPrint(f, IF digests[d] = Unset THEN "invalid_digest" ELSE "ok",
           digests[d], "universal")

Keyed(f, d, k) ==
  SetPrint(f, IF digests[d] = Unset THEN "invalid_digest"
              ELSE IF keys[k] = Unset THEN "invalid_key" ELSE "ok",
           KeyedBytes(keys[k], digests[d]), "keyed")

ImportPrint(f) ==
  \E v \in Passable, m \in Mode \cup {"other"} :
    SetPrint(f, IF Is32(v) /\ m \in Mode THEN "ok" ELSE "invalid_fingerprint",
             v.data, m)

CopyPrint(f, from) ==
  /\ prints' = [prints EXCEPT ![f] = prints[from]]
  /\ UNCHANGED <<digests, keys, code>>

Next ==
  \/ \E d \in DigestObjects : Hash(d) \/ ImportDigest(d)
  \/ \E d, from \in DigestObjects : CopyDigest(d, from)
  \/ \E k \in KeyObjects : MakeKey(k)
  \/ \E k, from \in KeyObjects : CopyKey(k, from) \/ MoveKey(k, from)
  \/ \E f \in PrintObjects : ImportPrint(f)
  \/ \E f, from \in PrintObjects : CopyPrint(f, from)
  \/ \E f \in PrintObjects, d \in DigestObjects : Universal(f, d)
  \/ \E f \in PrintObjects, d \in DigestObjects, k \in KeyObjects :
       Keyed(f, d, k)

Spec == Init /\ [][Next]_vars
=============================================================================
