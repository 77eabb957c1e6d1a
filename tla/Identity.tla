------------------------------ MODULE Identity ------------------------------
(***************************************************************************)
(* The objects of the identity pipeline as src/derive.cpp implements them: *)
(* base_digest and fingerprint keep their bytes beside a flag, secret_key  *)
(* too and wipes them.  An operation is one action, but inside it the      *)
(* order of the source matters: most clear their result before they look   *)
(* at their arguments, and a byte_view may point into an object.           *)
(***************************************************************************)
EXTENDS IdentityTypes

CONSTANTS Unset,
          HashesOwnBytes  \* whether a digest's own bytes are hashed into it

ASSUME HashesOwnBytesAssumption == HashesOwnBytes \in BOOLEAN
ASSUME UnsetAssumption ==
  /\ Unset \notin Bytes32
  /\ Unset \notin [bytes : Bytes32, mode : Mode]

VARIABLES digest,  \* [bytes, set] of each base_digest
          key,     \* [bytes, set] of each secret_key
          print,   \* [bytes, mode, set] of each fingerprint
          code,    \* the code the last operation returned
          failed   \* history: the object whose operation just failed, or <<>>

vars == <<digest, key, print, code, failed>>

DigestObject == [bytes : Bytes32, set : BOOLEAN]
KeyObject == [bytes : Bytes32, set : BOOLEAN]
PrintObject == [bytes : Bytes32, mode : Mode, set : BOOLEAN]

\* The constructors, and digest_access::clear and fingerprint_access::clear.
EmptyDigest == [bytes |-> ZeroBytes, set |-> FALSE]
EmptyKey == [bytes |-> ZeroBytes, set |-> FALSE]
EmptyPrint == [bytes |-> ZeroBytes, mode |-> "universal", set |-> FALSE]

\* key_access::clear.
ClearKey(k) == [k EXCEPT !.bytes = ZeroBytes, !.set = FALSE]

Init == /\ digest = [d \in DigestObjects |-> EmptyDigest]
        /\ key = [k \in KeyObjects |-> EmptyKey]
        /\ print = [f \in PrintObjects |-> EmptyPrint]
        /\ code = "ok"
        /\ failed = <<>>

-----------------------------------------------------------------------------
(* Views *)

\* A view is memory of the caller's or the bytes of an object.
Pointers == {<<"caller", v>> : v \in Views}
            \cup {<<"digest", d>> : d \in DigestObjects}
            \cup {<<"print", f>> : f \in PrintObjects}

\* What a view shows when the digests are those of memory.
Look(p, memory) ==
  IF p[1] = "caller" THEN p[2]
  ELSE [null |-> FALSE, size |-> 32,
        data |-> IF p[1] = "digest" THEN memory[p[2]].bytes
                 ELSE print[p[2]].bytes]

Report(c, object) ==
  /\ code' = c
  /\ failed' = IF c = "ok" THEN <<>> ELSE object

-----------------------------------------------------------------------------
(* base_digest *)

\* make_base_digest and make_base_digest_from_text: the result is cleared, and
\* then the view is read.
MakeBaseDigest(d, p, kind) ==
  LET cleared == [digest EXCEPT ![d] = EmptyDigest]
      v == Look(p, cleared)
      c == InputCode(v)
  IN  /\ p = <<"digest", d>> => HashesOwnBytes
      /\ digest' = IF c = "ok"
                   THEN [cleared EXCEPT ![d] =
                          [bytes |-> MakeDigest(kind, v.data), set |-> TRUE]]
                   ELSE cleared
      /\ Report(c, <<"digest", d>>)
      /\ UNCHANGED <<key, print>>

MakeBaseDigestFromHex(d, t) ==
  LET c == HexCode(t)
  IN  /\ digest' = [digest EXCEPT ![d] =
           IF c = "ok"
           THEN [bytes |-> MakeDigest("binary", t.data), set |-> TRUE]
           ELSE EmptyDigest]
      /\ Report(c, <<"digest", d>>)
      /\ UNCHANGED <<key, print>>

\* Mutant: the result is cleared first, as in digest_of.
ImportBaseDigestClearing(d, p) ==
  LET cleared == [digest EXCEPT ![d] = EmptyDigest]
      v == Look(p, cleared)
      c == IF Is32(v) THEN "ok" ELSE "invalid_digest"
  IN  /\ digest' = IF c = "ok"
                   THEN [cleared EXCEPT ![d] = [bytes |-> v.data, set |-> TRUE]]
                   ELSE cleared
      /\ Report(c, <<"digest", d>>)
      /\ UNCHANGED <<key, print>>

\* import_base_digest copies the view first: it may be the bytes of the result.
ImportBaseDigest(d, p) ==
  LET v == Look(p, digest)
      c == IF Is32(v) THEN "ok" ELSE "invalid_digest"
  IN  /\ digest' = [digest EXCEPT ![d] =
           IF c = "ok" THEN [bytes |-> v.data, set |-> TRUE] ELSE EmptyDigest]
      /\ Report(c, <<"digest", d>>)
      /\ UNCHANGED <<key, print>>

CopyBaseDigest(d, from) ==
  /\ digest' = [digest EXCEPT ![d] = digest[from]]
  /\ failed' = <<>>
  /\ UNCHANGED <<key, print, code>>

-----------------------------------------------------------------------------
(* secret_key *)

\* A key has the right size and is not all zero.
AcceptsKey(v) == Is32(v) /\ v.data # ZeroBytes

MakeSecretKey(k, p) ==
  LET v == Look(p, digest)
      c == IF AcceptsKey(v) THEN "ok" ELSE "invalid_key"
  IN  /\ key' = [key EXCEPT ![k] =
           IF c = "ok" THEN [bytes |-> v.data, set |-> TRUE]
           ELSE ClearKey(key[k])]
      /\ Report(c, <<"key", k>>)
      /\ UNCHANGED <<digest, print>>

CopySecretKey(k, from) ==
  /\ key' = [key EXCEPT ![k] = key[from]]
  /\ failed' = <<>>
  /\ UNCHANGED <<digest, print, code>>

\* Mutant: the test for a move to itself is missing.
MoveSecretKeyUnguarded(k, from) ==
  /\ key' = [[key EXCEPT ![k] = key[from]] EXCEPT ![from] = ClearKey(key[from])]
  /\ failed' = <<>>
  /\ UNCHANGED <<digest, print, code>>

\* The source of a move is wiped; a move to itself does nothing.
MoveSecretKey(k, from) ==
  /\ key' = IF k = from THEN key
            ELSE [key EXCEPT ![k] = key[from], ![from] = ClearKey(key[from])]
  /\ failed' = <<>>
  /\ UNCHANGED <<digest, print, code>>

-----------------------------------------------------------------------------
(* fingerprint *)

SetPrint(f, c, bytes, mode) ==
  /\ print' = [print EXCEPT ![f] =
       IF c = "ok" THEN [bytes |-> bytes, mode |-> mode, set |-> TRUE]
       ELSE EmptyPrint]
  /\ Report(c, <<"print", f>>)
  /\ UNCHANGED <<digest, key>>

UniversalFingerprint(f, d) ==
  SetPrint(f, IF ~digest[d].set THEN "invalid_digest" ELSE "ok",
           digest[d].bytes, "universal")

\* Mutant: the result is cleared after the checks, so that a failure keeps it.
KeyedFingerprintLateClear(f, d, k) ==
  LET c == IF ~digest[d].set THEN "invalid_digest"
           ELSE IF ~key[k].set THEN "invalid_key" ELSE "ok"
  IN  /\ print' = IF c = "ok"
                  THEN [print EXCEPT ![f] =
                         [bytes |-> KeyedBytes(key[k].bytes, digest[d].bytes),
                          mode |-> "keyed", set |-> TRUE]]
                  ELSE print
      /\ Report(c, <<"print", f>>)
      /\ UNCHANGED <<digest, key>>

KeyedFingerprint(f, d, k) ==
  SetPrint(f, IF ~digest[d].set THEN "invalid_digest"
              ELSE IF ~key[k].set THEN "invalid_key" ELSE "ok",
           KeyedBytes(key[k].bytes, digest[d].bytes), "keyed")

\* import_fingerprint copies the view first, as import_base_digest does.
ImportFingerprint(f, p, m) ==
  LET v == Look(p, digest)
  IN  SetPrint(f,
        IF Is32(v) /\ m \in Mode THEN "ok" ELSE "invalid_fingerprint",
        v.data, m)

CopyFingerprint(f, from) ==
  /\ print' = [print EXCEPT ![f] = print[from]]
  /\ failed' = <<>>
  /\ UNCHANGED <<digest, key, code>>

-----------------------------------------------------------------------------
DigestStep ==
  \E d \in DigestObjects :
    \/ \E p \in Pointers, kind \in {"binary", "text"} :
         MakeBaseDigest(d, p, kind)
    \/ \E t \in HexTexts : MakeBaseDigestFromHex(d, t)
    \/ \E p \in Pointers : ImportBaseDigest(d, p)
    \/ \E from \in DigestObjects : CopyBaseDigest(d, from)

KeyStep ==
  \E k \in KeyObjects :
    \/ \E p \in Pointers : MakeSecretKey(k, p)
    \/ \E from \in KeyObjects : CopySecretKey(k, from) \/ MoveSecretKey(k, from)

PrintStep ==
  \E f \in PrintObjects :
    \/ \E d \in DigestObjects : UniversalFingerprint(f, d)
    \/ \E d \in DigestObjects, k \in KeyObjects : KeyedFingerprint(f, d, k)
    \/ \E p \in Pointers, m \in Mode \cup {"other"} : ImportFingerprint(f, p, m)
    \/ \E from \in PrintObjects : CopyFingerprint(f, from)

Next == DigestStep \/ KeyStep \/ PrintStep

Spec == Init /\ [][Next]_vars

-----------------------------------------------------------------------------
(* Properties *)

\* Every object and code is of its type.
TypeOK == /\ digest \in [DigestObjects -> DigestObject]
          /\ key \in [KeyObjects -> KeyObject]
          /\ print \in [PrintObjects -> PrintObject]
          /\ failed \in {<<>>} \cup ({"digest"} \X DigestObjects)
                        \cup ({"key"} \X KeyObjects)
                        \cup ({"print"} \X PrintObjects)

\* An object that is unset is all zero, its mode included: it compares equal to
\* a new one, and no key byte outlives a move or a failed make_secret_key
\* (derive.cpp:114-150, 240-249).
UnsetIsZero ==
  /\ \A d \in DigestObjects : ~digest[d].set => digest[d] = EmptyDigest
  /\ \A k \in KeyObjects : ~key[k].set => key[k] = EmptyKey
  /\ \A f \in PrintObjects : ~print[f].set => print[f] = EmptyPrint

\* A key that is set is never all zero, wherever it was copied or moved from
\* (derive.cpp:258-272).
KeyNotZero == \A k \in KeyObjects : key[k].set => key[k].bytes # ZeroBytes

\* After an operation fails its result shows no identity: neither the one it
\* held before nor part of the new one (derive.cpp:56, 168, 259, 279, 289).
FailureShowsNothing ==
  /\ \A d \in DigestObjects : failed = <<"digest", d>> => digest[d] = EmptyDigest
  /\ \A k \in KeyObjects : failed = <<"key", k>> => key[k] = EmptyKey
  /\ \A f \in PrintObjects : failed = <<"print", f>> => print[f] = EmptyPrint

\* The objects as values.
DigestValue(d) == IF digest[d].set THEN digest[d].bytes ELSE Unset
KeyValue(k) == IF key[k].set THEN key[k].bytes ELSE Unset
PrintValue(f) ==
  IF print[f].set THEN [bytes |-> print[f].bytes, mode |-> print[f].mode]
  ELSE Unset

Promise == INSTANCE IdentityPromise
  WITH digests <- [d \in DigestObjects |-> DigestValue(d)],
       keys    <- [k \in KeyObjects |-> KeyValue(k)],
       prints  <- [f \in PrintObjects |-> PrintValue(f)]

\* Every operation computes its result from the values its arguments had when
\* it was called, also where a view points into the result.
KeepsPromise == Promise!Spec

\* A base digest or a fingerprint that is imported from its own bytes keeps them,
\* also when it was unset (tests/test_derive.cpp:263).
OwnBytesKept ==
  /\ \A d \in DigestObjects :
       ImportBaseDigest(d, <<"digest", d>>)
         => digest'[d] = [bytes |-> digest[d].bytes, set |-> TRUE]
  /\ \A f \in PrintObjects, m \in Mode :
       ImportFingerprint(f, <<"print", f>>, m)
         => print'[f] = [bytes |-> print[f].bytes, mode |-> m, set |-> TRUE]

\* Every import of an object from its own bytes keeps them.
ImportsOwnBytes == [][OwnBytesKept]_vars

\* A base digest is the hash of the data that was passed, so that equal inputs
\* give equal pictures (SPEC.md section 4, README.md "Deterministic to the
\* byte"), also when the data are the bytes of the object that is assigned.
SameInputSameDigest ==
  [][\A d \in DigestObjects, kind \in {"binary", "text"} :
       MakeBaseDigest(d, <<"digest", d>>, kind) /\ code' = "ok"
         => digest'[d].bytes = MakeDigest(kind, digest[d].bytes)]_vars
=============================================================================
