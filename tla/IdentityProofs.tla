--------------------------- MODULE IdentityProofs ---------------------------
(***************************************************************************)
(* The invariants of the identity objects, for any set of objects, any     *)
(* views and any functions in place of the hash and HMAC.  The four parts  *)
(* of IInv are proved together: that a key which is cleared shows nothing, *)
(* for instance, needs the types, and so does that an imported key is not  *)
(* zero.  The second half shows, operation by operation, that the objects  *)
(* implement IdentityPromise: what an unset object shows to a view is what *)
(* IInv is needed for there.                                               *)
(***************************************************************************)
EXTENDS Identity, TLAPS

IInv == TypeOK /\ UnsetIsZero /\ KeyNotZero /\ FailureShowsNothing

\* Replacing both fields of a key leaves nothing of the old one.
LEMMA BothReplaced ==
  ASSUME NEW k \in KeyObject, NEW z, NEW s
  PROVE  [k EXCEPT !.bytes = z, !.set = s] = [bytes |-> z, set |-> s]
<1> DEFINE e == [k EXCEPT !.bytes = z, !.set = s]
           both == [i \in {"bytes", "set"} |-> IF i = "bytes" THEN z ELSE s]
<1>1. DOMAIN k = {"bytes", "set"}
  BY DEF KeyObject
<1>2. e = both
  BY <1>1
<1>3. [bytes |-> z, set |-> s] = both
  OBVIOUS
<1> QED
  BY <1>2, <1>3

\* The values an object has when it is cleared are of its type.
LEMMA EmptyTypes ==
  /\ EmptyDigest \in DigestObject
  /\ EmptyKey \in KeyObject
  /\ EmptyPrint \in PrintObject
  /\ \A k \in KeyObject : ClearKey(k) = EmptyKey
<1>1. EmptyDigest \in DigestObject
  BY ZeroAssumption DEF EmptyDigest, DigestObject
<1>2. EmptyKey \in KeyObject
  BY ZeroAssumption DEF EmptyKey, KeyObject
<1>3. EmptyPrint \in PrintObject
  BY ZeroAssumption DEF EmptyPrint, PrintObject, Mode
<1>4. ASSUME NEW k \in KeyObject PROVE ClearKey(k) = EmptyKey
  BY <1>4, BothReplaced, Zenon DEF ClearKey, EmptyKey
<1> QED
  BY <1>1, <1>2, <1>3, <1>4

\* A view that may be copied as 32 bytes shows a value of 32 bytes, whether it
\* is the caller's or an object's (derive.cpp:209, 260, 303).
LEMMA LookIs32 ==
  ASSUME TypeOK, NEW p \in Pointers, Is32(Look(p, digest))
  PROVE  Look(p, digest).data \in Bytes32
<1>1. CASE \E v \in Views : p = <<"caller", v>>
  BY <1>1, ViewsAssumption DEF Look, Is32
<1>2. CASE \E d \in DigestObjects : p = <<"digest", d>>
  BY <1>2 DEF Look, TypeOK, DigestObject
<1>3. CASE \E f \in PrintObjects : p = <<"print", f>>
  BY <1>3 DEF Look, TypeOK, PrintObject
<1> QED
  BY <1>1, <1>2, <1>3 DEF Pointers

\* What make_base_digest reads is data, also when the digest it points to has
\* just been cleared (derive.cpp:56).
LEMMA LookIsData ==
  ASSUME TypeOK, NEW p \in Pointers,
         NEW memory \in [DigestObjects -> DigestObject]
  PROVE  Look(p, memory).data \in Data
<1>1. CASE \E v \in Views : p = <<"caller", v>>
  BY <1>1, ViewsAssumption DEF Look
<1>2. CASE \E e \in DigestObjects : p = <<"digest", e>>
  <2>1. PICK e \in DigestObjects : p = <<"digest", e>>
    BY <1>2
  <2>2. memory[e].bytes \in Bytes32
    BY DEF DigestObject
  <2>3. Look(p, memory).data = memory[e].bytes
    BY <2>1 DEF Look
  <2> QED
    BY <2>2, <2>3, DataAssumption
<1>3. CASE \E f \in PrintObjects : p = <<"print", f>>
  <2>1. PICK f \in PrintObjects : p = <<"print", f>>
    BY <1>3
  <2>2. print[f].bytes \in Bytes32
    BY DEF TypeOK, PrintObject
  <2>3. Look(p, memory).data = print[f].bytes
    BY <2>1 DEF Look
  <2> QED
    BY <2>2, <2>3, DataAssumption
<1> QED
  BY <1>1, <1>2, <1>3 DEF Pointers

-----------------------------------------------------------------------------
(* One lemma per kind of object: an operation that gives one object a value *)
(* that is allowed, or clears it and reports a failure, keeps IInv.         *)

\* A digest is replaced by `value` and nothing else changes but the report.
LEMMA DigestKept ==
  ASSUME IInv, NEW d \in DigestObjects, NEW value \in DigestObject,
         value.set \/ value = EmptyDigest,
         digest' = [digest EXCEPT ![d] = value],
         \/ failed' = <<>>
         \/ failed' = <<"digest", d>> /\ value = EmptyDigest,
         UNCHANGED <<key, print>>
  PROVE  IInv'
<1>1. TypeOK'
  <2>1. digest' \in [DigestObjects -> DigestObject]
    BY DEF IInv, TypeOK
  <2>2. key' \in [KeyObjects -> KeyObject] /\ print' \in [PrintObjects -> PrintObject]
    BY DEF IInv, TypeOK
  <2>3. failed' \in {<<>>} \cup ({"digest"} \X DigestObjects)
                    \cup ({"key"} \X KeyObjects) \cup ({"print"} \X PrintObjects)
    OBVIOUS
  <2> QED
    BY <2>1, <2>2, <2>3 DEF TypeOK
<1>2. UnsetIsZero'
  BY DEF IInv, TypeOK, UnsetIsZero
<1>3. KeyNotZero'
  BY DEF IInv, KeyNotZero
<1>4. FailureShowsNothing'
  <2>1. ASSUME NEW x \in DigestObjects, failed' = <<"digest", x>>
       PROVE  digest'[x] = EmptyDigest
    BY <2>1 DEF IInv, TypeOK
  <2>2. ASSUME NEW x \in KeyObjects, failed' = <<"key", x>>
       PROVE  key'[x] = EmptyKey
    BY <2>2 DEF IInv, TypeOK
  <2>3. ASSUME NEW x \in PrintObjects, failed' = <<"print", x>>
       PROVE  print'[x] = EmptyPrint
    BY <2>3 DEF IInv, TypeOK
  <2> QED
    BY <2>1, <2>2, <2>3 DEF FailureShowsNothing
<1> QED
  BY <1>1, <1>2, <1>3, <1>4 DEF IInv

\* The same of a fingerprint.
LEMMA PrintKept ==
  ASSUME IInv, NEW f \in PrintObjects, NEW value \in PrintObject,
         value.set \/ value = EmptyPrint,
         print' = [print EXCEPT ![f] = value],
         \/ failed' = <<>>
         \/ failed' = <<"print", f>> /\ value = EmptyPrint,
         UNCHANGED <<digest, key>>
  PROVE  IInv'
<1>1. TypeOK'
  <2>1. print' \in [PrintObjects -> PrintObject]
    BY DEF IInv, TypeOK
  <2>2. key' \in [KeyObjects -> KeyObject] /\ digest' \in [DigestObjects -> DigestObject]
    BY DEF IInv, TypeOK
  <2>3. failed' \in {<<>>} \cup ({"digest"} \X DigestObjects)
                    \cup ({"key"} \X KeyObjects) \cup ({"print"} \X PrintObjects)
    OBVIOUS
  <2> QED
    BY <2>1, <2>2, <2>3 DEF TypeOK
<1>2. UnsetIsZero'
  BY DEF IInv, TypeOK, UnsetIsZero
<1>3. KeyNotZero'
  BY DEF IInv, KeyNotZero
<1>4. FailureShowsNothing'
  <2>1. ASSUME NEW x \in DigestObjects, failed' = <<"digest", x>>
       PROVE  digest'[x] = EmptyDigest
    BY <2>1 DEF IInv, TypeOK
  <2>2. ASSUME NEW x \in KeyObjects, failed' = <<"key", x>>
       PROVE  key'[x] = EmptyKey
    BY <2>2 DEF IInv, TypeOK
  <2>3. ASSUME NEW x \in PrintObjects, failed' = <<"print", x>>
       PROVE  print'[x] = EmptyPrint
    BY <2>3 DEF IInv, TypeOK
  <2> QED
    BY <2>1, <2>2, <2>3 DEF FailureShowsNothing
<1> QED
  BY <1>1, <1>2, <1>3, <1>4 DEF IInv

\* The same of the keys, of which a move changes two.
LEMMA KeysKept ==
  ASSUME IInv, NEW k \in KeyObjects,
         key' \in [KeyObjects -> KeyObject],
         \A j \in KeyObjects : \/ key'[j] = EmptyKey
                               \/ key'[j].set /\ key'[j].bytes # ZeroBytes,
         \/ failed' = <<>>
         \/ failed' = <<"key", k>> /\ key'[k] = EmptyKey,
         UNCHANGED <<digest, print>>
  PROVE  IInv'
<1>1. TypeOK'
  <2>1. digest' \in [DigestObjects -> DigestObject] /\ print' \in [PrintObjects -> PrintObject]
    BY DEF IInv, TypeOK
  <2>2. failed' \in {<<>>} \cup ({"digest"} \X DigestObjects)
                    \cup ({"key"} \X KeyObjects) \cup ({"print"} \X PrintObjects)
    OBVIOUS
  <2> QED
    BY <2>1, <2>2 DEF TypeOK
<1>2. UnsetIsZero'
  BY DEF IInv, UnsetIsZero
<1>3. KeyNotZero'
  BY DEF EmptyKey, KeyNotZero
<1>4. FailureShowsNothing'
  <2>1. ASSUME NEW x \in DigestObjects, failed' = <<"digest", x>>
       PROVE  digest'[x] = EmptyDigest
    BY <2>1 DEF IInv, TypeOK
  <2>2. ASSUME NEW x \in KeyObjects, failed' = <<"key", x>>
       PROVE  key'[x] = EmptyKey
    BY <2>2 DEF IInv, TypeOK
  <2>3. ASSUME NEW x \in PrintObjects, failed' = <<"print", x>>
       PROVE  print'[x] = EmptyPrint
    BY <2>3 DEF IInv, TypeOK
  <2> QED
    BY <2>1, <2>2, <2>3 DEF FailureShowsNothing
<1> QED
  BY <1>1, <1>2, <1>3, <1>4 DEF IInv

\* An object that exists is empty or may be copied: IInv of one object.
LEMMA ObjectsAllowed ==
  ASSUME IInv
  PROVE  /\ \A d \in DigestObjects :
              digest[d] \in DigestObject /\ (digest[d].set \/ digest[d] = EmptyDigest)
         /\ \A k \in KeyObjects :
              /\ key[k] \in KeyObject
              /\ key[k] = EmptyKey \/ (key[k].set /\ key[k].bytes # ZeroBytes)
         /\ \A f \in PrintObjects :
              print[f] \in PrintObject /\ (print[f].set \/ print[f] = EmptyPrint)
BY DEF IInv, TypeOK, UnsetIsZero, KeyNotZero

-----------------------------------------------------------------------------
\* The operations on base digests keep IInv.
LEMMA DigestStepKeeps == ASSUME IInv, DigestStep PROVE IInv'
<1>1. PICK d \in DigestObjects :
        \/ \E p \in Pointers, kind \in {"binary", "text"} :
             MakeBaseDigest(d, p, kind)
        \/ \E t \in HexTexts : MakeBaseDigestFromHex(d, t)
        \/ \E p \in Pointers : ImportBaseDigest(d, p)
        \/ \E from \in DigestObjects : CopyBaseDigest(d, from)
  BY DEF DigestStep
<1>2. ASSUME NEW p \in Pointers, NEW kind \in {"binary", "text"},
             MakeBaseDigest(d, p, kind)
      PROVE  IInv'
  <2> DEFINE cleared == [digest EXCEPT ![d] = EmptyDigest]
             v == Look(p, cleared)
             new == [bytes |-> MakeDigest(kind, v.data), set |-> TRUE]
             value == IF InputCode(v) = "ok" THEN new ELSE EmptyDigest
  <2>1. MakeDigest(kind, v.data) \in Bytes32
    <3>1. cleared \in [DigestObjects -> DigestObject]
      BY EmptyTypes DEF IInv, TypeOK
    <3> HIDE DEF cleared
    <3>2. v.data \in Data
      BY <3>1, LookIsData DEF IInv
    <3> QED
      BY <3>2, MakeDigestAssumption
  <2>2. new \in DigestObject /\ new.set
    BY <2>1 DEF DigestObject
  <2>3. digest' = IF InputCode(v) = "ok" THEN [cleared EXCEPT ![d] = new] ELSE cleared
    BY <1>2 DEF MakeBaseDigest
  <2>4. [cleared EXCEPT ![d] = new] = [digest EXCEPT ![d] = new]
    BY DEF IInv, TypeOK
  <2>5. failed' = IF InputCode(v) = "ok" THEN <<>> ELSE <<"digest", d>>
    BY <1>2 DEF MakeBaseDigest, Report
  <2>6. UNCHANGED <<key, print>>
    BY <1>2 DEF MakeBaseDigest
  <2> HIDE DEF cleared, v, new
  <2>7. value \in DigestObject /\ (value.set \/ value = EmptyDigest)
    BY <2>2, EmptyTypes
  <2>8. digest' = [digest EXCEPT ![d] = value]
    BY <2>3, <2>4 DEF cleared
  <2>9. failed' = <<>> \/ (failed' = <<"digest", d>> /\ value = EmptyDigest)
    BY <2>5
  <2> QED
    BY <2>6, <2>7, <2>8, <2>9, DigestKept
<1>3. ASSUME NEW t \in HexTexts, MakeBaseDigestFromHex(d, t)
      PROVE  IInv'
  <2> DEFINE new == [bytes |-> MakeDigest("binary", t.data), set |-> TRUE]
             value == IF HexCode(t) = "ok" THEN new ELSE EmptyDigest
  <2>1. MakeDigest("binary", t.data) \in Bytes32
    BY HexTextsAssumption, MakeDigestAssumption
  <2>2. new \in DigestObject /\ new.set
    BY <2>1 DEF DigestObject
  <2>3. value \in DigestObject /\ (value.set \/ value = EmptyDigest)
    BY <2>2, EmptyTypes
  <2>4. digest' = [digest EXCEPT ![d] = value]
    BY <1>3 DEF MakeBaseDigestFromHex
  <2>5. failed' = <<>> \/ (failed' = <<"digest", d>> /\ value = EmptyDigest)
    BY <1>3 DEF MakeBaseDigestFromHex, Report
  <2>6. UNCHANGED <<key, print>>
    BY <1>3 DEF MakeBaseDigestFromHex
  <2> QED
    BY <2>3, <2>4, <2>5, <2>6, DigestKept
<1>4. ASSUME NEW p \in Pointers, ImportBaseDigest(d, p)
      PROVE  IInv'
  <2> DEFINE v == Look(p, digest)
             new == [bytes |-> v.data, set |-> TRUE]
             value == IF Is32(v) THEN new ELSE EmptyDigest
  <2>1. Is32(v) => new \in DigestObject /\ new.set
    BY LookIs32 DEF IInv, DigestObject
  <2>2. value \in DigestObject /\ (value.set \/ value = EmptyDigest)
    BY <2>1, EmptyTypes
  <2>3. digest' = [digest EXCEPT ![d] = value]
    BY <1>4 DEF ImportBaseDigest
  <2>4. failed' = <<>> \/ (failed' = <<"digest", d>> /\ value = EmptyDigest)
    BY <1>4 DEF ImportBaseDigest, Report
  <2>5. UNCHANGED <<key, print>>
    BY <1>4 DEF ImportBaseDigest
  <2> QED
    BY <2>2, <2>3, <2>4, <2>5, DigestKept
<1>5. ASSUME NEW from \in DigestObjects, CopyBaseDigest(d, from)
      PROVE  IInv'
  <2>1. digest' = [digest EXCEPT ![d] = digest[from]] /\ failed' = <<>>
        /\ UNCHANGED <<key, print>>
    BY <1>5 DEF CopyBaseDigest
  <2>2. digest[from] \in DigestObject
        /\ (digest[from].set \/ digest[from] = EmptyDigest)
    BY ObjectsAllowed
  <2> QED
    BY <2>1, <2>2, DigestKept
<1> QED
  BY <1>1, <1>2, <1>3, <1>4, <1>5

\* The operations on keys keep IInv.
LEMMA KeyStepKeeps == ASSUME IInv, KeyStep PROVE IInv'
<1>1. PICK k \in KeyObjects :
        \/ \E p \in Pointers : MakeSecretKey(k, p)
        \/ \E from \in KeyObjects : CopySecretKey(k, from) \/ MoveSecretKey(k, from)
  BY DEF KeyStep
<1>2. key \in [KeyObjects -> KeyObject]
  BY DEF IInv, TypeOK
<1>3. ASSUME NEW p \in Pointers, MakeSecretKey(k, p)
      PROVE  IInv'
  <2> DEFINE v == Look(p, digest)
             new == [bytes |-> v.data, set |-> TRUE]
             value == IF AcceptsKey(v) THEN new ELSE EmptyKey
  <2>1. AcceptsKey(v) => new \in KeyObject /\ new.set /\ new.bytes # ZeroBytes
    BY LookIs32 DEF IInv, KeyObject, AcceptsKey
  <2>2. value \in KeyObject /\ (value = EmptyKey \/ (value.set /\ value.bytes # ZeroBytes))
    BY <2>1, EmptyTypes
  <2>3. ClearKey(key[k]) = EmptyKey
    BY <1>2, EmptyTypes
  <2>4. key' = [key EXCEPT ![k] = value]
    BY <1>3, <2>3 DEF MakeSecretKey
  <2>5. failed' = <<>> \/ (failed' = <<"key", k>> /\ value = EmptyKey)
    BY <1>3 DEF MakeSecretKey, Report
  <2>6. UNCHANGED <<digest, print>>
    BY <1>3 DEF MakeSecretKey
  <2> HIDE DEF value
  <2>7. key' \in [KeyObjects -> KeyObject] /\ key'[k] = value
    BY <1>2, <2>2, <2>4
  <2>8. ASSUME NEW j \in KeyObjects
        PROVE  key'[j] = EmptyKey \/ (key'[j].set /\ key'[j].bytes # ZeroBytes)
    BY <1>2, <2>2, <2>4, ObjectsAllowed
  <2> QED
    BY <2>5, <2>6, <2>7, <2>8, KeysKept
<1>4. ASSUME NEW from \in KeyObjects, CopySecretKey(k, from)
      PROVE  IInv'
  <2>1. key' = [key EXCEPT ![k] = key[from]] /\ failed' = <<>>
        /\ UNCHANGED <<digest, print>>
    BY <1>4 DEF CopySecretKey
  <2>2. key' \in [KeyObjects -> KeyObject]
    BY <1>2, <2>1
  <2>3. ASSUME NEW j \in KeyObjects
        PROVE  key'[j] = EmptyKey \/ (key'[j].set /\ key'[j].bytes # ZeroBytes)
    BY <1>2, <2>1, ObjectsAllowed
  <2> QED
    BY <2>1, <2>2, <2>3, KeysKept
<1>5. ASSUME NEW from \in KeyObjects, MoveSecretKey(k, from)
      PROVE  IInv'
  <2>1. failed' = <<>> /\ UNCHANGED <<digest, print>>
    BY <1>5 DEF MoveSecretKey
  <2>2. ClearKey(key[from]) = EmptyKey
    BY <1>2, EmptyTypes
  <2>3. key' = IF k = from THEN key
               ELSE [key EXCEPT ![k] = key[from], ![from] = EmptyKey]
    BY <1>5, <2>2 DEF MoveSecretKey
  <2>4. key' \in [KeyObjects -> KeyObject]
    BY <1>2, <2>3, EmptyTypes
  <2>5. ASSUME NEW j \in KeyObjects
        PROVE  key'[j] = EmptyKey \/ (key'[j].set /\ key'[j].bytes # ZeroBytes)
    BY <1>2, <2>3, ObjectsAllowed
  <2> QED
    BY <2>1, <2>4, <2>5, KeysKept
<1> QED
  BY <1>1, <1>3, <1>4, <1>5

\* The common end of the operations that make a fingerprint keeps IInv: it is
\* given bytes of the right type, or cleared.
LEMMA SetPrintKeeps ==
  ASSUME IInv, NEW f \in PrintObjects, NEW c, NEW bytes, NEW mode,
         c = "ok" => bytes \in Bytes32 /\ mode \in Mode,
         SetPrint(f, c, bytes, mode)
  PROVE  IInv'
<1> DEFINE new == [bytes |-> bytes, mode |-> mode, set |-> TRUE]
           value == IF c = "ok" THEN new ELSE EmptyPrint
<1>1. c = "ok" => new \in PrintObject /\ new.set
  BY DEF PrintObject
<1>2. value \in PrintObject /\ (value.set \/ value = EmptyPrint)
  BY <1>1, EmptyTypes
<1>3. print' = [print EXCEPT ![f] = value]
  BY DEF SetPrint
<1>4. failed' = <<>> \/ (failed' = <<"print", f>> /\ value = EmptyPrint)
  BY DEF SetPrint, Report
<1>5. UNCHANGED <<digest, key>>
  BY DEF SetPrint
<1> QED
  BY <1>2, <1>3, <1>4, <1>5, PrintKept

\* The operations on fingerprints keep IInv.
LEMMA PrintStepKeeps == ASSUME IInv, PrintStep PROVE IInv'
<1>1. PICK f \in PrintObjects :
        \/ \E d \in DigestObjects : UniversalFingerprint(f, d)
        \/ \E d \in DigestObjects, k \in KeyObjects : KeyedFingerprint(f, d, k)
        \/ \E p \in Pointers, m \in Mode \cup {"other"} : ImportFingerprint(f, p, m)
        \/ \E from \in PrintObjects : CopyFingerprint(f, from)
  BY DEF PrintStep
<1>2. \A d \in DigestObjects : digest[d].bytes \in Bytes32
  BY DEF IInv, TypeOK, DigestObject
<1>3. ASSUME NEW d \in DigestObjects, UniversalFingerprint(f, d)
      PROVE  IInv'
  <2>1. "universal" \in Mode
    BY DEF Mode
  <2> QED
    BY <1>2, <1>3, <2>1, SetPrintKeeps DEF UniversalFingerprint
<1>4. ASSUME NEW d \in DigestObjects, NEW k \in KeyObjects, KeyedFingerprint(f, d, k)
      PROVE  IInv'
  <2>1. "keyed" \in Mode
    BY DEF Mode
  <2>2. key[k].bytes \in Bytes32
    BY DEF IInv, TypeOK, KeyObject
  <2>3. KeyedBytes(key[k].bytes, digest[d].bytes) \in Bytes32
    BY <1>2, <2>2, KeyedBytesAssumption
  <2> QED
    BY <1>4, <2>1, <2>3, SetPrintKeeps DEF KeyedFingerprint
<1>5. ASSUME NEW p \in Pointers, NEW m \in Mode \cup {"other"},
             ImportFingerprint(f, p, m)
      PROVE  IInv'
  <2> DEFINE v == Look(p, digest)
             c == IF Is32(v) /\ m \in Mode THEN "ok" ELSE "invalid_fingerprint"
  <2>1. c = "ok" => v.data \in Bytes32 /\ m \in Mode
    BY LookIs32 DEF IInv
  <2>2. SetPrint(f, c, v.data, m)
    BY <1>5 DEF ImportFingerprint
  <2> HIDE DEF c, v
  <2> QED
    BY <2>1, <2>2, SetPrintKeeps
<1>6. ASSUME NEW from \in PrintObjects, CopyFingerprint(f, from)
      PROVE  IInv'
  <2>1. print' = [print EXCEPT ![f] = print[from]] /\ failed' = <<>>
        /\ UNCHANGED <<digest, key>>
    BY <1>6 DEF CopyFingerprint
  <2>2. print[from] \in PrintObject /\ (print[from].set \/ print[from] = EmptyPrint)
    BY ObjectsAllowed
  <2> QED
    BY <2>1, <2>2, PrintKept
<1> QED
  BY <1>1, <1>3, <1>4, <1>5, <1>6

\* New objects satisfy IInv.
LEMMA InitIInv == Init => IInv
<1> SUFFICES ASSUME Init PROVE IInv
  OBVIOUS
<1>1. TypeOK
  BY EmptyTypes DEF Init, TypeOK
<1>2. UnsetIsZero
  BY DEF Init, UnsetIsZero
<1>3. KeyNotZero
  BY DEF Init, KeyNotZero, EmptyKey
<1>4. FailureShowsNothing
  BY DEF Init, FailureShowsNothing
<1> QED
  BY <1>1, <1>2, <1>3, <1>4 DEF IInv

\* No step ends outside IInv.
LEMMA NextIInv == IInv /\ [Next]_vars => IInv'
<1> SUFFICES ASSUME IInv, [Next]_vars PROVE IInv'
  OBVIOUS
<1>1. CASE UNCHANGED vars
  BY <1>1 DEF vars, IInv, TypeOK, UnsetIsZero, KeyNotZero, FailureShowsNothing
<1>2. CASE Next
  BY <1>2, DigestStepKeeps, KeyStepKeeps, PrintStepKeeps DEF Next
<1> QED
  BY <1>1, <1>2

\* IInv holds in every reachable state.
LEMMA AlwaysIInv == Spec => []IInv
BY InitIInv, NextIInv, PTL DEF Spec

\* Every object always holds 32 bytes and a known mode, whatever views were
\* passed to the operations of derive.cpp.
THEOREM TypeCorrect == Spec => []TypeOK
<1>1. IInv => TypeOK
  BY DEF IInv
<1> QED
  BY <1>1, AlwaysIInv, PTL

\* An object that is unset is indistinguishable from a new one: no byte of an
\* earlier identity or key is left in it (derive.cpp:114-150).
THEOREM UnsetAlwaysZero == Spec => []UnsetIsZero
<1>1. IInv => UnsetIsZero
  BY DEF IInv
<1> QED
  BY <1>1, AlwaysIInv, PTL

\* No sequence of making, copying and moving leaves a key of zeros that counts
\* as set (derive.cpp:258-272).
THEOREM KeysNeverZero == Spec => []KeyNotZero
<1>1. IInv => KeyNotZero
  BY DEF IInv
<1> QED
  BY <1>1, AlwaysIInv, PTL

\* An operation that fails leaves its result empty, for every way to fail.
THEOREM FailuresShowNothing == Spec => []FailureShowsNothing
<1>1. IInv => FailureShowsNothing
  BY DEF IInv
<1> QED
  BY <1>1, AlwaysIInv, PTL

-----------------------------------------------------------------------------
(* The promise *)

\* What the objects are to the promise.
Digests == [d \in DigestObjects |-> DigestValue(d)]
Keys == [k \in KeyObjects |-> KeyValue(k)]
Prints == [f \in PrintObjects |-> PrintValue(f)]

\* An import from an object's own bytes reads what was there when it was called,
\* for every object and all bytes.
THEOREM ImportsKeepOwnBytes == Spec => ImportsOwnBytes
<1>1. IInv => OwnBytesKept
  <2> SUFFICES ASSUME IInv PROVE OwnBytesKept
    OBVIOUS
  <2>1. ASSUME NEW d \in DigestObjects, ImportBaseDigest(d, <<"digest", d>>)
        PROVE  digest'[d] = [bytes |-> digest[d].bytes, set |-> TRUE]
    <3>1. Look(<<"digest", d>>, digest) =
            [null |-> FALSE, size |-> 32, data |-> digest[d].bytes]
      BY DEF Look
    <3>2. Is32(Look(<<"digest", d>>, digest))
      BY <3>1 DEF Is32
    <3> DEFINE v == Look(<<"digest", d>>, digest)
               new == [bytes |-> v.data, set |-> TRUE]
    <3>3. digest' = [digest EXCEPT ![d] =
                      IF (IF Is32(v) THEN "ok" ELSE "invalid_digest") = "ok"
                      THEN new ELSE EmptyDigest]
      BY <2>1, Zenon DEF ImportBaseDigest
    <3>4. v.data = digest[d].bytes
      BY DEF Look
    <3> HIDE DEF v, new
    <3>5. digest' = [digest EXCEPT ![d] = new]
      BY <3>2, <3>3 DEF v
    <3>6. digest'[d] = new
      BY <3>5 DEF IInv, TypeOK
    <3> QED
      BY <3>4, <3>6 DEF new
  <2>2. ASSUME NEW f \in PrintObjects, NEW m \in Mode,
               ImportFingerprint(f, <<"print", f>>, m)
        PROVE  print'[f] = [bytes |-> print[f].bytes, mode |-> m, set |-> TRUE]
    <3>1. Look(<<"print", f>>, digest) =
            [null |-> FALSE, size |-> 32, data |-> print[f].bytes]
      BY DEF Look
    <3>2. Is32(Look(<<"print", f>>, digest))
      BY <3>1 DEF Is32
    <3> DEFINE v == Look(<<"print", f>>, digest)
               new == [bytes |-> v.data, mode |-> m, set |-> TRUE]
    <3>3. print' = [print EXCEPT ![f] =
                     IF (IF Is32(v) /\ m \in Mode THEN "ok"
                         ELSE "invalid_fingerprint") = "ok"
                     THEN new ELSE EmptyPrint]
      BY <2>2, Zenon DEF ImportFingerprint, SetPrint
    <3>4. v.data = print[f].bytes
      BY DEF Look
    <3> HIDE DEF v, new
    <3>5. print' = [print EXCEPT ![f] = new]
      BY <3>2, <3>3 DEF v
    <3>6. print'[f] = new
      BY <3>5 DEF IInv, TypeOK
    <3> QED
      BY <3>4, <3>6 DEF new
  <2> QED
    BY <2>1, <2>2 DEF OwnBytesKept
<1> QED
  BY <1>1, AlwaysIInv, PTL DEF Spec, ImportsOwnBytes

\* The types and helpers are the same in both specifications.
LEMMA SameTypes ==
  /\ Promise!Mode = Mode
  /\ \A v : Promise!InputCode(v) = InputCode(v) /\ (Promise!Is32(v) <=> Is32(v))
  /\ \A t : Promise!HexCode(t) = HexCode(t)
BY DEF Promise!Mode, Mode, Promise!InputCode, InputCode, Promise!Is32, Is32,
       Promise!HexCode, HexCode, Promise!CheckLength, CheckLength

\* The value of an object that is replaced.
LEMMA DigestReplaced ==
  ASSUME IInv, NEW d \in DigestObjects, NEW value,
         digest' = [digest EXCEPT ![d] = value], UNCHANGED <<key, print>>
  PROVE  /\ Digests' = [Digests EXCEPT ![d] = IF value.set THEN value.bytes ELSE Unset]
         /\ Keys' = Keys /\ Prints' = Prints
<1>1. digest \in [DigestObjects -> DigestObject]
  BY DEF IInv, TypeOK
<1>2. \A e \in DigestObjects : digest'[e] = IF e = d THEN value ELSE digest[e]
  BY <1>1
<1>3. \A e \in DigestObjects : DigestValue(e)' = IF e = d
                                   THEN (IF value.set THEN value.bytes ELSE Unset)
                                   ELSE DigestValue(e)
  BY <1>2 DEF DigestValue
<1>4. Digests' = [Digests EXCEPT ![d] = IF value.set THEN value.bytes ELSE Unset]
  BY <1>3, Zenon DEF Digests
<1>5. Keys' = Keys /\ Prints' = Prints
  BY DEF Digests, Keys, Prints, DigestValue, KeyValue, PrintValue
<1> QED
  BY <1>4, <1>5

LEMMA PrintReplaced ==
  ASSUME IInv, NEW f \in PrintObjects, NEW value,
         print' = [print EXCEPT ![f] = value], UNCHANGED <<digest, key>>
  PROVE  /\ Prints' = [Prints EXCEPT ![f] =
              IF value.set THEN [bytes |-> value.bytes, mode |-> value.mode] ELSE Unset]
         /\ Digests' = Digests /\ Keys' = Keys
<1>1. print \in [PrintObjects -> PrintObject]
  BY DEF IInv, TypeOK
<1>2. \A e \in PrintObjects : print'[e] = IF e = f THEN value ELSE print[e]
  BY <1>1
<1> QED
  BY <1>2 DEF Digests, Keys, Prints, DigestValue, KeyValue, PrintValue

LEMMA KeyReplaced ==
  ASSUME IInv, NEW k \in KeyObjects, NEW value,
         key' = [key EXCEPT ![k] = value], UNCHANGED <<digest, print>>
  PROVE  /\ Keys' = [Keys EXCEPT ![k] = IF value.set THEN value.bytes ELSE Unset]
         /\ Digests' = Digests /\ Prints' = Prints
<1>1. key \in [KeyObjects -> KeyObject]
  BY DEF IInv, TypeOK
<1>2. \A e \in KeyObjects : key'[e] = IF e = k THEN value ELSE key[e]
  BY <1>1
<1>3. \A e \in KeyObjects : KeyValue(e)' = IF e = k
                                   THEN (IF value.set THEN value.bytes ELSE Unset)
                                   ELSE KeyValue(e)
  BY <1>2 DEF KeyValue
<1>4. Keys' = [Keys EXCEPT ![k] = IF value.set THEN value.bytes ELSE Unset]
  BY <1>3, Zenon DEF Keys
<1>5. Digests' = Digests /\ Prints' = Prints
  BY DEF Digests, Keys, Prints, DigestValue, KeyValue, PrintValue
<1> QED
  BY <1>4, <1>5

\* What a caller may point to is what the promise lets it pass; an object that
\* is unset shows zeros.
LEMMA LookIsPassable ==
  ASSUME IInv, NEW p \in Pointers PROVE Look(p, digest) \in Promise!Passable
<1>1. CASE \E v \in Views : p = <<"caller", v>>
  BY <1>1 DEF Look, Promise!Passable
<1>2. CASE \E d \in DigestObjects : p = <<"digest", d>>
  <2>1. PICK d \in DigestObjects : p = <<"digest", d>>
    BY <1>2
  <2>2. digest[d] \in DigestObject /\ (digest[d].set \/ digest[d] = EmptyDigest)
    BY ObjectsAllowed
  <2>3. digest[d].bytes = Promise!DigestBytes(d)
    BY <2>2, UnsetAssumption
       DEF Promise!DigestBytes, DigestValue, DigestObject, EmptyDigest
  <2>4. Look(p, digest) = Promise!Viewed(Promise!DigestBytes(d))
    BY <2>1, <2>3 DEF Look, Promise!Viewed
  <2> QED
    BY <2>4 DEF Promise!Passable
<1>3. CASE \E f \in PrintObjects : p = <<"print", f>>
  <2>1. PICK f \in PrintObjects : p = <<"print", f>>
    BY <1>3
  <2>2. print[f] \in PrintObject /\ (print[f].set \/ print[f] = EmptyPrint)
    BY ObjectsAllowed
  <2>3. print[f].bytes = Promise!PrintBytes(f)
    BY <2>2, UnsetAssumption
       DEF Promise!PrintBytes, PrintValue, PrintObject, EmptyPrint
  <2>4. Look(p, digest) = Promise!Viewed(Promise!PrintBytes(f))
    BY <2>1, <2>3 DEF Look, Promise!Viewed
  <2> QED
    BY <2>4 DEF Promise!Passable
<1> QED
  BY <1>1, <1>2, <1>3 DEF Pointers

\* An operation that sets its result, or clears it and reports why, is one of the
\* promise.
LEMMA SetsDigest ==
  ASSUME IInv, NEW d \in DigestObjects, NEW c, NEW value,
         digest' = [digest EXCEPT ![d] =
           IF c = "ok" THEN [bytes |-> value, set |-> TRUE] ELSE EmptyDigest],
         code' = c, UNCHANGED <<key, print>>
  PROVE  Promise!SetDigest(d, c, value)
<1> DEFINE new == [bytes |-> value, set |-> TRUE]
           stored == IF c = "ok" THEN new ELSE EmptyDigest
           shown == IF stored.set THEN stored.bytes ELSE Unset
<1>1. shown = IF c = "ok" THEN value ELSE Unset
  <2>1. new.set /\ new.bytes = value /\ ~EmptyDigest.set
    BY DEF EmptyDigest
  <2> HIDE DEF new
  <2> QED
    BY <2>1
<1>2. digest' = [digest EXCEPT ![d] = stored]
  OBVIOUS
<1> HIDE DEF stored
<1>3. Digests' = [Digests EXCEPT ![d] = shown] /\ Keys' = Keys /\ Prints' = Prints
  BY <1>2, DigestReplaced, Zenon
<1> HIDE DEF shown
<1> QED
  BY <1>1, <1>3, Zenon DEF Promise!SetDigest, Digests, Keys, Prints

LEMMA SetsKey ==
  ASSUME IInv, NEW k \in KeyObjects, NEW c, NEW value,
         key' = [key EXCEPT ![k] =
           IF c = "ok" THEN [bytes |-> value, set |-> TRUE] ELSE EmptyKey],
         code' = c, UNCHANGED <<digest, print>>
  PROVE  Promise!SetKey(k, c, value)
<1> DEFINE new == [bytes |-> value, set |-> TRUE]
           stored == IF c = "ok" THEN new ELSE EmptyKey
           shown == IF stored.set THEN stored.bytes ELSE Unset
<1>1. shown = IF c = "ok" THEN value ELSE Unset
  <2>1. new.set /\ new.bytes = value /\ ~EmptyKey.set
    BY DEF EmptyKey
  <2> HIDE DEF new
  <2> QED
    BY <2>1
<1>2. key' = [key EXCEPT ![k] = stored]
  OBVIOUS
<1> HIDE DEF stored
<1>3. Keys' = [Keys EXCEPT ![k] = shown] /\ Digests' = Digests /\ Prints' = Prints
  BY <1>2, KeyReplaced, Zenon
<1> HIDE DEF shown
<1> QED
  BY <1>1, <1>3, Zenon DEF Promise!SetKey, Digests, Keys, Prints

LEMMA SetsPrint ==
  ASSUME IInv, NEW f \in PrintObjects, NEW c, NEW bytes, NEW mode, NEW promised,
         SetPrint(f, c, bytes, mode), c = "ok" => bytes = promised
  PROVE  Promise!SetPrint(f, c, promised, mode)
<1> DEFINE new == [bytes |-> bytes, mode |-> mode, set |-> TRUE]
           stored == IF c = "ok" THEN new ELSE EmptyPrint
           shown == IF stored.set THEN [bytes |-> stored.bytes, mode |-> stored.mode]
                    ELSE Unset
<1>1. shown = IF c = "ok" THEN [bytes |-> promised, mode |-> mode] ELSE Unset
  <2>1. new.set /\ new.bytes = bytes /\ new.mode = mode /\ ~EmptyPrint.set
    BY DEF EmptyPrint
  <2> HIDE DEF new
  <2> QED
    BY <2>1
<1>2. print' = [print EXCEPT ![f] = stored] /\ code' = c /\ UNCHANGED <<digest, key>>
  BY Zenon DEF SetPrint, Report
<1> HIDE DEF stored
<1>3. Prints' = [Prints EXCEPT ![f] = shown] /\ Digests' = Digests /\ Keys' = Keys
  BY <1>2, PrintReplaced, Zenon
<1> HIDE DEF shown
<1> QED
  BY <1>1, <1>2, <1>3, Zenon DEF Promise!SetPrint, Digests, Keys, Prints

\* An object is unset to the promise exactly if its flag is not set.
LEMMA UnsetValues ==
  ASSUME IInv
  PROVE  /\ \A d \in DigestObjects :
              IF digest[d].set THEN DigestValue(d) = digest[d].bytes
                                    /\ DigestValue(d) # Unset
              ELSE DigestValue(d) = Unset
         /\ \A k \in KeyObjects :
              IF key[k].set THEN KeyValue(k) = key[k].bytes /\ KeyValue(k) # Unset
              ELSE KeyValue(k) = Unset
<1>1. \A d \in DigestObjects : digest[d].bytes \in Bytes32
  BY ObjectsAllowed DEF DigestObject
<1>2. \A k \in KeyObjects : key[k].bytes \in Bytes32
  BY ObjectsAllowed DEF KeyObject
<1> QED
  BY <1>1, <1>2, UnsetAssumption DEF DigestValue, KeyValue

LEMMA DigestStepPromised ==
  ASSUME IInv, ~HashesOwnBytes, DigestStep PROVE Promise!Next
<1>1. PICK d \in DigestObjects :
        \/ \E p \in Pointers, kind \in {"binary", "text"} :
             MakeBaseDigest(d, p, kind)
        \/ \E t \in HexTexts : MakeBaseDigestFromHex(d, t)
        \/ \E p \in Pointers : ImportBaseDigest(d, p)
        \/ \E from \in DigestObjects : CopyBaseDigest(d, from)
  BY DEF DigestStep
<1>2. ASSUME NEW p \in Pointers, NEW kind \in {"binary", "text"},
             MakeBaseDigest(d, p, kind)
      PROVE  Promise!Next
  <2> DEFINE cleared == [digest EXCEPT ![d] = EmptyDigest]
             v == Look(p, digest)
             c == InputCode(v)
             new == [bytes |-> MakeDigest(kind, v.data), set |-> TRUE]
  <2>1. Look(p, cleared) = v
    <3>1. p # <<"digest", d>>
      BY <1>2 DEF MakeBaseDigest
    <3>2. ASSUME NEW e \in DigestObjects, p = <<"digest", e>>
          PROVE  cleared[e] = digest[e]
      BY <3>1, <3>2 DEF IInv, TypeOK
    <3>3. p[1] = "digest" => \E e \in DigestObjects : p = <<"digest", e>>
      BY DEF Pointers
    <3>4. p[1] = "digest" => cleared[p[2]] = digest[p[2]]
      BY <3>2, <3>3
    <3> QED
      BY <3>4, Zenon DEF Look
  <2>2. /\ digest' = IF c = "ok" THEN [cleared EXCEPT ![d] = new] ELSE cleared
        /\ code' = c /\ UNCHANGED <<key, print>>
    BY <1>2, <2>1 DEF MakeBaseDigest, Report
  <2> HIDE DEF new, c
  <2>3. digest' = [digest EXCEPT ![d] = IF c = "ok" THEN new ELSE EmptyDigest]
    BY <2>2 DEF IInv, TypeOK
  <2>4. Promise!SetDigest(d, c, MakeDigest(kind, v.data))
    BY <2>2, <2>3, SetsDigest DEF new
  <2>5. c = Promise!InputCode(v) /\ v \in Promise!Passable
    BY SameTypes, LookIsPassable DEF c
  <2> QED
    BY <2>4, <2>5, Zenon DEF Promise!Next, Promise!Hash
<1>3. ASSUME NEW t \in HexTexts, MakeBaseDigestFromHex(d, t)
      PROVE  Promise!Next
  <2>1. /\ digest' = [digest EXCEPT ![d] =
             IF HexCode(t) = "ok"
             THEN [bytes |-> MakeDigest("binary", t.data), set |-> TRUE]
             ELSE EmptyDigest]
        /\ code' = HexCode(t) /\ UNCHANGED <<key, print>>
    BY <1>3, Zenon DEF MakeBaseDigestFromHex, Report
  <2>2. Promise!SetDigest(d, HexCode(t), MakeDigest("binary", t.data))
    BY <2>1, SetsDigest, Zenon
  <2>3. HexCode(t) = Promise!HexCode(t)
    BY SameTypes
  <2> QED
    BY <2>2, <2>3, Zenon DEF Promise!Next, Promise!Hash
<1>4. ASSUME NEW p \in Pointers, ImportBaseDigest(d, p)
      PROVE  Promise!Next
  <2> DEFINE v == Look(p, digest)
             c == IF Is32(v) THEN "ok" ELSE "invalid_digest"
  <2>1. /\ digest' = [digest EXCEPT ![d] =
             IF c = "ok" THEN [bytes |-> v.data, set |-> TRUE] ELSE EmptyDigest]
        /\ code' = c /\ UNCHANGED <<key, print>>
    BY <1>4, Zenon DEF ImportBaseDigest, Report
  <2> HIDE DEF v, c
  <2>2. Promise!SetDigest(d, c, v.data)
    BY <2>1, SetsDigest, Zenon
  <2>3. c = IF Promise!Is32(v) THEN "ok" ELSE "invalid_digest"
    BY SameTypes DEF c
  <2>4. v \in Promise!Passable
    BY LookIsPassable DEF v
  <2> QED
    BY <2>2, <2>3, <2>4, Zenon DEF Promise!Next, Promise!ImportDigest
<1>5. ASSUME NEW from \in DigestObjects, CopyBaseDigest(d, from)
      PROVE  Promise!Next
  <2>1. digest' = [digest EXCEPT ![d] = digest[from]] /\ UNCHANGED <<key, print, code>>
    BY <1>5 DEF CopyBaseDigest
  <2>2. /\ Digests' = [Digests EXCEPT ![d] = DigestValue(from)]
        /\ Keys' = Keys /\ Prints' = Prints
    BY <2>1, DigestReplaced, Zenon DEF DigestValue
  <2>3. Digests[from] = DigestValue(from)
    BY DEF Digests
  <2>4. Promise!CopyDigest(d, from)
    BY <2>1, <2>2, <2>3, Zenon DEF Promise!CopyDigest, Digests, Keys, Prints
  <2> QED
    BY <2>4, Zenon DEF Promise!Next
<1> QED
  BY <1>1, <1>2, <1>3, <1>4, <1>5

LEMMA KeyStepPromised ==
  ASSUME IInv, KeyStep PROVE [Promise!Next]_(Promise!vars)
<1>1. PICK k \in KeyObjects :
        \/ \E p \in Pointers : MakeSecretKey(k, p)
        \/ \E from \in KeyObjects : CopySecretKey(k, from) \/ MoveSecretKey(k, from)
  BY DEF KeyStep
<1>2. ASSUME NEW p \in Pointers, MakeSecretKey(k, p) PROVE Promise!Next
  <2> DEFINE v == Look(p, digest)
             c == IF AcceptsKey(v) THEN "ok" ELSE "invalid_key"
             new == [bytes |-> v.data, set |-> TRUE]
  <2>1. ClearKey(key[k]) = EmptyKey
    BY EmptyTypes DEF IInv, TypeOK
  <2>2. /\ key' = [key EXCEPT ![k] = IF c = "ok" THEN new ELSE ClearKey(key[k])]
        /\ code' = c /\ UNCHANGED <<digest, print>>
    BY <1>2, Zenon DEF MakeSecretKey, Report
  <2>3. v \in Promise!Passable
    BY LookIsPassable
  <2>4. c = IF Promise!Is32(v) /\ v.data # ZeroBytes THEN "ok" ELSE "invalid_key"
    BY SameTypes, Zenon DEF AcceptsKey
  <2> HIDE DEF v, c
  <2>5. key' = [key EXCEPT ![k] = IF c = "ok" THEN [bytes |-> v.data, set |-> TRUE]
                                  ELSE EmptyKey]
    BY <2>1, <2>2, Zenon
  <2>6. Promise!SetKey(k, c, v.data)
    BY <2>2, <2>5, SetsKey, Zenon
  <2> QED
    BY <2>3, <2>4, <2>6, Zenon DEF Promise!Next, Promise!MakeKey
<1>3. ASSUME NEW from \in KeyObjects, CopySecretKey(k, from) PROVE Promise!Next
  <2>1. key' = [key EXCEPT ![k] = key[from]] /\ UNCHANGED <<digest, print, code>>
    BY <1>3 DEF CopySecretKey
  <2>2. /\ Keys' = [Keys EXCEPT ![k] = KeyValue(from)]
        /\ Digests' = Digests /\ Prints' = Prints
    BY <2>1, KeyReplaced, Zenon DEF KeyValue
  <2>3. Keys[from] = KeyValue(from)
    BY DEF Keys
  <2>4. Promise!CopyKey(k, from)
    BY <2>1, <2>2, <2>3, Zenon DEF Promise!CopyKey, Digests, Keys, Prints
  <2> QED
    BY <2>4, Zenon DEF Promise!Next
<1>4. ASSUME NEW from \in KeyObjects, MoveSecretKey(k, from)
      PROVE  [Promise!Next]_(Promise!vars)
  <2>1. CASE k = from
    <3>1. UNCHANGED <<digest, key, print, code>>
      BY <1>4, <2>1 DEF MoveSecretKey
    <3> QED
      BY <3>1 DEF Promise!vars, DigestValue, KeyValue, PrintValue
  <2>2. CASE k # from
    <3>1. /\ key' = [key EXCEPT ![k] = key[from], ![from] = ClearKey(key[from])]
          /\ UNCHANGED <<digest, print, code>>
      BY <1>4, <2>2 DEF MoveSecretKey
    <3>2. ~ClearKey(key[from]).set
      BY EmptyTypes DEF IInv, TypeOK, EmptyKey
    <3>3. \A e \in KeyObjects : key'[e] = IF e = from THEN ClearKey(key[from])
                                         ELSE IF e = k THEN key[from] ELSE key[e]
      BY <3>1, <2>2 DEF IInv, TypeOK
    <3>4. \A e \in KeyObjects : KeyValue(e)' = IF e = from THEN Unset
                                     ELSE IF e = k THEN KeyValue(from) ELSE KeyValue(e)
      BY <3>2, <3>3, Zenon DEF KeyValue
    <3>5. Keys' = [Keys EXCEPT ![k] = Keys[from], ![from] = Unset]
      BY <3>4, <2>2 DEF Keys
    <3>6. Digests' = Digests /\ Prints' = Prints
      BY <3>1 DEF Digests, Prints, DigestValue, PrintValue
    <3>7. Promise!MoveKey(k, from)
      BY <3>1, <3>5, <3>6, <2>2, Zenon DEF Promise!MoveKey, Digests, Keys, Prints
    <3> QED
      BY <3>7, Zenon DEF Promise!Next
  <2> QED
    BY <2>1, <2>2
<1> QED
  BY <1>1, <1>2, <1>3, <1>4

LEMMA PrintStepPromised == ASSUME IInv, PrintStep PROVE Promise!Next
<1>1. PICK f \in PrintObjects :
        \/ \E d \in DigestObjects : UniversalFingerprint(f, d)
        \/ \E d \in DigestObjects, k \in KeyObjects : KeyedFingerprint(f, d, k)
        \/ \E p \in Pointers, m \in Mode \cup {"other"} : ImportFingerprint(f, p, m)
        \/ \E from \in PrintObjects : CopyFingerprint(f, from)
  BY DEF PrintStep
<1>2. ASSUME NEW d \in DigestObjects, UniversalFingerprint(f, d) PROVE Promise!Next
  <2> DEFINE c == IF ~digest[d].set THEN "invalid_digest" ELSE "ok"
  <2>1. SetPrint(f, c, digest[d].bytes, "universal")
    BY <1>2, Zenon DEF UniversalFingerprint
  <2>2. c = "ok" => digest[d].bytes = DigestValue(d)
    BY UnsetValues
  <2>3. c = IF DigestValue(d) = Unset THEN "invalid_digest" ELSE "ok"
    BY UnsetValues
  <2> HIDE DEF c
  <2>4. Promise!SetPrint(f, c, DigestValue(d), "universal")
    BY <2>1, <2>2, SetsPrint, Zenon
  <2>5. Digests[d] = DigestValue(d)
    BY DEF Digests
  <2>6. Promise!Universal(f, d)
    BY <2>3, <2>4, <2>5, Zenon DEF Promise!Universal, Digests
  <2> QED
    BY <2>6, Zenon DEF Promise!Next
<1>3. ASSUME NEW d \in DigestObjects, NEW k \in KeyObjects, KeyedFingerprint(f, d, k)
      PROVE  Promise!Next
  <2> DEFINE c == IF ~digest[d].set THEN "invalid_digest"
                  ELSE IF ~key[k].set THEN "invalid_key" ELSE "ok"
             promised == KeyedBytes(KeyValue(k), DigestValue(d))
  <2>1. SetPrint(f, c, KeyedBytes(key[k].bytes, digest[d].bytes), "keyed")
    BY <1>3, Zenon DEF KeyedFingerprint
  <2>2. c = "ok" => digest[d].bytes = DigestValue(d) /\ key[k].bytes = KeyValue(k)
    BY UnsetValues
  <2>3. c = "ok" => KeyedBytes(key[k].bytes, digest[d].bytes) = promised
    BY <2>2, Zenon
  <2>4. c = IF DigestValue(d) = Unset THEN "invalid_digest"
            ELSE IF KeyValue(k) = Unset THEN "invalid_key" ELSE "ok"
    BY UnsetValues
  <2> HIDE DEF c, promised
  <2>5. Promise!SetPrint(f, c, promised, "keyed")
    BY <2>1, <2>3, SetsPrint, Zenon
  <2>6. Digests[d] = DigestValue(d) /\ Keys[k] = KeyValue(k)
    BY DEF Digests, Keys
  <2>7. Promise!Keyed(f, d, k)
    BY <2>4, <2>5, <2>6, Zenon DEF Promise!Keyed, Digests, Keys, promised
  <2> QED
    BY <2>7, Zenon DEF Promise!Next
<1>4. ASSUME NEW p \in Pointers, NEW m \in Mode \cup {"other"},
             ImportFingerprint(f, p, m)
      PROVE  Promise!Next
  <2> DEFINE v == Look(p, digest)
             c == IF Is32(v) /\ m \in Mode THEN "ok" ELSE "invalid_fingerprint"
  <2>1. SetPrint(f, c, v.data, m)
    BY <1>4, Zenon DEF ImportFingerprint
  <2>2. v \in Promise!Passable
    BY LookIsPassable
  <2>3. c = IF Promise!Is32(v) /\ m \in Promise!Mode THEN "ok"
            ELSE "invalid_fingerprint"
    BY SameTypes, Zenon
  <2> HIDE DEF c, v
  <2>4. Promise!SetPrint(f, c, v.data, m)
    BY <2>1, SetsPrint, Zenon
  <2>5. Promise!ImportPrint(f)
    BY <2>2, <2>3, <2>4, SameTypes, Zenon DEF Promise!ImportPrint
  <2> QED
    BY <2>5, Zenon DEF Promise!Next
<1>5. ASSUME NEW from \in PrintObjects, CopyFingerprint(f, from)
      PROVE  Promise!Next
  <2>1. print' = [print EXCEPT ![f] = print[from]] /\ UNCHANGED <<digest, key, code>>
    BY <1>5 DEF CopyFingerprint
  <2>2. /\ Prints' = [Prints EXCEPT ![f] = PrintValue(from)]
        /\ Digests' = Digests /\ Keys' = Keys
    BY <2>1, PrintReplaced, Zenon DEF PrintValue
  <2>3. Prints[from] = PrintValue(from)
    BY DEF Prints
  <2>4. Promise!CopyPrint(f, from)
    BY <2>1, <2>2, <2>3, Zenon DEF Promise!CopyPrint, Digests, Keys, Prints
  <2> QED
    BY <2>4, Zenon DEF Promise!Next
<1> QED
  BY <1>1, <1>2, <1>3, <1>4, <1>5

\* The objects keep the promise that every operation computes its result from the
\* values its arguments had when it was called, for any number of objects, all
\* values and all views.  The one case it leaves out, a digest hashed into itself,
\* is the one the run identity_own_bytes refutes: make_base_digest clears its
\* result before it reads the view (derive.cpp:56).
THEOREM ImplementsPromise == ASSUME ~HashesOwnBytes PROVE Spec => KeepsPromise
<1>1. Init => Promise!Init
  BY DEF Init, Promise!Init, DigestValue, KeyValue, PrintValue, EmptyDigest,
         EmptyKey, EmptyPrint
<1>2. IInv /\ [Next]_vars => [Promise!Next]_(Promise!vars)
  <2> SUFFICES ASSUME IInv, [Next]_vars PROVE [Promise!Next]_(Promise!vars)
    OBVIOUS
  <2>1. CASE UNCHANGED vars
    BY <2>1 DEF vars, Promise!vars, DigestValue, KeyValue, PrintValue
  <2> QED
    BY <2>1, DigestStepPromised, KeyStepPromised, PrintStepPromised DEF Next
<1> QED
  BY <1>1, <1>2, AlwaysIInv, PTL DEF Spec, KeepsPromise, Promise!Spec
=============================================================================
