------------------------------- MODULE Sha256 -------------------------------
(***************************************************************************)
(* The incremental hasher of src/sha256.cpp as operators on a record       *)
(* [state, buffer, length, buffered], so that HMAC, PBKDF2 and the hex     *)
(* reader can hold hashers of their own.                                   *)
(*                                                                         *)
(* The compression function is symbolic: the eight state words after some  *)
(* blocks are the sequence of the bytes of these blocks.  Two states are   *)
(* then equal exactly when the same blocks were absorbed in the same       *)
(* order, which is the only thing the rest of the program relies on.       *)
(***************************************************************************)
EXTENDS MerklePadding

Hasher == [state : Seq(Byte), buffer : [1..B -> Byte],
           length : Nat, buffered : 0..(B - 1)]

Compress(state, block) == state \o block

Fresh == [state |-> <<>>, buffer |-> [i \in 1..B |-> Zero],
          length |-> 0, buffered |-> 0]

\* The constructor that resumes hashing from a mid-state.
Resume(state, length) == [Fresh EXCEPT !.state = state, !.length = length]

\* Mutant: the length is carried over to the next message.
ResetKeepingLength(h) ==
  [h EXCEPT !.state = <<>>, !.buffer = [i \in 1..B |-> Zero], !.buffered = 0]

\* reset() wipes the buffer and starts over.
Reset(h) == [h EXCEPT !.state = <<>>, !.buffer = [i \in 1..B |-> Zero],
                      !.length = 0, !.buffered = 0]

\* memcpy of data to offset `at` of a buffer: the bytes beyond stay as they
\* were.
CopyInto(buffer, at, data) ==
  [i \in 1..B |-> IF i - at \in 1..Len(data) THEN data[i - at] ELSE buffer[i]]

\* memset of the bytes from offset `at` on.
ZeroFrom(buffer, at) == [i \in 1..B |-> IF i > at THEN Zero ELSE buffer[i]]

\* Mutant: the last free byte of a block that is begun is not used.
TakeShort(h, data) ==
  IF h.buffered = 0 THEN 0
  ELSE IF Len(data) < B - h.buffered THEN Len(data) ELSE B - h.buffered - 1

\* The hasher only compresses whole blocks.
Aligned(n) == n % B = 0

\* How much of the data goes to complete a block that is already begun.
Take(h, data) ==
  IF h.buffered = 0 THEN 0
  ELSE IF Len(data) < B - h.buffered THEN Len(data) ELSE B - h.buffered

\* The bytes of size that are absorbed straight from the caller's memory.
Whole(size) == (size \div B) * B

Update(h, data) ==
  LET take   == Take(h, data)
      joined == CopyInto(h.buffer, h.buffered, SubSeq(data, 1, take))
      size   == Len(data) - take
      whole  == Whole(size)
      begun  == IF h.buffered = 0 THEN h.state ELSE Compress(h.state, joined)
  IN  IF data = <<>> THEN h
      ELSE IF h.buffered # 0 /\ h.buffered + take < B
      THEN [h EXCEPT !.buffer = joined, !.buffered = @ + take,
                     !.length = @ + Len(data)]
      ELSE [state    |-> Compress(begun, SubSeq(data, take + 1, take + whole)),
            buffer   |-> CopyInto(joined, 0,
                                  SubSeq(data, take + whole + 1, Len(data))),
            buffered |-> size - whole,
            length   |-> h.length + Len(data)]

\* The terminator, an extra block when the length field does not fit behind
\* it, zeros and the length.  finish() leaves length_ and the buffer as they
\* are: the object has to be reset before it is used again.
Finish(h) ==
  LET marked == [h.buffer EXCEPT ![h.buffered + 1] = Terminator]
      used   == h.buffered + 1
      spills == used > B - L
      spill  == ZeroFrom(marked, used)
      base   == IF spills THEN ZeroFrom(spill, 0) ELSE ZeroFrom(marked, used)
      last   == CopyInto(base, B - L, LengthField(h.length))
      before == IF spills THEN Compress(h.state, spill) ELSE h.state
  IN  [h EXCEPT !.state = Compress(before, last), !.buffer = last,
                !.buffered = 0]

\* The bytes a hasher stands for, as long as it is not finished.
Content(h) == h.state \o SubSeq(h.buffer, 1, h.buffered)

\* sha256_hash of a whole message.
Hash(data) == Finish(Update(Fresh, data)).state
=============================================================================
