---------------------------- MODULE Sha256Stream ----------------------------
(***************************************************************************)
(* The life of one hasher of src/sha256.cpp under a caller that keeps the  *)
(* contract of sha256.hpp: any number of update() calls with pieces of any *)
(* size, one finish(), then reset() (or a new object).  A hasher may also  *)
(* be made from a mid-state, as src/hmac.cpp does.                         *)
(***************************************************************************)
EXTENDS Sha256

CONSTANTS Chunks,     \* the pieces a caller may pass to update
          MidStates,  \* the absorbed blocks a hasher may be resumed from
          MaxLength   \* bound on the bytes hashed between two resets

ASSUME ChunksAssumption == \A data \in Chunks : data \in Seq(Byte)
ASSUME MidStatesAssumption ==
  \A m \in MidStates : m \in Seq(Byte) /\ Aligned(Len(m))
ASSUME MaxLengthAssumption == MaxLength \in Nat

VARIABLES h,        \* the hasher
          open,     \* FALSE from finish() on: the caller must reset first
          digest,   \* the digest finish() wrote, or <<>>
          message   \* history: the bytes the caller has passed

stream_vars == <<h, open, digest, message>>

StreamInit == h = Fresh /\ open = TRUE /\ digest = <<>> /\ message = <<>>

Absorb(data) ==
  /\ open
  /\ Len(message) + Len(data) <= MaxLength
  /\ h' = Update(h, data)
  /\ message' = message \o data
  /\ UNCHANGED <<open, digest>>

Complete ==
  /\ open
  /\ h' = Finish(h)
  /\ digest' = Finish(h).state
  /\ open' = FALSE
  /\ UNCHANGED message

Restart ==
  /\ h' = Reset(h)
  /\ open' = TRUE
  /\ digest' = <<>>
  /\ message' = <<>>

ResumeFrom(m) ==
  /\ h' = Resume(m, Len(m))
  /\ open' = TRUE
  /\ digest' = <<>>
  /\ message' = m

StreamNext == \/ \E data \in Chunks : Absorb(data)
        \/ Complete
        \/ Restart
        \/ \E m \in MidStates : ResumeFrom(m)

StreamSpec == StreamInit /\ [][StreamNext]_stream_vars

-----------------------------------------------------------------------------
(* Properties *)

\* Every field stays in its type.  In particular buffered_ is below the block
\* size whenever the object is at rest, so that finish() always has room for
\* the terminator it stores at buffer_[buffered_] (sha256.cpp:176).
TypeOK == /\ h \in Hasher
          /\ open \in BOOLEAN
          /\ digest \in Seq(Byte)
          /\ message \in Seq(Byte)

\* While the hasher is open, the blocks it absorbed followed by the used part
\* of its buffer are the caller's bytes, none lost, repeated or reordered, and
\* length_ counts them: no piece is too short or too long for update(), and no
\* stale byte of the buffer counts (sha256.cpp:144-170).
Represents ==
  open => /\ message = Content(h)
          /\ h.length = Len(message)
          /\ Aligned(Len(h.state))

\* The digest is that of the padded message for every way of cutting the
\* message into pieces and for every fill of the last block, the extra block
\* included; bytes that an earlier block left in the buffer never reach the
\* compression function (sha256.cpp:172-189).
DigestOfMessage == ~open => digest = Padded(message)

\* The hasher implements the promise.
Promise == INSTANCE HashPromise WITH out <- digest

\* Every behaviour of the hasher is one its abstract promise allows.
KeepsPromise == Promise!Spec

=============================================================================
