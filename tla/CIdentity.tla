----------------------------- MODULE CIdentity -----------------------------
(***************************************************************************)
(* The functions of src/c_api.cpp that make digests, fingerprints, tags    *)
(* and layouts, on the memory of a C host.  Every argument is a pointer    *)
(* into that memory, or null, and the result may be written over what the  *)
(* arguments point to.  What is hashed, keyed and described is the subject *)
(* of other modules; here a value read is a value copied, and the order of *)
(* reads and writes is what counts.                                        *)
(***************************************************************************)
EXTENDS Integers, Sequences

CONSTANTS Cells,       \* bound: the memory is the cells 1..Cells
          CellValues,  \* what a cell may hold
          Width,       \* HH_DIGEST_SIZE, HH_KEY_SIZE and HH_FINGERPRINT_SIZE
          MaxSize,     \* bound: the most cells that are hashed
          ResultWidth, \* a function: the cells it writes
          Hashed(_, _), \* a form of input and cells: the base digest
          HashCode(_, _), \* the same: what the input is refused with, or "ok"
          ResultOf(_, _, _) \* a function, its copies, a mode: what it writes

ASSUME WidthAssumption == Width \in 1..Cells /\ 0 \in CellValues

Forms == {"hh_base_digest", "hh_base_digest_from_hex", "hh_base_digest_from_text"}
Readers == {"hh_tag", "hh_layout_of"}

VARIABLES memory, \* the cells of the host
          call,   \* the call under way, or NoCall
          copied, \* the local copies it has made
          before, \* history: the memory when it was made
          done,   \* history: the call that has returned, or NoCall
          answer  \* what that one returned

identity_vars == <<memory, call, copied, before, done, answer>>

NoCall == [function |-> "none"]
Null == 0

Slice(m, at, n) == [i \in 1..n |-> m[at + i - 1]]
Put(m, at, cells) ==
  [a \in DOMAIN m |-> IF a \in at..(at + Len(cells) - 1) THEN cells[a - at + 1]
                      ELSE m[a]]

IdentityInit ==
  /\ memory \in [1..Cells -> CellValues]
  /\ call = NoCall /\ copied = <<>>
  /\ before = memory /\ done = NoCall /\ answer = "ok"

-----------------------------------------------------------------------------
(* A call *)

\* Where n cells may begin, null included.
At(n) == {Null} \cup 1..(Cells - n + 1)

\* A function that takes a digest, a key or a fingerprint, and one that hashes.
Invocations ==
  [function : {"hh_universal_fingerprint", "hh_key_check_value", "hh_tag"},
   in : At(Width), out : 0..Cells]
    \cup [function : {"hh_keyed_fingerprint"}, in : At(Width), key : At(Width),
          out : 0..Cells]
    \cup [function : {"hh_layout_of"}, in : At(Width), out : 0..Cells,
          mode : {"universal", "keyed", "other"}]
    \cup [function : Forms, in : At(MaxSize), size : 0..MaxSize, out : 0..Cells]

\* What the functions look at before they read anything.
NullArgument(c) ==
  \/ c.out = Null
  \/ c.in = Null /\ ~(c.function \in Forms /\ c.size = 0)
  \/ c.function = "hh_keyed_fingerprint" /\ c.key = Null

Return(c, code_returned) ==
  /\ call' = NoCall /\ copied' = <<>>
  /\ done' = c /\ answer' = code_returned

\* The host has taken note of an answer.
Observe ==
  /\ done # NoCall
  /\ done' = NoCall /\ answer' = "ok" /\ before' = memory
  /\ UNCHANGED <<memory, call, copied>>

Invoke ==
  /\ call = NoCall /\ done = NoCall
  /\ \E c \in Invocations :
       /\ c.out \in At(ResultWidth[c.function])
       /\ before' = memory
       /\ IF NullArgument(c) THEN Return(c, "invalid_argument")
          ELSE call' = c /\ UNCHANGED <<copied, done, answer>>
  /\ UNCHANGED memory

\* Mutant: cell by cell from the first, as a loop or memcpy may do it.
MoveForward(m, from, to) ==
  LET step[i \in 0..Width] ==
        IF i = 0 THEN m
        ELSE [step[i - 1] EXCEPT ![to + i - 1] = step[i - 1][from + i - 1]]
  IN  step[Width]

\* memmove: as if by way of a copy.
Move(m, from, to) == Put(m, to, Slice(m, from, Width))

HhUniversalFingerprint ==
  /\ call.function = "hh_universal_fingerprint"
  /\ memory' = Move(memory, call.in, call.out)
  /\ Return(call, "ok")
  /\ UNCHANGED before

\* The hash is computed to a digest of the function's own; text and hexadecimal
\* are parsed on the way.
HashInput ==
  /\ call.function \in Forms /\ copied = <<>>
  /\ LET input == Slice(memory, call.in, call.size)
     IN  IF HashCode(call.function, input) = "ok"
         THEN /\ copied' = <<Hashed(call.function, input)>>
              /\ UNCHANGED <<call, done, answer>>
         ELSE Return(call, HashCode(call.function, input))
  /\ UNCHANGED <<memory, before>>

\* import_base_digest of 32 bytes never fails.
CopyDigest ==
  /\ call.function = "hh_keyed_fingerprint" /\ copied = <<>>
  /\ copied' = <<Slice(memory, call.in, Width)>>
  /\ UNCHANGED <<memory, call, before, done, answer>>

\* make_secret_key refuses a key of zeros.
CopyKey ==
  /\ \/ call.function = "hh_keyed_fingerprint" /\ Len(copied) = 1
     \/ call.function = "hh_key_check_value" /\ copied = <<>>
  /\ LET k == Slice(memory, IF call.function = "hh_key_check_value" THEN call.in
                            ELSE call.key, Width)
     IN  IF \A i \in DOMAIN k : k[i] = 0 THEN Return(call, "invalid_key")
         ELSE copied' = Append(copied, k) /\ UNCHANGED <<call, done, answer>>
  /\ UNCHANGED <<memory, before>>

\* make_fingerprint; hh_tag passes a mode of its own.
CopyFingerprint ==
  /\ call.function \in Readers /\ copied = <<>>
  /\ IF call.function = "hh_layout_of" /\ call.mode = "other"
     THEN Return(call, "invalid_fingerprint")
     ELSE /\ copied' = <<Slice(memory, call.in, Width)>>
          /\ UNCHANGED <<call, done, answer>>
  /\ UNCHANGED <<memory, before>>

\* How many copies a function computes its result from.
Copies(function) == IF function = "hh_keyed_fingerprint" THEN 2 ELSE 1

ModeOf(c) == IF c.function = "hh_layout_of" THEN c.mode ELSE "universal"

\* memcpy of what was computed from the copies, or field by field of a layout.
WriteResult ==
  /\ call # NoCall /\ Len(copied) = Copies(call.function)
  /\ memory' = Put(memory, call.out,
                   IF call.function \in Forms THEN copied[1]
                   ELSE ResultOf(call.function, copied, ModeOf(call)))
  /\ Return(call, "ok")
  /\ UNCHANGED before

IdentityNext ==
  \/ Invoke \/ Observe
  \/ HhUniversalFingerprint \/ HashInput
  \/ CopyDigest \/ CopyKey \/ CopyFingerprint
  \/ WriteResult

IdentitySpec == IdentityInit /\ [][IdentityNext]_identity_vars

-----------------------------------------------------------------------------
(* Property *)

\* What a call that succeeds has to leave in the cells it writes, from the
\* memory the host passed to it.
Expected(c, m) ==
  CASE c.function \in Forms -> Hashed(c.function, Slice(m, c.in, c.size))
    [] c.function = "hh_universal_fingerprint" -> Slice(m, c.in, Width)
    [] c.function = "hh_keyed_fingerprint" ->
         ResultOf(c.function, <<Slice(m, c.in, Width), Slice(m, c.key, Width)>>,
                  "universal")
    [] OTHER -> ResultOf(c.function, <<Slice(m, c.in, Width)>>, ModeOf(c))

\* Wherever the result lies, over an argument, across the end of one or across
\* two of them, it is computed from what the arguments held when the function
\* was called; nothing else of the memory changes, and a call that fails changes
\* nothing (c_api.cpp:164-239: only hh_universal_fingerprint has no copy of its
\* own to write from, and moves).
ResultIsOfArguments ==
  call = NoCall /\ done # NoCall =>
    memory = IF answer = "ok" THEN Put(before, done.out, Expected(done, before))
             ELSE before
=============================================================================
