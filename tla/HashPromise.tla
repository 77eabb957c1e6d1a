---------------------------- MODULE HashPromise ----------------------------
(***************************************************************************)
(* What a hasher promises its callers: it remembers the bytes it was given *)
(* since it was made, and its digest is that of these bytes, whatever the  *)
(* pieces they came in.  A digest is left symbolic: it is the padded       *)
(* message it is computed from.                                            *)
(***************************************************************************)
EXTENDS MerklePadding

CONSTANTS Chunks,     \* the pieces a caller may pass to update
          MidStates   \* the whole blocks a hasher may be resumed from

VARIABLES message,    \* the bytes hashed so far
          open,       \* FALSE from finish() to the next reset()
          out         \* the digest, or <<>>

vars == <<message, open, out>>

Start(m) == message' = m /\ open' = TRUE /\ out' = <<>>

Init == message = <<>> /\ open = TRUE /\ out = <<>>

Extend(data) ==
  /\ open
  /\ message' = message \o data
  /\ UNCHANGED <<open, out>>

Digest ==
  /\ open
  /\ open' = FALSE
  /\ out' = Padded(message)
  /\ UNCHANGED message

Next == \/ \E m \in MidStates \cup {<<>>} : Start(m)
        \/ \E data \in Chunks : Extend(data)
        \/ Digest

Spec == Init /\ [][Next]_vars
=============================================================================
