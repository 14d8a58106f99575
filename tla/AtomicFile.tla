----------------------------- MODULE AtomicFile -----------------------------
(***************************************************************************)
(* What replacing a file promises: a reader finds the whole payload of one *)
(* call, and a call that succeeds leaves its own.                          *)
(***************************************************************************)
CONSTANTS
  Writers,   \* calls, each of which replaces the file once
  NoFile     \* the file does not exist yet

VARIABLES
  payload,   \* the call whose payload is in the file
  returned   \* calls that returned Ok

vars == <<payload, returned>>

Init ==
  /\ payload = NoFile
  /\ returned = {}

Replace(w) ==
  /\ w \notin returned
  /\ payload' = w
  /\ returned' = returned \cup {w}

Next == \E w \in Writers : Replace(w)

Spec == Init /\ [][Next]_vars

=============================================================================
