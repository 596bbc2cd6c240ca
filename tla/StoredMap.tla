----------------------------- MODULE StoredMap -----------------------------
(***************************************************************************)
(* What profile.Store and groups.Store promise to their callers, with no   *)
(* handlers, requests or callers: a call changes what it is about in       *)
(* memory and on disk at once, or only in memory, and then something has   *)
(* failed; nothing reaches the disk that memory does not show; and a start *)
(* shows what is on disk.                                                  *)
(***************************************************************************)
CONSTANTS
  Keys, Values, Nothing,
  OneFile   \* all entries are saved in one file, and may change in one call

VARIABLES
  shown,   \* what the calls read
  saved,   \* what a start would read
  failed   \* a call was not able to save since the start

vars == <<shown, saved, failed>>

Init ==
  /\ shown = [k \in Keys |-> Nothing]
  /\ saved = [k \in Keys |-> Nothing]
  /\ failed = FALSE

Affected == IF OneFile THEN SUBSET Keys ELSE {{}} \cup {{k} : k \in Keys}

Change(K) ==
  /\ shown' \in [Keys -> Values]
  /\ \A k \in Keys \ K : shown'[k] = shown[k]

\* A save of one file makes up for those that have failed before.
Save(K) ==
  /\ Change(K)
  /\ saved' = [k \in Keys |-> IF OneFile \/ k \in K THEN shown'[k] ELSE saved[k]]
  /\ UNCHANGED failed

Lose(K) ==
  /\ Change(K)
  /\ failed' = TRUE
  /\ UNCHANGED saved

Recover ==
  /\ shown' = saved
  /\ failed' = FALSE
  /\ UNCHANGED saved

Next ==
  \/ \E K \in Affected : Save(K) \/ Lose(K)
  \/ Recover

Spec == Init /\ [][Next]_vars
=============================================================================
