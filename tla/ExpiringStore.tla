---------------------------- MODULE ExpiringStore ----------------------------
(***************************************************************************)
(* What screenshotArtifactStore promises to those who are given a URL,     *)
(* with no files, processes, mutexes, clean-ups or kills: what is added    *)
(* can be fetched until it expires or is found unreadable, it is added     *)
(* once, and what is gone does not come back.                              *)
(***************************************************************************)
CONSTANT Ids

VARIABLES
  available,   \* what can be fetched
  spent,       \* what was added, under an ID that nothing else gets
  expired,
  unread       \* what a clean-up was not able to read

vars == <<available, spent, expired, unread>>

Init == available = {} /\ spent = {} /\ expired = {} /\ unread = {}

Add(i) ==
  /\ i \notin spent
  /\ available' = available \cup {i}
  /\ spent' = spent \cup {i}
  /\ UNCHANGED <<expired, unread>>

Expire(i) ==
  /\ expired' = expired \cup {i}
  /\ UNCHANGED <<available, spent, unread>>

\* What cannot be read goes at once, or later.
Misread(i) ==
  /\ i \in spent
  /\ unread' = unread \cup {i}
  /\ available' \in {available, available \ {i}}
  /\ UNCHANGED <<spent, expired>>

\* What has expired goes when a save or a request finds it.
Remove(i) ==
  /\ i \in expired \cup unread
  /\ available' = available \ {i}
  /\ UNCHANGED <<spent, expired, unread>>

Next == \E i \in Ids : Add(i) \/ Expire(i) \/ Misread(i) \/ Remove(i)

Spec == Init /\ [][Next]_vars
=============================================================================
