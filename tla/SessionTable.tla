---------------------------- MODULE SessionTable ----------------------------
(***************************************************************************)
(* What browser.Manager promises to those who list and route its sessions, *)
(* with no locks, contexts, attempts or relays: one profile is launched at *)
(* a time, it has no session meanwhile, it gets one only where its own     *)
(* launch ends, and whoever looks between two launches misses none.        *)
(***************************************************************************)
CONSTANT Profiles

VARIABLES
  launching,   \* the profile a launch is about
  listed       \* the profiles that have a session

vars == <<launching, listed>>

Init == launching = {} /\ listed = {}

\* A session that does not answer is forgotten before its profile is launched again.
Begin(p) ==
  /\ launching = {}
  /\ launching' = {p}
  /\ listed' = listed \ {p}

Finish(p) ==
  /\ launching = {p}
  /\ launching' = {}
  /\ listed' = listed \cup {p}

GiveUp ==
  /\ launching' = {}
  /\ UNCHANGED listed

\* Sessions are closed, or lose their driver to the launch in progress.
Withdraw(S) ==
  /\ listed' = listed \ S
  /\ UNCHANGED launching

Next ==
  \/ \E p \in Profiles : Begin(p) \/ Finish(p)
  \/ GiveUp
  \/ \E S \in SUBSET Profiles : Withdraw(S)

Spec == Init /\ [][Next]_vars
=============================================================================
