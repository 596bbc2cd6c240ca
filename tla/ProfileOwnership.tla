-------------------------- MODULE ProfileOwnership --------------------------
(***************************************************************************)
(* What browser.Manager promises the rest of BrowseForge about a profile's *)
(* user data directory ("One profile = one browser"), with no locks,       *)
(* retries, drivers or relays: a browser process is started on a profile   *)
(* only while no process holds it, one profile at a time is being started, *)
(* and only a held profile is published to callers.                        *)
(***************************************************************************)
CONSTANTS Profiles, Browsers

VARIABLES
  holders,     \* the browser processes running on each profile's directory
  published    \* the profiles whose browser callers may connect to

vars == <<holders, published>>

Init ==
  /\ holders = [p \in Profiles |-> {}]
  /\ published = {}

\* A profile that is held but not published yet.
Starting == {p \in Profiles : holders[p] # {}} \ published

Acquire(p, b) ==
  /\ holders[p] = {}
  /\ Starting = {}
  /\ holders' = [holders EXCEPT ![p] = {b}]
  /\ UNCHANGED published

Publish(p) ==
  /\ p \in Starting
  /\ published' = published \cup {p}
  /\ UNCHANGED holders

\* The manager forgets a browser that its driver is about to take down.
Withdraw(p) ==
  /\ published' = published \ {p}
  /\ UNCHANGED holders

\* A close, a crash or a driver restart takes the browsers of a set of profiles.
Release(S) ==
  /\ holders' = [p \in Profiles |-> IF p \in S THEN {} ELSE holders[p]]
  /\ published' = published \ S

Next ==
  \/ \E p \in Profiles, b \in Browsers : Acquire(p, b)
  \/ \E p \in Profiles : Publish(p) \/ Withdraw(p)
  \/ \E S \in SUBSET Profiles : Release(S)

Spec == Init /\ [][Next]_vars
=============================================================================
