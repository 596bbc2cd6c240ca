----------------------------- MODULE AgentPages -----------------------------
(***************************************************************************)
(* What mcp.SessionPool promises about the pages it opens in users'        *)
(* browsers, with no pools, locks, connections or collector: a page is     *)
(* open for callers to find until it is taken out, once; a page that was   *)
(* taken out is closed, and never while a search navigates it; and it does *)
(* not come back.                                                          *)
(***************************************************************************)
CONSTANTS Sessions, Threads, NoThread

VARIABLES
  life,  \* of each page: closed, offered to callers, or taken out and still open
  user   \* the caller that navigates it

vars == <<life, user>>

Init ==
  /\ life = [s \in Sessions |-> "closed"]
  /\ user = [s \in Sessions |-> NoThread]

\* A page may be opened in a pool that somebody has set out to empty.
Open(s) ==
  /\ life[s] = "closed"
  /\ \E l \in {"offered", "leaving"} : life' = [life EXCEPT ![s] = l]
  /\ UNCHANGED user

\* Destroyed, collected, or of a pool that is replaced or closed.
TakeOut(S) ==
  /\ \A s \in S : life[s] = "offered"
  /\ life' = [s \in Sessions |-> IF s \in S THEN "leaving" ELSE life[s]]
  /\ UNCHANGED user

Close(s) ==
  /\ life[s] = "leaving"
  /\ user[s] = NoThread
  /\ life' = [life EXCEPT ![s] = "closed"]
  /\ UNCHANGED user

\* A caller may have found the page before it was taken out.
Enter(s, t) ==
  /\ life[s] # "closed"
  /\ user[s] = NoThread
  /\ user' = [user EXCEPT ![s] = t]
  /\ UNCHANGED life

Leave(s) ==
  /\ user[s] # NoThread
  /\ user' = [user EXCEPT ![s] = NoThread]
  /\ UNCHANGED life

Next ==
  \/ \E s \in Sessions : Open(s) \/ Close(s) \/ Leave(s)
  \/ \E s \in Sessions, t \in Threads : Enter(s, t)
  \/ \E S \in SUBSET Sessions : TakeOut(S)

Spec == Init /\ [][Next]_vars
=============================================================================
