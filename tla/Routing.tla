------------------------------ MODULE Routing ------------------------------
(***************************************************************************)
(* Through which proxy a running browser goes: the proxies of profiles     *)
(* (profile/store.go) and the policies of their groups (groups/store.go),  *)
(* which a launch reads once (browser/launch_chromium.go,                  *)
(* launch_firefox.go) under Manager.mu, against the handlers and tools     *)
(* that change them and tell the operator whether running browsers have to *)
(* be reopened (api/groups.go, mcp/server.go), and the deletion of         *)
(* profiles and groups whose browsers run or are about to.                 *)
(*                                                                         *)
(* How sessions and launches come and go is BrowserManager's; here they    *)
(* only carry a route, the proxy they use or NoProxy.                      *)
(***************************************************************************)
EXTENDS Naturals

CONSTANTS
  Profiles, Groups, Proxies, Threads,
  NoProfile, NoGroup, NoProxy, NoPolicy, NoSession, NoThread

Routes == Proxies \cup {NoProxy}
Policy == [mode : {"default", "enforced"}, proxy : Proxies]

ASSUME RoutingAssumption ==
  /\ NoProfile \notin Profiles /\ NoGroup \notin Groups /\ NoThread \notin Threads
  /\ NoProxy \notin Proxies /\ NoSession \notin Routes
  /\ NoPolicy \notin Policy

VARIABLES
  stored,        \* the profiles in the store
  group, proxy,  \* of each profile object, also of a deleted one that somebody still holds
  policy,        \* groups.Store.groups
  sessions,      \* the route of each profile's browser
  mu,            \* the launch that holds Manager.mu
  pc, prof, label,
  seen,          \* the policy that a launch has read
  route,         \* the proxy it has decided on
  retried,       \* it has used its second attempt
  todo,          \* the sessions that were counted, or the profiles still to be looked at
  excused,       \* history: profiles of which a caller knows, or can know, that their browser
                 \* may use another proxy
  late,          \* history: profiles whose launch began when the deletion of their group had
                 \* already counted the group's sessions
  overtaken      \* history: profiles deleted by REST, or by a tool while they were opened

storeVars == <<stored, group, proxy, policy>>
callVars  == <<pc, prof, label, seen, route, retried, todo>>
histVars  == <<excused, late, overtaken>>
vars      == <<storeVars, sessions, mu, callVars, histVars>>

Launching == {"launch", "proxy", "start"}

TypeOK ==
  /\ stored \in SUBSET Profiles
  /\ group \in [Profiles -> Groups \cup {NoGroup}]
  /\ proxy \in [Profiles -> Routes]
  /\ policy \in [Groups -> Policy \cup {NoPolicy}]
  /\ sessions \in [Profiles -> Routes \cup {NoSession}]
  /\ mu \in Threads \cup {NoThread}
  /\ pc \in [Threads -> Launching \cup {"idle", "open", "delete", "count", "answer",
                                        "check", "decide", "ungroup", "take out"}]
  /\ prof \in [Threads -> Profiles \cup {NoProfile}]
  /\ label \in [Threads -> Groups \cup {NoGroup}]
  /\ seen \in [Threads -> Policy \cup {NoPolicy}]
  /\ route \in [Threads -> Routes]
  /\ retried \in [Threads -> BOOLEAN]
  /\ todo \in [Threads -> SUBSET Profiles]
  /\ excused \in SUBSET Profiles /\ late \in SUBSET Profiles /\ overtaken \in SUBSET Profiles
  /\ \A t \in Threads :
       /\ pc[t] \in Launching <=> mu = t
       /\ pc[t] \in Launching \cup {"open", "delete", "take out"} => prof[t] \in Profiles
       /\ pc[t] \in {"count", "answer", "check", "decide", "ungroup", "take out"} => label[t] \in Groups

Init ==
  /\ stored = {}
  /\ group = [p \in Profiles |-> NoGroup]
  /\ proxy = [p \in Profiles |-> NoProxy]
  /\ policy = [g \in Groups |-> NoPolicy]
  /\ sessions = [p \in Profiles |-> NoSession]
  /\ mu = NoThread
  /\ pc = [t \in Threads |-> "idle"]
  /\ prof = [t \in Threads |-> NoProfile]
  /\ label = [t \in Threads |-> NoGroup]
  /\ seen = [t \in Threads |-> NoPolicy]
  /\ route = [t \in Threads |-> NoProxy]
  /\ retried = [t \in Threads |-> FALSE]
  /\ todo = [t \in Threads |-> {}]
  /\ excused = {} /\ late = {} /\ overtaken = {}

-----------------------------------------------------------------------------
Goto(t, l) == pc' = [pc EXCEPT ![t] = l]

Return(t) ==
  /\ Goto(t, "idle")
  /\ prof' = [prof EXCEPT ![t] = NoProfile]
  /\ label' = [label EXCEPT ![t] = NoGroup]
  /\ seen' = [seen EXCEPT ![t] = NoPolicy]
  /\ route' = [route EXCEPT ![t] = NoProxy]
  /\ retried' = [retried EXCEPT ![t] = FALSE]
  /\ todo' = [todo EXCEPT ![t] = {}]

Members(g) == {p \in stored : group[p] = g}

\* Store.EffectiveProxy: an enforced policy, else the profile's proxy, else the policy.
EffectiveProxy(pol, own) ==
  IF pol # NoPolicy /\ (pol.mode = "enforced" \/ own = NoProxy) THEN pol.proxy ELSE own

PolicyOf(p) == IF group[p] = NoGroup THEN NoPolicy ELSE policy[group[p]]
Effective(p) == EffectiveProxy(PolicyOf(p), proxy[p])

\* The deletion of p's group has counted sessions and goes on, or is about to take p out.
Deleting(p) ==
  \E t \in Threads :
    \/ pc[t] \in {"decide", "ungroup", "take out"} /\ label[t] = group[p]
    \/ pc[t] = "take out" /\ prof[t] = p

-----------------------------------------------------------------------------
\* createSession, open_browser, ensureProfilePool: they look the profile up and launch it.
OpenBrowser(t, p) ==
  /\ pc[t] = "idle"
  /\ p \in stored
  /\ Goto(t, "open")
  /\ prof' = [prof EXCEPT ![t] = p]
  /\ overtaken' = IF \E u \in Threads : pc[u] = "delete" /\ prof[u] = p
                    THEN overtaken \cup {p} ELSE overtaken
  /\ UNCHANGED <<storeVars, sessions, mu, label, seen, route, retried, todo, excused, late>>

UseSession(t) ==
  /\ pc[t] = "open" /\ mu = NoThread
  /\ sessions[prof[t]] # NoSession
  /\ Return(t)
  /\ UNCHANGED <<storeVars, sessions, mu, histVars>>

\* Mutant: Manager.mu is taken only to publish the session.
LaunchSession_Unlocked(t) ==
  /\ pc[t] = "open" /\ mu = NoThread
  /\ sessions' = [sessions EXCEPT ![prof[t]] = NoSession]
  /\ Goto(t, "launch")
  /\ UNCHANGED <<storeVars, mu, prof, label, seen, route, retried, todo, histVars>>

\* There is no session, or its endpoint is not healthy.
LaunchSession(t) ==
  /\ pc[t] = "open" /\ mu = NoThread
  /\ mu' = t
  /\ sessions' = [sessions EXCEPT ![prof[t]] = NoSession]
  /\ Goto(t, "launch")
  /\ UNCHANGED <<storeVars, prof, label, seen, route, retried, todo, histVars>>

\* EffectiveProxy reads the profile's group and its policy, and then, without a lock that
\* would keep Update away, the profile's proxy.
ReadPolicy(t) ==
  /\ pc[t] = "launch"
  /\ seen' = [seen EXCEPT ![t] = PolicyOf(prof[t])]
  /\ Goto(t, "proxy")
  /\ excused' = excused \ {prof[t]}
  /\ late' = IF Deleting(prof[t]) THEN late \cup {prof[t]} ELSE late \ {prof[t]}
  /\ UNCHANGED <<storeVars, sessions, mu, prof, label, route, retried, todo, overtaken>>

ReadProxy(t) ==
  /\ pc[t] = "proxy"
  /\ route' = [route EXCEPT ![t] = EffectiveProxy(seen[t], proxy[prof[t]])]
  /\ Goto(t, "start")
  /\ UNCHANGED <<storeVars, sessions, mu, prof, label, seen, retried, todo, histVars>>

BrowserStarts(t) ==
  /\ pc[t] = "start"
  /\ sessions' = [sessions EXCEPT ![prof[t]] = route[t]]
  /\ mu' = NoThread
  /\ Return(t)
  /\ UNCHANGED <<storeVars, histVars>>

DropSessions == sessions' = [p \in Profiles |-> NoSession]

\* The safe-GPU fallback restarts the driver and goes on with the proxy it has read.
SafeGpuFallback(t) ==
  /\ pc[t] = "start"
  /\ DropSessions
  /\ UNCHANGED <<storeVars, mu, callVars, histVars>>

\* The second attempt reads everything again.
RetryLaunch(t) ==
  /\ pc[t] = "start" /\ ~retried[t]
  /\ DropSessions
  /\ retried' = [retried EXCEPT ![t] = TRUE]
  /\ Goto(t, "launch")
  /\ UNCHANGED <<storeVars, mu, prof, label, seen, route, todo, histVars>>

LaunchFails(t) ==
  /\ pc[t] \in Launching
  /\ mu' = NoThread
  /\ Return(t)
  /\ UNCHANGED <<storeVars, sessions, histVars>>

CloseSession(p) ==
  /\ mu = NoThread
  /\ sessions[p] # NoSession
  /\ sessions' = [sessions EXCEPT ![p] = NoSession]
  /\ UNCHANGED <<storeVars, mu, callVars, histVars>>

-----------------------------------------------------------------------------
\* An ID is random: here, one of a profile that nobody refers to.
CreateProfile(p, g, x) ==
  /\ p \notin stored /\ sessions[p] = NoSession
  /\ \A t \in Threads : prof[t] # p /\ p \notin todo[t]
  /\ stored' = stored \cup {p}
  /\ group' = [group EXCEPT ![p] = g]
  /\ proxy' = [proxy EXCEPT ![p] = x]
  /\ overtaken' = overtaken \ {p}
  /\ UNCHANGED <<policy, sessions, mu, callVars, excused, late>>

\* Store.Update: whoever changes a profile's own group or proxy is told nothing.
UpdateProfile(p, g, x) ==
  /\ p \in stored
  /\ group' = [group EXCEPT ![p] = g]
  /\ proxy' = [proxy EXCEPT ![p] = x]
  /\ excused' = excused \cup {p}
  /\ UNCHANGED <<stored, policy, sessions, mu, callVars, late, overtaken>>

\* deleteProfile of REST does not know of browsers.
DeleteProfile(p) ==
  /\ p \in stored
  /\ stored' = stored \ {p}
  /\ overtaken' = overtaken \cup {p}
  /\ UNCHANGED <<group, proxy, policy, sessions, mu, callVars, excused, late>>

\* Mutant: delete_profile leaves the browser to whoever has opened it.
DeleteTool_LeavesBrowser(t, p) ==
  /\ pc[t] = "idle" /\ mu = NoThread
  /\ Goto(t, "delete")
  /\ prof' = [prof EXCEPT ![t] = p]
  /\ overtaken' = IF \E u \in Threads : pc[u] = "open" /\ prof[u] = p
                    THEN overtaken \cup {p} ELSE overtaken
  /\ UNCHANGED <<storeVars, sessions, mu, label, seen, route, retried, todo, excused, late>>

\* delete_profile closes the browser, if there is one, and then deletes the profile.
DeleteTool(t, p) ==
  /\ pc[t] = "idle" /\ mu = NoThread
  /\ sessions' = [sessions EXCEPT ![p] = NoSession]
  /\ Goto(t, "delete")
  /\ prof' = [prof EXCEPT ![t] = p]
  /\ overtaken' = IF \E u \in Threads : pc[u] = "open" /\ prof[u] = p
                    THEN overtaken \cup {p} ELSE overtaken
  /\ UNCHANGED <<storeVars, mu, label, seen, route, retried, todo, excused, late>>

Deleted(t) ==
  /\ pc[t] = "delete"
  /\ stored' = stored \ {prof[t]}
  /\ Return(t)
  /\ UNCHANGED <<group, proxy, policy, sessions, mu, histVars>>

-----------------------------------------------------------------------------
\* upsertGroup, clearGroupProxy and their tools change the policy, then count sessions.
ChangePolicy(t, g, pol) ==
  /\ pc[t] = "idle"
  /\ policy' = [policy EXCEPT ![g] = pol]
  /\ Goto(t, "count")
  /\ label' = [label EXCEPT ![t] = g]
  /\ UNCHANGED <<stored, group, proxy, sessions, mu, prof, seen, route, retried, todo, histVars>>

\* The policy has changed in memory although it could not be saved, or came with a
\* restored backup: the answer says nothing of browsers.
ChangePolicySilently(g, pol) ==
  /\ policy' = [policy EXCEPT ![g] = pol]
  /\ excused' = excused \cup {p \in Profiles : group[p] = g}
  /\ UNCHANGED <<stored, group, proxy, sessions, mu, callVars, late, overtaken>>

\* Mutant: the list does not wait for a launch in progress.
ListSessions_Unlocked(t) ==
  /\ pc[t] \in {"count", "check"}
  /\ todo' = [todo EXCEPT ![t] = {p \in Profiles : sessions[p] # NoSession}]
  /\ Goto(t, IF pc[t] = "count" THEN "answer" ELSE "decide")
  /\ UNCHANGED <<storeVars, sessions, mu, prof, label, seen, route, retried, histVars>>

\* Manager.ListSessions takes the lock that a launch holds from its first step to its last.
ListSessions(t) ==
  /\ pc[t] \in {"count", "check"} /\ mu = NoThread
  /\ todo' = [todo EXCEPT ![t] = {p \in Profiles : sessions[p] # NoSession}]
  /\ Goto(t, IF pc[t] = "count" THEN "answer" ELSE "decide")
  /\ UNCHANGED <<storeVars, sessions, mu, prof, label, seen, route, retried, histVars>>

Active(t) == todo[t] \cap Members(label[t])

\* active_sessions and restart_required: the counted sessions of the group are announced.
Answer(t) ==
  /\ pc[t] = "answer"
  /\ excused' = excused \cup Active(t)
  /\ Return(t)
  /\ UNCHANGED <<storeVars, sessions, mu, late, overtaken>>

-----------------------------------------------------------------------------
\* deleteGroup: sessions are counted before anything changes.
DeleteGroup(t, g) ==
  /\ pc[t] = "idle"
  /\ Goto(t, "check")
  /\ label' = [label EXCEPT ![t] = g]
  /\ UNCHANGED <<storeVars, sessions, mu, prof, seen, route, retried, todo, histVars>>

\* 409 GROUP_HAS_ACTIVE_SESSIONS
Refuse(t) ==
  /\ pc[t] = "decide"
  /\ Active(t) # {}
  /\ Return(t)
  /\ UNCHANGED <<storeVars, sessions, mu, histVars>>

ListProfiles(t) ==
  /\ pc[t] = "decide"
  /\ Active(t) = {}
  /\ todo' = [todo EXCEPT ![t] = stored]
  /\ Goto(t, "ungroup")
  /\ UNCHANGED <<storeVars, sessions, mu, prof, label, seen, route, retried, histVars>>

OtherGroup(t, p) ==
  /\ pc[t] = "ungroup"
  /\ p \in todo[t] /\ group[p] # label[t]
  /\ todo' = [todo EXCEPT ![t] = @ \ {p}]
  /\ UNCHANGED <<storeVars, sessions, mu, pc, prof, label, seen, route, retried, histVars>>

SameGroup(t, p) ==
  /\ pc[t] = "ungroup"
  /\ p \in todo[t] /\ group[p] = label[t]
  /\ todo' = [todo EXCEPT ![t] = @ \ {p}]
  /\ prof' = [prof EXCEPT ![t] = p]
  /\ Goto(t, "take out")
  /\ UNCHANGED <<storeVars, sessions, mu, label, seen, route, retried, histVars>>

\* The update takes the profile out of whatever group it is in by now.
Ungroup(t) ==
  /\ pc[t] = "take out"
  /\ prof[t] \in stored
  /\ group' = [group EXCEPT ![prof[t]] = NoGroup]
  /\ \/ Goto(t, "ungroup") /\ prof' = [prof EXCEPT ![t] = NoProfile]
        /\ UNCHANGED <<label, seen, route, retried, todo>>
     \/ Return(t)   \* it could not be saved
  /\ UNCHANGED <<stored, proxy, policy, sessions, mu, histVars>>

UngroupNotFound(t) ==
  /\ pc[t] = "take out"
  /\ prof[t] \notin stored
  /\ Return(t)
  /\ UNCHANGED <<storeVars, sessions, mu, histVars>>

\* ClearProxy; the answer says that no restart is required.
ClearGroup(t) ==
  /\ pc[t] = "ungroup" /\ todo[t] = {}
  /\ policy' = [policy EXCEPT ![label[t]] = NoPolicy]
  /\ Return(t)
  /\ UNCHANGED <<stored, group, proxy, sessions, mu, histVars>>

-----------------------------------------------------------------------------
LaunchStep(t) ==
  \/ \E p \in Profiles : OpenBrowser(t, p)
  \/ UseSession(t) \/ LaunchSession(t) \/ ReadPolicy(t) \/ ReadProxy(t)
  \/ BrowserStarts(t) \/ SafeGpuFallback(t) \/ RetryLaunch(t) \/ LaunchFails(t)

DeleteStep(t) ==
  \/ \E p \in Profiles : DeleteTool(t, p)
  \/ Deleted(t)

GroupStep(t) ==
  \/ \E g \in Groups, pol \in Policy \cup {NoPolicy} : ChangePolicy(t, g, pol)
  \/ ListSessions(t) \/ Answer(t)
  \/ \E g \in Groups : DeleteGroup(t, g)
  \/ Refuse(t) \/ ListProfiles(t)
  \/ \E p \in Profiles : OtherGroup(t, p) \/ SameGroup(t, p)
  \/ Ungroup(t) \/ UngroupNotFound(t) \/ ClearGroup(t)

Next ==
  \/ \E t \in Threads : LaunchStep(t) \/ DeleteStep(t) \/ GroupStep(t)
  \/ \E p \in Profiles : CloseSession(p) \/ DeleteProfile(p)
  \/ \E p \in Profiles, g \in Groups \cup {NoGroup}, x \in Routes :
       CreateProfile(p, g, x) \/ UpdateProfile(p, g, x)
  \/ \E g \in Groups, pol \in Policy \cup {NoPolicy} : ChangePolicySilently(g, pol)

Spec == Init /\ [][Next]_vars

-----------------------------------------------------------------------------
\* The browser of p goes through another proxy than a new one would.
Stale(p) == p \in stored /\ sessions[p] \notin {NoSession, Effective(p)}

\* A caller still waits for the answer to a change of the policy of p's group.
Pending(p) == \E t \in Threads : pc[t] \in {"count", "answer"} /\ label[t] = group[p]

\* API.md:218 "callers can warn operators when existing browsers need to be reopened",
\* API.md:224 "close those browsers first so runtime proxy state cannot become ambiguous":
\* a browser that runs on, or comes up, with an outdated proxy was announced, or kept its
\* group from being deleted, however launches, retries, changes of policies and deletions
\* overlap; only a launch that began after deleteGroup had counted escapes.
OutdatedIsAnnounced ==
  \A p \in Profiles : Stale(p) => p \in excused \cup late \/ Pending(p)

\* delete_profile leaves no browser behind that an overlapping call has not opened.
DeletedIsClosed ==
  \A p \in Profiles \ stored : sessions[p] # NoSession => p \in overtaken

\* What this module assumes of browser.Manager is what BrowserManager keeps: launches overlap
\* neither each other nor a list of sessions.
Table == INSTANCE SessionTable WITH
  launching <- {prof[t] : t \in {u \in Threads : pc[u] \in Launching}},
  listed    <- {p \in Profiles : sessions[p] # NoSession}
ImplementsSessionTable == Table!Spec
=============================================================================
