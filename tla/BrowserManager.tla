--------------------------- MODULE BrowserManager ---------------------------
(***************************************************************************)
(* browser.Manager: the map of running profile browsers, the launch with   *)
(* its two attempts and its safe-GPU fallback, the Playwright driver that  *)
(* every browser hangs from, and the SOCKS5 relay a browser may need.      *)
(* Callers contend for Manager.mu; browsers and the driver die on their    *)
(* own.  One element of Browsers is one persistent context the manager     *)
(* tried to open, with its relay; it is reused once nothing is left of it. *)
(***************************************************************************)
EXTENDS Naturals, FiniteSets

CONSTANTS
  Profiles, Threads, Browsers,
  NoBrowser, NoThread, NoProfile,
  Proxied,       \* profiles whose effective proxy is SOCKS5 with a username
  GpuFallback,   \* profiles whose runtime settings ask for auto_safe_gpu_fallback
  LossyClose     \* may a Context.Close or driver Stop that fails leave processes?

ASSUME ManagerAssumption ==
  /\ NoBrowser \notin Browsers
  /\ NoThread \notin Threads
  /\ NoProfile \notin Profiles
  /\ Proxied \subseteq Profiles
  /\ GpuFallback \subseteq Profiles
  /\ LossyClose \in BOOLEAN

VARIABLES
  mu,        \* the thread that holds Manager.mu
  pc,        \* where each caller is in LaunchSession
  target,    \* the profile its call is about
  attempt,   \* LaunchSession's loop counter
  safeGpu,   \* launchChromium's fallbackAttempted
  restarts,  \* driver restarts of the call so far
  cur,       \* the context the call is opening
  sessions,  \* Manager.sessions, by profile: a session's ID is "sess_" + profile ID
  driver,    \* Manager.pw: nil, running, or a process that is gone
  proc,      \* the browser process of each context
  owner,     \* the profile whose user data directory it runs on
  fresh,     \* launched by the driver that Manager.pw holds now?
  relay,     \* the context's SOCKS5Relay: none, listening, or Close was called
  tunnel     \* does a connection of the browser run through the relay?

callVars == <<pc, target, attempt, safeGpu, restarts, cur>>
ctxVars  == <<proc, tunnel, owner, fresh, relay>>
vars     == <<mu, callVars, sessions, driver, ctxVars>>

Idle     == "idle"
PC       == {Idle, "existing", "launch", "open", "post", "discard", "bind", "failed",
             "fallback", "retry", "closing", "shutdown"}
Failures == {"plain", "transient", "gpu"}

TypeOK ==
  /\ mu \in Threads \cup {NoThread}
  /\ pc \in [Threads -> PC]
  /\ target \in [Threads -> Profiles \cup {NoProfile}]
  /\ attempt \in [Threads -> 1..2]
  /\ safeGpu \in [Threads -> BOOLEAN]
  /\ restarts \in [Threads -> Nat]
  /\ cur \in [Threads -> Browsers \cup {NoBrowser}]
  /\ sessions \in [Profiles -> Browsers \cup {NoBrowser}]
  /\ driver \in {"up", "dead", "nil"}
  /\ proc \in [Browsers -> {"none", "live"}]
  /\ owner \in [Browsers -> Profiles \cup {NoProfile}]
  /\ fresh \in [Browsers -> BOOLEAN]
  /\ relay \in [Browsers -> {"none", "open", "closed"}]
  /\ tunnel \in [Browsers -> BOOLEAN]

Init ==
  /\ mu = NoThread
  /\ pc = [t \in Threads |-> Idle]
  /\ target = [t \in Threads |-> NoProfile]
  /\ attempt = [t \in Threads |-> 1]
  /\ safeGpu = [t \in Threads |-> FALSE]
  /\ restarts = [t \in Threads |-> 0]
  /\ cur = [t \in Threads |-> NoBrowser]
  /\ sessions = [p \in Profiles |-> NoBrowser]
  /\ driver = "up"
  /\ proc = [b \in Browsers |-> "none"]
  /\ owner = [b \in Browsers |-> NoProfile]
  /\ fresh = [b \in Browsers |-> FALSE]
  /\ relay = [b \in Browsers |-> "none"]
  /\ tunnel = [b \in Browsers |-> FALSE]

-----------------------------------------------------------------------------
Mapped == {b \in Browsers : \E p \in Profiles : sessions[p] = b}
Live   == {b \in Browsers : proc[b] = "live"}

\* Nothing is left of b: a later launch may stand for it.
Unused(b) ==
  /\ proc[b] = "none" /\ relay[b] # "open"
  /\ b \notin Mapped
  /\ \A t \in Threads : cur[t] # b

\* The relays in whose Close, holding Manager.mu, a caller still waits: the
\* handlers of a closed relay run until the browser ends its connections.
Waiting == {b \in Browsers : relay[b] = "closed" /\ tunnel[b]}

\* What a health check over the session's endpoint can see.
Serves(b) == proc[b] = "live" /\ fresh[b] /\ driver = "up"

\* A process ends, and its connections with it.
Exit(S) ==
  /\ proc' = [b \in Browsers |-> IF b \in S THEN "none" ELSE proc[b]]
  /\ tunnel' = [b \in Browsers |-> tunnel[b] /\ b \notin S]

\* Closing contexts, or stopping their driver, ends the processes in S; an
\* error is only logged, and may leave some of them running.
EndProcesses(S) == \E kept \in IF LossyClose THEN SUBSET S ELSE {{}} : Exit(S \ kept)

CloseRelays(S) ==
  relay' = [b \in Browsers |-> IF b \in S /\ relay[b] = "open" THEN "closed" ELSE relay[b]]

\* The deferred unlock: the call returns, or its panic is recovered upstream.
Return(t) ==
  /\ mu' = NoThread
  /\ pc' = [pc EXCEPT ![t] = Idle]
  /\ attempt' = [attempt EXCEPT ![t] = 1]
  /\ safeGpu' = [safeGpu EXCEPT ![t] = FALSE]
  /\ restarts' = [restarts EXCEPT ![t] = 0]
  /\ cur' = [cur EXCEPT ![t] = NoBrowser]
  /\ target' = [target EXCEPT ![t] = NoProfile]

Goto(t, l) ==
  /\ pc' = [pc EXCEPT ![t] = l]
  /\ UNCHANGED <<mu, target, attempt, safeGpu, restarts>>

\* Mutant: the loop forgets which attempt it is in.
RetryOrFail_Always(t, retryable) ==
  IF retryable
  THEN Goto(t, "retry") /\ cur' = [cur EXCEPT ![t] = NoBrowser]
  ELSE Return(t)

\* LaunchSession's error path: a retryable first attempt restarts the driver.
RetryOrFail(t, retryable) ==
  IF attempt[t] = 1 /\ retryable
  THEN Goto(t, "retry") /\ cur' = [cur EXCEPT ![t] = NoBrowser]
  ELSE Return(t)

\* closeSessionResources: the context first, then its relay.
CloseResources(b) ==
  /\ EndProcesses({b})
  /\ CloseRelays({b})
  /\ UNCHANGED <<owner, fresh>>

-----------------------------------------------------------------------------
\* Mutant: the lookup and the launch are not under one lock.
LaunchSession_Unlocked(t, p) ==
  /\ pc[t] = Idle
  /\ mu' = t
  /\ target' = [target EXCEPT ![t] = p]
  /\ pc' = [pc EXCEPT ![t] = "existing"]
  /\ UNCHANGED <<attempt, safeGpu, restarts, cur, sessions, driver, ctxVars>>

LaunchSession(t, p) ==
  /\ pc[t] = Idle
  /\ mu = NoThread
  /\ mu' = t
  /\ target' = [target EXCEPT ![t] = p]
  /\ pc' = [pc EXCEPT ![t] = "existing"]
  /\ UNCHANGED <<attempt, safeGpu, restarts, cur, sessions, driver, ctxVars>>

\* The profile's session answers the health check and is returned.
ReuseSession(t) ==
  /\ pc[t] = "existing"
  /\ sessions[target[t]] # NoBrowser
  /\ Serves(sessions[target[t]])
  /\ Return(t)
  /\ UNCHANGED <<sessions, driver, ctxVars>>

\* Mutant: a stale session is only deleted from the map.
DropStaleSession_MapOnly(t) ==
  /\ pc[t] = "existing"
  /\ sessions[target[t]] # NoBrowser
  /\ sessions' = [sessions EXCEPT ![target[t]] = NoBrowser]
  /\ Goto(t, "launch")
  /\ UNCHANGED <<cur, driver, ctxVars>>

\* It does not answer in time, whatever the reason: close it and forget it.
DropStaleSession(t) ==
  /\ pc[t] = "existing"
  /\ sessions[target[t]] # NoBrowser
  /\ CloseResources(sessions[target[t]])
  /\ sessions' = [sessions EXCEPT ![target[t]] = NoBrowser]
  /\ Goto(t, "launch")
  /\ UNCHANGED <<cur, driver>>

NoSession(t) ==
  /\ pc[t] = "existing"
  /\ sessions[target[t]] = NoBrowser
  /\ Goto(t, "launch")
  /\ UNCHANGED <<cur, sessions, driver, ctxVars>>

\* Everything launchProfile, launchChromium and launchFirefox refuse before a
\* browser is started; none of these errors is retryable.
LaunchRejected(t) ==
  /\ pc[t] = "launch"
  /\ Return(t)
  /\ UNCHANGED <<sessions, driver, ctxVars>>

\* The launch closure: the relay, then the browser.
OpenContext(t) ==
  /\ pc[t] = "launch"
  /\ \E b \in Browsers :
       /\ Unused(b)
       /\ cur' = [cur EXCEPT ![t] = b]
       /\ owner' = [owner EXCEPT ![b] = target[t]]
       /\ fresh' = [fresh EXCEPT ![b] = TRUE]
       /\ relay' = [relay EXCEPT ![b] = IF target[t] \in Proxied THEN "open" ELSE "none"]
  /\ Goto(t, "open")
  /\ UNCHANGED <<sessions, driver, proc, tunnel>>

LaunchStarted(t) ==
  /\ pc[t] = "open"
  /\ driver = "up"
  /\ proc' = [proc EXCEPT ![cur[t]] = "live"]
  /\ Goto(t, "post")
  /\ UNCHANGED <<cur, sessions, driver, tunnel, owner, fresh, relay>>

\* Mutant: the launch closure returns its error without closing the relay.
LaunchFailed_KeepsRelay(t, why) ==
  /\ pc[t] = "open"
  /\ driver # "nil"
  /\ RetryOrFail(t, why # "plain" /\ ~safeGpu[t])
  /\ UNCHANGED <<sessions, driver, ctxVars>>

LaunchFailed(t, why) ==
  /\ pc[t] = "open"
  /\ driver # "nil"
  /\ CloseRelays({cur[t]})
  /\ IF ~safeGpu[t] /\ why = "gpu" /\ target[t] \in GpuFallback
     THEN Goto(t, "fallback") /\ cur' = [cur EXCEPT ![t] = NoBrowser]
     ELSE RetryOrFail(t, why # "plain" /\ ~safeGpu[t])   \* noManagerRetryError
  /\ UNCHANGED <<sessions, driver, proc, tunnel, owner, fresh>>

\* Mutant: Manager.mu is unlocked on the return paths, not by a defer.
LaunchPanics_NoDefer(t) ==
  /\ pc[t] = "open"
  /\ driver = "nil"
  /\ pc' = [pc EXCEPT ![t] = Idle]
  /\ UNCHANGED <<mu, target, attempt, safeGpu, restarts, cur, sessions, driver, ctxVars>>

\* m.pw.Chromium with m.pw = nil: the panic unwinds past relay.Close.
LaunchPanics(t) ==
  /\ pc[t] = "open"
  /\ driver = "nil"
  /\ Return(t)
  /\ UNCHANGED <<sessions, driver, ctxVars>>

PagePrepared(t) ==
  /\ pc[t] = "post"
  /\ Goto(t, "bind")
  /\ UNCHANGED <<cur, sessions, driver, ctxVars>>

\* Init scripts, or the first page, fail: here the relay is closed first.
PrepareFailed(t) ==
  /\ pc[t] = "post"
  /\ CloseRelays({cur[t]})
  /\ Goto(t, "discard")
  /\ UNCHANGED <<cur, sessions, driver, proc, tunnel, owner, fresh>>

\* Mutant: the launcher returns the error without closing the context.
DiscardContext_KeepsContext(t, why) ==
  /\ pc[t] = "discard"
  /\ RetryOrFail(t, why # "plain")
  /\ UNCHANGED <<sessions, driver, ctxVars>>

\* ... and the context once the relay's tunnels are gone.
DiscardContext(t, why) ==
  /\ pc[t] = "discard"
  /\ EndProcesses({cur[t]})
  /\ RetryOrFail(t, why # "plain")
  /\ UNCHANGED <<sessions, driver, owner, fresh, relay>>

\* Bind and its health check succeed: the session is published.
EndpointReady(t) ==
  /\ pc[t] = "bind"
  /\ Serves(cur[t])
  /\ sessions' = [sessions EXCEPT ![target[t]] = cur[t]]
  /\ Return(t)
  /\ UNCHANGED <<driver, ctxVars>>

EndpointFailed(t) ==
  /\ pc[t] = "bind"
  /\ CloseResources(cur[t])
  /\ Goto(t, "failed")
  /\ UNCHANGED <<cur, sessions, driver>>

\* A failed Bind or health check is always retryable.
AttemptFailed(t) ==
  /\ pc[t] = "failed"
  /\ RetryOrFail(t, TRUE)
  /\ UNCHANGED <<sessions, driver, ctxVars>>

\* One turn of dropSessionsLocked, before a restart: the session's relay is
\* closed and waited for, its context is left to die with the old driver.
DropSession(t, p) ==
  /\ pc[t] \in {"fallback", "retry"}
  /\ sessions[p] # NoBrowser
  /\ CloseRelays({sessions[p]})
  /\ sessions' = [sessions EXCEPT ![p] = NoBrowser]
  /\ UNCHANGED <<mu, callVars, driver, proc, tunnel, owner, fresh>>

\* restartPlaywright: stop the old driver, run a new one or be left with nil.
RestartDriver(up) ==
  /\ EndProcesses(Browsers)
  /\ fresh' = [b \in Browsers |-> FALSE]
  /\ driver' = IF up THEN "up" ELSE "nil"
  /\ UNCHANGED <<sessions, owner, relay>>

\* Mutant: the driver is restarted under the sessions that hang from it.
SafeGpuFallback_KeepsSessions(t) ==
  /\ pc[t] = "fallback"
  /\ RestartDriver(TRUE)
  /\ pc' = [pc EXCEPT ![t] = "launch"]
  /\ safeGpu' = [safeGpu EXCEPT ![t] = TRUE]
  /\ restarts' = [restarts EXCEPT ![t] = @ + 1]
  /\ UNCHANGED <<mu, target, attempt, cur>>

\* launchChromium's fallback: launch again with the safe GPU arguments.
SafeGpuFallback(t) ==
  /\ pc[t] = "fallback" /\ Mapped = {}
  /\ RestartDriver(TRUE)
  /\ pc' = [pc EXCEPT ![t] = "launch"]
  /\ safeGpu' = [safeGpu EXCEPT ![t] = TRUE]
  /\ restarts' = [restarts EXCEPT ![t] = @ + 1]
  /\ UNCHANGED <<mu, target, attempt, cur>>

SafeGpuFallbackFailed(t) ==
  /\ pc[t] = "fallback" /\ Mapped = {}
  /\ RestartDriver(FALSE)
  /\ RetryOrFail(t, TRUE)

\* LaunchSession's second attempt, with the profile's own arguments again.
RetryLaunch(t) ==
  /\ pc[t] = "retry" /\ Mapped = {}
  /\ RestartDriver(TRUE)
  /\ pc' = [pc EXCEPT ![t] = "launch"]
  /\ attempt' = [attempt EXCEPT ![t] = @ + 1]
  /\ safeGpu' = [safeGpu EXCEPT ![t] = FALSE]
  /\ restarts' = [restarts EXCEPT ![t] = @ + 1]
  /\ UNCHANGED <<mu, target, cur>>

RetryLaunchFailed(t) ==
  /\ pc[t] = "retry" /\ Mapped = {}
  /\ RestartDriver(FALSE)
  /\ Return(t)

CloseSession(t, p) ==
  /\ pc[t] = Idle
  /\ mu = NoThread
  /\ sessions[p] # NoBrowser
  /\ CloseResources(sessions[p])
  /\ sessions' = [sessions EXCEPT ![p] = NoBrowser]
  /\ mu' = t
  /\ pc' = [pc EXCEPT ![t] = "closing"]
  /\ UNCHANGED <<target, attempt, safeGpu, restarts, cur, driver>>

SessionClosed(t) ==
  /\ pc[t] = "closing"
  /\ Return(t)
  /\ UNCHANGED <<sessions, driver, ctxVars>>

\* Manager.Close: every session in turn, then the driver.
Close(t) ==
  /\ pc[t] = Idle
  /\ mu = NoThread
  /\ mu' = t
  /\ pc' = [pc EXCEPT ![t] = "shutdown"]
  /\ UNCHANGED <<target, attempt, safeGpu, restarts, cur, sessions, driver, ctxVars>>

CloseNext(t, p) ==
  /\ pc[t] = "shutdown"
  /\ sessions[p] # NoBrowser
  /\ CloseResources(sessions[p])
  /\ sessions' = [sessions EXCEPT ![p] = NoBrowser]
  /\ UNCHANGED <<mu, callVars, driver>>

\* The driver is stopped but pw is kept, so a late call still runs.
StopDriver(t) ==
  /\ pc[t] = "shutdown" /\ Mapped = {}
  /\ EndProcesses(Browsers)
  /\ driver' = IF driver = "nil" THEN "nil" ELSE "dead"
  /\ Return(t)
  /\ UNCHANGED <<sessions, owner, fresh, relay>>

-----------------------------------------------------------------------------
\* A browser dies, or its user closes the window.
BrowserExits(b) ==
  /\ proc[b] = "live"
  /\ Exit({b})
  /\ UNCHANGED <<mu, callVars, sessions, driver, owner, fresh, relay>>

\* The driver process dies, and the browsers it runs with it.
DriverExits ==
  /\ driver = "up"
  /\ driver' = "dead"
  /\ Exit({b \in Browsers : fresh[b]})
  /\ UNCHANGED <<mu, callVars, sessions, owner, fresh, relay>>

\* A page connects through the relay while its listener is open; SOCKS5Relay
\* sets no deadline, so the tunnel lasts until the browser or its peer ends it.
TunnelOpens(b) ==
  /\ proc[b] = "live" /\ relay[b] = "open" /\ ~tunnel[b]
  /\ tunnel' = [tunnel EXCEPT ![b] = TRUE]
  /\ UNCHANGED <<mu, callVars, sessions, driver, proc, owner, fresh, relay>>

TunnelEnds(b) ==
  /\ tunnel[b]
  /\ tunnel' = [tunnel EXCEPT ![b] = FALSE]
  /\ UNCHANGED <<mu, callVars, sessions, driver, proc, owner, fresh, relay>>

\* The steps of a call in progress; a caller inside relay.Close takes none.
CallStep(t) ==
  /\ Waiting = {}
  /\ \/ ReuseSession(t) \/ DropStaleSession(t) \/ NoSession(t)
     \/ LaunchRejected(t) \/ OpenContext(t)
     \/ LaunchStarted(t) \/ LaunchPanics(t)
     \/ PrepareFailed(t) \/ PagePrepared(t)
     \/ \E why \in Failures : LaunchFailed(t, why) \/ DiscardContext(t, why)
     \/ EndpointReady(t) \/ EndpointFailed(t) \/ AttemptFailed(t)
     \/ SafeGpuFallback(t) \/ SafeGpuFallbackFailed(t)
     \/ RetryLaunch(t) \/ RetryLaunchFailed(t)
     \/ \E p \in Profiles : DropSession(t, p) \/ CloseNext(t, p)
     \/ SessionClosed(t) \/ StopDriver(t)

Environment ==
  \/ DriverExits
  \/ \E b \in Browsers : BrowserExits(b) \/ TunnelOpens(b) \/ TunnelEnds(b)

Next ==
  \/ \E t \in Threads : CallStep(t) \/ Close(t)
  \/ \E t \in Threads, p \in Profiles : LaunchSession(t, p) \/ CloseSession(t, p)
  \/ Environment

Spec == Init /\ [][Next]_vars

\* Every call the manager makes into the driver returns or times out.
FairSpec == Spec /\ \A t \in Threads : WF_vars(CallStep(t))

-----------------------------------------------------------------------------
\* One profile = one browser: two live processes never share a user data
\* directory, although failed attempts, stale sessions and driver restarts all
\* forget contexts.  Assumes that closing works (~LossyClose).
OneBrowserPerProfile ==
  \A b, c \in Live : owner[b] = owner[c] => b = c

\* Whenever Manager.mu is free, every live browser can still be found, and so
\* closed, under its profile: no error path of a launch leaves one behind.
NoOrphanBrowser ==
  mu = NoThread => \A b \in Live : owner[b] \in Profiles /\ sessions[owner[b]] = b

\* A relay outlives its session only in a manager that lost its driver: there a
\* launch panics between starting the relay and closing it.
NoOrphanRelay ==
  \A b \in Browsers :
     relay[b] = "open" => b \in Mapped \/ (\E t \in Threads : cur[t] = b) \/ driver = "nil"

\* A session callers can get is never one of a driver that was replaced, and its
\* browser still has the relay its traffic must go through.
PublishedIsCurrent ==
  \A p \in Profiles : sessions[p] # NoBrowser =>
     /\ owner[sessions[p]] = p
     /\ fresh[sessions[p]]
     /\ p \in Proxied => relay[sessions[p]] = "open"

\* Two attempts, each with one fallback, restart the driver of every profile's
\* browser at most three times in one LaunchSession.
RestartsBounded == \A t \in Threads : restarts[t] <= 3

\* Whatever the driver does, a call gives Manager.mu back, so long as no
\* browser keeps a connection through its relay open for ever.
MutexReleased ==
  (\A b \in Browsers : tunnel[b] ~> ~tunnel[b]) => (mu # NoThread ~> mu = NoThread)

\* How far each place of a call is from its end, within one launch and over the attempts,
\* each with one fallback, that it has left.
Place ==
  [idle |-> 0, closing |-> 1, shutdown |-> 2, retry |-> 5, fallback |-> 6, failed |-> 7, bind |-> 8,
   discard |-> 8, post |-> 9, open |-> 10, launch |-> 11, existing |-> 12]
Stage(t) == Place[pc[t]] + 40 * (2 - attempt[t]) + (IF safeGpu[t] THEN 0 ELSE 20)

Listed == {p \in Profiles : sessions[p] # NoBrowser}

\* Call t comes nearer to its end, or has fewer sessions left to close before it goes on.
Advances(t) ==
  \/ pc'[t] = Idle
  \/ Stage(t)' \in 0 .. Stage(t) - 1
  \/ Stage(t)' = Stage(t) /\ Listed' \subseteq Listed /\ Listed' # Listed

\* A call that holds Manager.mu does finitely many steps, however its attempts, fallbacks and
\* restarts fail, and nobody gives it more sessions to close.
CallsAdvance ==
  [][\A t \in Threads :
        /\ CallStep(t) => Advances(t)
        /\ pc[t] # Idle => Advances(t) \/ UNCHANGED <<Stage(t), Listed>>]_vars

\* The abstract table of sessions is implemented, for those who list them or count on them.
Table == INSTANCE SessionTable WITH
  launching <- {target[t] : t \in {u \in Threads : pc[u] \notin {Idle, "existing", "closing", "shutdown"}}},
  listed    <- Listed
ImplementsSessionTable == Table!Spec

\* The abstract owner of user data directories is implemented.
Ownership == INSTANCE ProfileOwnership WITH
  holders   <- [p \in Profiles |-> {b \in Live : owner[b] = p}],
  published <- {p \in Profiles : sessions[p] \in Live}
ImplementsOwnership == Ownership!Spec
=============================================================================
