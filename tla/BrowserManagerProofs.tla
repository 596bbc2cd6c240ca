------------------------ MODULE BrowserManagerProofs ------------------------
(***************************************************************************)
(* The invariants of browser.Manager, for any number of profiles, callers  *)
(* and browsers.                                                           *)
(***************************************************************************)
EXTENDS BrowserManager, TLAPS

\* Only the holder of Manager.mu is inside LaunchSession.
LockInv == \A t \in Threads : pc[t] # Idle => mu = t

\* Past the lookup, the profile being launched has no session.
TargetInv ==
  \A t \in Threads :
     pc[t] \notin {Idle, "existing", "closing", "shutdown"} => sessions[target[t]] = NoBrowser

\* Where a call has a context in its hands.
Opening == {"open", "post", "discard", "bind", "failed"}

\* A call owns a context exactly while it opens it, and nobody else knows it.
CurInv ==
  \A t \in Threads :
     /\ pc[t] \notin Opening => cur[t] = NoBrowser
     /\ pc[t] \in Opening =>
          /\ cur[t] \in Browsers \ Mapped
          /\ owner[cur[t]] = target[t]
          /\ fresh[cur[t]]
     /\ pc[t] \in {"open", "post", "bind"} /\ target[t] \in Proxied => relay[cur[t]] = "open"
     /\ pc[t] \in {"discard", "failed"} => relay[cur[t]] # "open"

\* Once a relay has been left behind, no call gets past the launch any more.
RelayInv ==
  \A b \in Browsers :
     relay[b] = "open" =>
       \/ b \in Mapped
       \/ \E t \in Threads : cur[t] = b
       \/ /\ driver = "nil"
          /\ \A t \in Threads : pc[t] \in {Idle, "existing", "launch", "open", "closing", "shutdown"}

\* The restarts a call has done, by how far it got.
RestartInv ==
  \A t \in Threads :
     /\ restarts[t] <= (IF attempt[t] = 2 THEN 2 ELSE 0) + (IF safeGpu[t] THEN 1 ELSE 0)
     /\ pc[t] = "fallback" => ~safeGpu[t]

\* A live browser is in the map, or in the hands of the call that started it, or
\* in those of a call that is about to restart its driver.
LiveInv ==
  /\ OneBrowserPerProfile
  /\ \A b \in Live :
       /\ owner[b] \in Profiles
       /\ \/ sessions[owner[b]] = b
          \/ \E t \in Threads : pc[t] \in {"post", "discard", "bind"} /\ cur[t] = b
          \/ \E t \in Threads : pc[t] \in {"fallback", "retry"}

CoreInv == LockInv /\ TargetInv /\ CurInv /\ PublishedIsCurrent /\ RelayInv /\ RestartInv

-----------------------------------------------------------------------------
USE DEF Idle, PC, Failures, Opening

\* The types of what a call, and what the manager's resources, consist of.
CallType ==
  /\ mu \in Threads \cup {NoThread}
  /\ pc \in [Threads -> PC]
  /\ target \in [Threads -> Profiles \cup {NoProfile}]
  /\ attempt \in [Threads -> 1..2]
  /\ safeGpu \in [Threads -> BOOLEAN]
  /\ restarts \in [Threads -> Nat]
  /\ cur \in [Threads -> Browsers \cup {NoBrowser}]

ResourceType ==
  /\ sessions \in [Profiles -> Browsers \cup {NoBrowser}]
  /\ driver \in {"up", "dead", "nil"}
  /\ proc \in [Browsers -> {"none", "live"}]
  /\ owner \in [Browsers -> Profiles \cup {NoProfile}]
  /\ fresh \in [Browsers -> BOOLEAN]
  /\ relay \in [Browsers -> {"none", "open", "closed"}]
  /\ tunnel \in [Browsers -> BOOLEAN]

\* The first attempt is the only one that is retried, and a call is always about
\* a profile.
CallWellFormed ==
  \A t \in Threads :
     /\ pc[t] = "retry" => attempt[t] = 1
     /\ pc[t] \notin {Idle, "closing", "shutdown"} => target[t] \in Profiles

LEMMA TypeParts == TypeOK <=> CallType /\ ResourceType
  BY DEF TypeOK, CallType, ResourceType

LEMMA ReturnType ==
  ASSUME CallType, CallWellFormed, NEW t \in Threads, Return(t)
  PROVE  CallType' /\ CallWellFormed'
  BY DEF CallType, CallWellFormed, Return

LEMMA RetryOrFailType ==
  ASSUME CallType, CallWellFormed, NEW t \in Threads, pc[t] \notin {Idle, "closing", "shutdown"},
         NEW retryable \in BOOLEAN, RetryOrFail(t, retryable)
  PROVE  CallType' /\ CallWellFormed'
  <1>1. CASE attempt[t] = 1 /\ retryable
    BY <1>1 DEF CallType, CallWellFormed, RetryOrFail, Goto
  <1>2. CASE ~(attempt[t] = 1 /\ retryable)
    BY <1>2, ReturnType DEF RetryOrFail
  <1>3. QED
    BY <1>1, <1>2

LEMMA CloseResourcesType ==
  ASSUME ResourceType, NEW b \in Browsers, CloseResources(b),
         UNCHANGED driver, sessions' \in [Profiles -> Browsers \cup {NoBrowser}]
  PROVE  ResourceType'
  BY DEF ResourceType, CloseResources, EndProcesses, Exit, CloseRelays

LEMMA RestartDriverType ==
  ASSUME ResourceType, NEW up \in BOOLEAN, RestartDriver(up)
  PROVE  ResourceType'
  BY DEF ResourceType, RestartDriver, EndProcesses, Exit

LEMMA TypeInit == Init => TypeOK /\ CallWellFormed
  BY ManagerAssumption DEF Init, TypeOK, CallWellFormed

\* Every step keeps the variables in their sets: one step per action.
LEMMA TypeStep == TypeOK /\ CallWellFormed /\ [Next]_vars => TypeOK' /\ CallWellFormed'
  <1> DEFINE Typed == CallType /\ ResourceType /\ CallWellFormed
  <1> SUFFICES ASSUME Typed, [Next]_vars PROVE Typed'
    BY TypeParts, PTL
  <1> USE DEF callVars, ctxVars
  <1>1. ASSUME NEW t \in Threads, NEW p \in Profiles, LaunchSession(t, p) PROVE Typed'
    BY <1>1 DEF LaunchSession, CallType, ResourceType, CallWellFormed
  <1>2. ASSUME NEW t \in Threads, ReuseSession(t) PROVE Typed'
    BY <1>2, ReturnType DEF ReuseSession, ResourceType
  <1>3. ASSUME NEW t \in Threads, DropStaleSession(t) PROVE Typed'
    <2> DEFINE b == sessions[target[t]]
    <2>0. b \in Browsers
      BY <1>3 DEF DropStaleSession, CallWellFormed, ResourceType
    <2>1. ResourceType'
      BY <1>3, <2>0, CloseResourcesType DEF DropStaleSession, ResourceType
    <2>2. CallType' /\ CallWellFormed'
      BY <1>3 DEF DropStaleSession, Goto, CallType, CallWellFormed
    <2>3. QED
      BY <2>1, <2>2
  <1>4. ASSUME NEW t \in Threads, NoSession(t) PROVE Typed'
    BY <1>4 DEF NoSession, Goto, CallType, ResourceType, CallWellFormed
  <1>5. ASSUME NEW t \in Threads, LaunchRejected(t) PROVE Typed'
    BY <1>5, ReturnType DEF LaunchRejected, ResourceType
  <1>6. ASSUME NEW t \in Threads, OpenContext(t) PROVE Typed'
    BY <1>6 DEF OpenContext, Goto, CallType, ResourceType, CallWellFormed
  <1>7. ASSUME NEW t \in Threads, LaunchStarted(t) PROVE Typed'
    BY <1>7 DEF LaunchStarted, Goto, CallType, ResourceType, CallWellFormed
  <1>8. ASSUME NEW t \in Threads, NEW why \in Failures, LaunchFailed(t, why) PROVE Typed'
    <2>1. ResourceType'
      BY <1>8 DEF LaunchFailed, CloseRelays, ResourceType
    <2>2. CASE ~safeGpu[t] /\ why = "gpu" /\ target[t] \in GpuFallback
      <3>1. CallType' /\ CallWellFormed'
        BY <1>8, <2>2 DEF LaunchFailed, Goto, CallType, CallWellFormed
      <3>2. QED
        BY <2>1, <3>1
    <2>3. CASE ~(~safeGpu[t] /\ why = "gpu" /\ target[t] \in GpuFallback)
      <3>1. RetryOrFail(t, why # "plain" /\ ~safeGpu[t])
        BY <1>8, <2>3 DEF LaunchFailed
      <3>2. QED
        BY <1>8, <2>1, <3>1, RetryOrFailType DEF LaunchFailed
    <2>4. QED
      BY <2>2, <2>3
  <1>9. ASSUME NEW t \in Threads, LaunchPanics(t) PROVE Typed'
    BY <1>9, ReturnType DEF LaunchPanics, ResourceType
  <1>10. ASSUME NEW t \in Threads, PrepareFailed(t) PROVE Typed'
    BY <1>10 DEF PrepareFailed, CloseRelays, Goto, CallType, ResourceType, CallWellFormed
  <1>11. ASSUME NEW t \in Threads, PagePrepared(t) PROVE Typed'
    BY <1>11 DEF PagePrepared, Goto, CallType, ResourceType, CallWellFormed
  <1>12. ASSUME NEW t \in Threads, EndpointReady(t) PROVE Typed'
    <2>1. ResourceType'
      BY <1>12 DEF EndpointReady, CallType, ResourceType
    <2>2. QED
      BY <1>12, <2>1, ReturnType DEF EndpointReady
  <1>13. ASSUME NEW t \in Threads, EndpointFailed(t) PROVE Typed'
    <2>1. ResourceType'
      BY <1>13 DEF EndpointFailed, CloseResources, EndProcesses, Exit, CloseRelays, ResourceType
    <2>2. CallType' /\ CallWellFormed'
      BY <1>13 DEF EndpointFailed, Goto, CallType, CallWellFormed
    <2>3. QED
      BY <2>1, <2>2
  <1>14. ASSUME NEW t \in Threads, SafeGpuFallback(t) PROVE Typed'
    <2>1. ResourceType'
      BY <1>14, RestartDriverType DEF SafeGpuFallback
    <2>2. CallType' /\ CallWellFormed'
      BY <1>14 DEF SafeGpuFallback, CallType, CallWellFormed
    <2>3. QED
      BY <2>1, <2>2
  <1>15. ASSUME NEW t \in Threads, SafeGpuFallbackFailed(t) PROVE Typed'
    BY <1>15, RestartDriverType, RetryOrFailType DEF SafeGpuFallbackFailed
  <1>16. ASSUME NEW t \in Threads, RetryLaunch(t) PROVE Typed'
    <2>1. ResourceType'
      BY <1>16, RestartDriverType DEF RetryLaunch
    <2>2. CallType' /\ CallWellFormed'
      BY <1>16 DEF RetryLaunch, CallType, CallWellFormed
    <2>3. QED
      BY <2>1, <2>2
  <1>17. ASSUME NEW t \in Threads, RetryLaunchFailed(t) PROVE Typed'
    BY <1>17, RestartDriverType, ReturnType DEF RetryLaunchFailed
  <1>18. ASSUME NEW t \in Threads, NEW p \in Profiles, CloseSession(t, p) PROVE Typed'
    <2>1. ResourceType'
      BY <1>18, CloseResourcesType DEF CloseSession, ResourceType
    <2>2. CallType' /\ CallWellFormed'
      BY <1>18 DEF CloseSession, CallType, CallWellFormed
    <2>3. QED
      BY <2>1, <2>2
  <1>19. ASSUME NEW t \in Threads, Close(t) PROVE Typed'
    BY <1>19 DEF Close, CallType, ResourceType, CallWellFormed
  <1>20. ASSUME Environment PROVE Typed'
    <2>1. CallType' /\ CallWellFormed'
      BY <1>20 DEF Environment, DriverExits, BrowserExits, TunnelOpens, TunnelEnds, CallType, CallWellFormed
    <2>2. CASE DriverExits
      BY <2>1, <2>2 DEF DriverExits, Exit, ResourceType
    <2>3. ASSUME NEW b \in Browsers, BrowserExits(b) PROVE Typed'
      BY <2>1, <2>3 DEF BrowserExits, Exit, ResourceType
    <2>4. ASSUME NEW b \in Browsers, TunnelOpens(b) \/ TunnelEnds(b) PROVE Typed'
      BY <2>1, <2>4 DEF TunnelOpens, TunnelEnds, ResourceType
    <2>5. QED
      BY <1>20, <2>2, <2>3, <2>4 DEF Environment
  <1>21. ASSUME NEW t \in Threads, NEW why \in Failures, DiscardContext(t, why) PROVE Typed'
    <2>1. CallType' /\ CallWellFormed'
      BY <1>21, RetryOrFailType DEF DiscardContext
    <2>2. ResourceType'
      BY <1>21 DEF DiscardContext, EndProcesses, Exit, ResourceType
    <2>3. QED
      BY <2>1, <2>2
  <1>22. ASSUME NEW t \in Threads, AttemptFailed(t) PROVE Typed'
    BY <1>22, RetryOrFailType DEF AttemptFailed, ResourceType
  <1>23. ASSUME NEW t \in Threads, NEW p \in Profiles, DropSession(t, p) PROVE Typed'
    BY <1>23 DEF DropSession, CloseRelays, CallType, ResourceType, CallWellFormed
  <1>24. ASSUME NEW t \in Threads, NEW p \in Profiles, CloseNext(t, p) PROVE Typed'
    <2>1. ResourceType'
      BY <1>24, CloseResourcesType DEF CloseNext, ResourceType
    <2>2. QED
      BY <1>24, <2>1 DEF CloseNext, CallType, CallWellFormed
  <1>25. ASSUME NEW t \in Threads, SessionClosed(t) PROVE Typed'
    BY <1>25, ReturnType DEF SessionClosed, ResourceType
  <1>26. ASSUME NEW t \in Threads, StopDriver(t) PROVE Typed'
    <2>1. ResourceType'
      BY <1>26 DEF StopDriver, EndProcesses, Exit, ResourceType
    <2>2. QED
      BY <1>26, <2>1, ReturnType DEF StopDriver
  <1>27. CASE UNCHANGED vars
    BY <1>27 DEF vars, CallType, ResourceType, CallWellFormed
  <1>28. QED
    BY <1>1, <1>2, <1>3, <1>4, <1>5, <1>6, <1>7, <1>8, <1>9, <1>10, <1>11, <1>12, <1>13,
       <1>14, <1>15, <1>16, <1>17, <1>18, <1>19, <1>20, <1>21, <1>22, <1>23, <1>24, <1>25,
       <1>26, <1>27 DEF Next, CallStep

LEMMA CoreInit == Init => CoreInv
  BY ManagerAssumption DEF Init, CoreInv, LockInv, TargetInv, CurInv, PublishedIsCurrent, RelayInv, RestartInv

LEMMA CoreStep ==
  TypeOK /\ CallWellFormed /\ CoreInv /\ [Next]_vars /\ TypeOK' /\ CallWellFormed' => CoreInv'
  <1> SUFFICES ASSUME TypeOK, CallWellFormed, CoreInv, [Next]_vars, TypeOK', CallWellFormed' PROVE CoreInv'
    OBVIOUS
  <1> USE ManagerAssumption DEF CoreInv, TypeOK, CallWellFormed, Mapped, callVars, ctxVars
  <1>1. ASSUME NEW t \in Threads, NEW p \in Profiles, LaunchSession(t, p) PROVE CoreInv'
    BY <1>1 DEF LaunchSession, LockInv, TargetInv, CurInv, PublishedIsCurrent, RelayInv, RestartInv
  <1>2. ASSUME NEW t \in Threads, ReuseSession(t) PROVE CoreInv'
    BY <1>2 DEF ReuseSession, Return, LockInv, TargetInv, CurInv, PublishedIsCurrent, RelayInv, RestartInv
  <1>3. ASSUME NEW t \in Threads, DropStaleSession(t) PROVE CoreInv'
    BY <1>3 DEF DropStaleSession, CloseResources, EndProcesses, Exit, CloseRelays, Goto, LockInv, TargetInv, CurInv, PublishedIsCurrent, RelayInv, RestartInv
  <1>4. ASSUME NEW t \in Threads, NoSession(t) PROVE CoreInv'
    BY <1>4 DEF NoSession, Goto, LockInv, TargetInv, CurInv, PublishedIsCurrent, RelayInv, RestartInv
  <1>5. ASSUME NEW t \in Threads, LaunchRejected(t) PROVE CoreInv'
    BY <1>5 DEF LaunchRejected, Return, LockInv, TargetInv, CurInv, PublishedIsCurrent, RelayInv, RestartInv
  <1>6. ASSUME NEW t \in Threads, OpenContext(t) PROVE CoreInv'
    BY <1>6 DEF OpenContext, Unused, Goto, LockInv, TargetInv, CurInv, PublishedIsCurrent, RelayInv, RestartInv
  <1>7. ASSUME NEW t \in Threads, LaunchStarted(t) PROVE CoreInv'
    BY <1>7 DEF LaunchStarted, Goto, LockInv, TargetInv, CurInv, PublishedIsCurrent, RelayInv, RestartInv
  <1>8. ASSUME NEW t \in Threads, NEW why \in Failures, LaunchFailed(t, why) PROVE CoreInv'
    BY <1>8 DEF LaunchFailed, CloseRelays, RetryOrFail, Goto, Return, LockInv, TargetInv, CurInv, PublishedIsCurrent, RelayInv, RestartInv
  <1>9. ASSUME NEW t \in Threads, LaunchPanics(t) PROVE CoreInv'
    BY <1>9 DEF LaunchPanics, Return, LockInv, TargetInv, CurInv, PublishedIsCurrent, RelayInv, RestartInv
  <1>10. ASSUME NEW t \in Threads, PrepareFailed(t) PROVE CoreInv'
    BY <1>10 DEF PrepareFailed, CloseRelays, Goto, LockInv, TargetInv, CurInv, PublishedIsCurrent, RelayInv, RestartInv
  <1>11. ASSUME NEW t \in Threads, PagePrepared(t) PROVE CoreInv'
    BY <1>11 DEF PagePrepared, Goto, LockInv, TargetInv, CurInv, PublishedIsCurrent, RelayInv, RestartInv
  <1>12. ASSUME NEW t \in Threads, EndpointReady(t) PROVE CoreInv'
    BY <1>12 DEF EndpointReady, Serves, Return, LockInv, TargetInv, CurInv, PublishedIsCurrent, RelayInv, RestartInv
  <1>13. ASSUME NEW t \in Threads, EndpointFailed(t) PROVE CoreInv'
    BY <1>13 DEF EndpointFailed, CloseResources, EndProcesses, Exit, CloseRelays, Goto, LockInv, TargetInv, CurInv, PublishedIsCurrent, RelayInv, RestartInv
  <1>14. ASSUME NEW t \in Threads, SafeGpuFallback(t) PROVE CoreInv'
    <2>1. \A p \in Profiles : sessions[p] = NoBrowser
      BY <1>14 DEF SafeGpuFallback
    <2>2. LockInv' /\ TargetInv' /\ CurInv'
      BY <1>14, <2>1 DEF SafeGpuFallback, RestartDriver, LockInv, TargetInv, CurInv
    <2>3. PublishedIsCurrent' /\ RelayInv'
      BY <1>14, <2>1 DEF SafeGpuFallback, RestartDriver, LockInv, CurInv, PublishedIsCurrent, RelayInv
    <2>4. RestartInv'
      BY <1>14 DEF SafeGpuFallback, RestartInv
    <2>5. QED
      BY <2>2, <2>3, <2>4
  <1>15. ASSUME NEW t \in Threads, SafeGpuFallbackFailed(t) PROVE CoreInv'
    <2>1. \A p \in Profiles : sessions[p] = NoBrowser
      BY <1>15 DEF SafeGpuFallbackFailed
    <2>2. LockInv' /\ TargetInv' /\ CurInv'
      BY <1>15, <2>1, SMTT(60) DEF SafeGpuFallbackFailed, RestartDriver, RetryOrFail, Goto, Return, LockInv, TargetInv, CurInv
    <2>3. PublishedIsCurrent' /\ RelayInv'
      BY <1>15, <2>1, SMTT(60) DEF SafeGpuFallbackFailed, RestartDriver, RetryOrFail, Goto, Return, LockInv, CurInv, PublishedIsCurrent, RelayInv
    <2>4. RestartInv'
      BY <1>15 DEF SafeGpuFallbackFailed, RetryOrFail, Goto, Return, RestartInv
    <2>5. QED
      BY <2>2, <2>3, <2>4
  <1>16. ASSUME NEW t \in Threads, RetryLaunch(t) PROVE CoreInv'
    <2>1. \A p \in Profiles : sessions[p] = NoBrowser
      BY <1>16 DEF RetryLaunch
    <2>2. LockInv' /\ TargetInv' /\ CurInv'
      BY <1>16, <2>1 DEF RetryLaunch, RestartDriver, LockInv, TargetInv, CurInv
    <2>3. PublishedIsCurrent' /\ RelayInv'
      BY <1>16, <2>1 DEF RetryLaunch, RestartDriver, LockInv, CurInv, PublishedIsCurrent, RelayInv
    <2>4. RestartInv'
      BY <1>16 DEF RetryLaunch, RestartInv
    <2>5. QED
      BY <2>2, <2>3, <2>4
  <1>17. ASSUME NEW t \in Threads, RetryLaunchFailed(t) PROVE CoreInv'
    <2>1. \A p \in Profiles : sessions[p] = NoBrowser
      BY <1>17 DEF RetryLaunchFailed
    <2>2. LockInv' /\ TargetInv' /\ CurInv'
      BY <1>17, <2>1 DEF RetryLaunchFailed, RestartDriver, Return, LockInv, TargetInv, CurInv
    <2>3. PublishedIsCurrent' /\ RelayInv'
      BY <1>17, <2>1 DEF RetryLaunchFailed, RestartDriver, Return, LockInv, CurInv, PublishedIsCurrent, RelayInv
    <2>4. RestartInv'
      BY <1>17 DEF RetryLaunchFailed, Return, RestartInv
    <2>5. QED
      BY <2>2, <2>3, <2>4
  <1>18. ASSUME NEW t \in Threads, NEW p \in Profiles, CloseSession(t, p) PROVE CoreInv'
    BY <1>18 DEF CloseSession, CloseResources, EndProcesses, Exit, CloseRelays, LockInv, TargetInv, CurInv, PublishedIsCurrent, RelayInv, RestartInv
  <1>19. ASSUME NEW t \in Threads, Close(t) PROVE CoreInv'
    BY <1>19 DEF Close, LockInv, TargetInv, CurInv, PublishedIsCurrent, RelayInv, RestartInv
  <1>20. ASSUME DriverExits PROVE CoreInv'
    BY <1>20 DEF DriverExits, Exit, LockInv, TargetInv, CurInv, PublishedIsCurrent, RelayInv, RestartInv
  <1>21. ASSUME NEW b \in Browsers, BrowserExits(b) PROVE CoreInv'
    BY <1>21 DEF BrowserExits, Exit, LockInv, TargetInv, CurInv, PublishedIsCurrent, RelayInv, RestartInv
  <1>22. ASSUME NEW b \in Browsers, TunnelOpens(b) PROVE CoreInv'
    BY <1>22 DEF TunnelOpens, LockInv, TargetInv, CurInv, PublishedIsCurrent, RelayInv, RestartInv
  <1>23. ASSUME NEW b \in Browsers, TunnelEnds(b) PROVE CoreInv'
    BY <1>23 DEF TunnelEnds, LockInv, TargetInv, CurInv, PublishedIsCurrent, RelayInv, RestartInv
  <1>24. ASSUME NEW t \in Threads, NEW why \in Failures, DiscardContext(t, why) PROVE CoreInv'
    BY <1>24, SMTT(60) DEF DiscardContext, EndProcesses, Exit, RetryOrFail, Goto, Return, LockInv, TargetInv, CurInv, PublishedIsCurrent, RelayInv, RestartInv
  <1>25. ASSUME NEW t \in Threads, AttemptFailed(t) PROVE CoreInv'
    BY <1>25 DEF AttemptFailed, RetryOrFail, Goto, Return, LockInv, TargetInv, CurInv, PublishedIsCurrent, RelayInv, RestartInv
  <1>26. ASSUME NEW t \in Threads, NEW p \in Profiles, DropSession(t, p) PROVE CoreInv'
    BY <1>26 DEF DropSession, CloseRelays, LockInv, TargetInv, CurInv, PublishedIsCurrent, RelayInv, RestartInv
  <1>27. ASSUME NEW t \in Threads, NEW p \in Profiles, CloseNext(t, p) PROVE CoreInv'
    BY <1>27 DEF CloseNext, CloseResources, EndProcesses, Exit, CloseRelays, LockInv, TargetInv, CurInv, PublishedIsCurrent, RelayInv, RestartInv
  <1>28. ASSUME NEW t \in Threads, SessionClosed(t) PROVE CoreInv'
    BY <1>28 DEF SessionClosed, Return, LockInv, TargetInv, CurInv, PublishedIsCurrent, RelayInv, RestartInv
  <1>29. ASSUME NEW t \in Threads, StopDriver(t) PROVE CoreInv'
    BY <1>29 DEF StopDriver, EndProcesses, Exit, Return, LockInv, TargetInv, CurInv, PublishedIsCurrent, RelayInv, RestartInv
  <1>30. CASE UNCHANGED vars
    BY <1>30 DEF vars, LockInv, TargetInv, CurInv, PublishedIsCurrent, RelayInv, RestartInv
  <1>31. QED
    BY <1>1, <1>2, <1>3, <1>4, <1>5, <1>6, <1>7, <1>8, <1>9, <1>10, <1>11, <1>12, <1>13,
       <1>14, <1>15, <1>16, <1>17, <1>18, <1>19, <1>20, <1>21, <1>22, <1>23, <1>24, <1>25, <1>26,
       <1>27, <1>28, <1>29, <1>30
       DEF Next, CallStep, Environment

\* The inductive invariant, which needs no assumption on how closing behaves.
LEMMA Inductive == Spec => [](TypeOK /\ CallWellFormed /\ CoreInv)
  BY TypeInit, TypeStep, CoreInit, CoreStep, PTL DEF Spec

\* Every variable of the manager keeps its type.
THEOREM TypeCorrect == Spec => []TypeOK
  BY Inductive, PTL

\* A session that callers can look up belongs to the driver in use and to its
\* profile, and its relay is running, even where closing a browser may fail.
THEOREM SessionsAreCurrent == Spec => []PublishedIsCurrent
  <1>1. CoreInv => PublishedIsCurrent
    BY DEF CoreInv
  <1>2. QED
    BY <1>1, Inductive, PTL

\* A relay is left running only by a manager that has lost its driver.
THEOREM RelaysAreOwned == Spec => []NoOrphanRelay
  <1>1. CoreInv => NoOrphanRelay
    BY DEF CoreInv, RelayInv, NoOrphanRelay
  <1>2. QED
    BY <1>1, Inductive, PTL

\* One LaunchSession restarts the driver at most three times.
THEOREM RestartsAreBounded == Spec => []RestartsBounded
  <1>1. TypeOK /\ CoreInv => RestartsBounded
    BY DEF TypeOK, CoreInv, RestartInv, RestartsBounded
  <1>2. QED
    BY <1>1, Inductive, PTL

-----------------------------------------------------------------------------
LEMMA LiveInit == Init => LiveInv
  BY DEF Init, LiveInv, OneBrowserPerProfile, Live

\* While closing works, no step loses sight of a live browser.
LEMMA LiveStep ==
  ASSUME ~LossyClose
  PROVE  TypeOK /\ CallWellFormed /\ CoreInv /\ LiveInv /\ [Next]_vars /\ TypeOK' => LiveInv'
  <1> SUFFICES ASSUME TypeOK, CallWellFormed, CoreInv, LiveInv, [Next]_vars, TypeOK' PROVE LiveInv'
    OBVIOUS
  <1> USE ManagerAssumption DEF LiveInv, OneBrowserPerProfile, Live, CoreInv, LockInv, CurInv, Mapped,
          PublishedIsCurrent, TypeOK, CallWellFormed, callVars, ctxVars
  <1>1. ASSUME NEW t \in Threads, NEW p \in Profiles, LaunchSession(t, p) PROVE LiveInv'
    BY <1>1 DEF LaunchSession
  <1>2. ASSUME NEW t \in Threads, ReuseSession(t) PROVE LiveInv'
    BY <1>2 DEF ReuseSession, Return
  <1>3. ASSUME NEW t \in Threads, DropStaleSession(t) PROVE LiveInv'
    BY <1>3 DEF DropStaleSession, CloseResources, EndProcesses, Exit, Goto
  <1>4. ASSUME NEW t \in Threads, NoSession(t) PROVE LiveInv'
    BY <1>4 DEF NoSession, Goto
  <1>5. ASSUME NEW t \in Threads, LaunchRejected(t) PROVE LiveInv'
    BY <1>5 DEF LaunchRejected, Return
  <1>6. ASSUME NEW t \in Threads, OpenContext(t) PROVE LiveInv'
    BY <1>6 DEF OpenContext, Unused, Goto
  <1>7. ASSUME NEW t \in Threads, LaunchStarted(t) PROVE LiveInv'
    BY <1>7 DEF LaunchStarted, Goto, TargetInv
  <1>8. ASSUME NEW t \in Threads, NEW why \in Failures, LaunchFailed(t, why) PROVE LiveInv'
    BY <1>8 DEF LaunchFailed, RetryOrFail, Goto, Return
  <1>9. ASSUME NEW t \in Threads, LaunchPanics(t) PROVE LiveInv'
    BY <1>9 DEF LaunchPanics, Return
  <1>10. ASSUME NEW t \in Threads, PrepareFailed(t) PROVE LiveInv'
    BY <1>10 DEF PrepareFailed, Goto
  <1>11. ASSUME NEW t \in Threads, PagePrepared(t) PROVE LiveInv'
    BY <1>11 DEF PagePrepared, Goto
  <1>12. ASSUME NEW t \in Threads, EndpointReady(t) PROVE LiveInv'
    BY <1>12 DEF EndpointReady, Return, TargetInv
  <1>13. ASSUME NEW t \in Threads, EndpointFailed(t) PROVE LiveInv'
    BY <1>13 DEF EndpointFailed, CloseResources, EndProcesses, Exit, Goto
  <1>14. ASSUME NEW t \in Threads, SafeGpuFallback(t) PROVE LiveInv'
    BY <1>14 DEF SafeGpuFallback, RestartDriver, EndProcesses, Exit
  <1>15. ASSUME NEW t \in Threads, SafeGpuFallbackFailed(t) PROVE LiveInv'
    BY <1>15 DEF SafeGpuFallbackFailed, RestartDriver, EndProcesses, Exit
  <1>16. ASSUME NEW t \in Threads, RetryLaunch(t) PROVE LiveInv'
    BY <1>16 DEF RetryLaunch, RestartDriver, EndProcesses, Exit
  <1>17. ASSUME NEW t \in Threads, RetryLaunchFailed(t) PROVE LiveInv'
    BY <1>17 DEF RetryLaunchFailed, RestartDriver, EndProcesses, Exit
  <1>18. ASSUME NEW t \in Threads, NEW p \in Profiles, CloseSession(t, p) PROVE LiveInv'
    BY <1>18 DEF CloseSession, CloseResources, EndProcesses, Exit
  <1>19. ASSUME NEW t \in Threads, Close(t) PROVE LiveInv'
    BY <1>19 DEF Close
  <1>20. ASSUME DriverExits PROVE LiveInv'
    BY <1>20 DEF DriverExits, Exit
  <1>21. ASSUME NEW b \in Browsers, BrowserExits(b) PROVE LiveInv'
    BY <1>21 DEF BrowserExits, Exit
  <1>22. ASSUME NEW b \in Browsers, TunnelOpens(b) PROVE LiveInv'
    BY <1>22 DEF TunnelOpens
  <1>23. ASSUME NEW b \in Browsers, TunnelEnds(b) PROVE LiveInv'
    BY <1>23 DEF TunnelEnds
  <1>24. ASSUME NEW t \in Threads, NEW why \in Failures, DiscardContext(t, why) PROVE LiveInv'
    BY <1>24 DEF DiscardContext, EndProcesses, Exit, RetryOrFail, Goto, Return
  <1>25. ASSUME NEW t \in Threads, AttemptFailed(t) PROVE LiveInv'
    BY <1>25 DEF AttemptFailed, RetryOrFail, Goto, Return
  <1>26. ASSUME NEW t \in Threads, NEW p \in Profiles, DropSession(t, p) PROVE LiveInv'
    BY <1>26 DEF DropSession, CloseRelays
  <1>27. ASSUME NEW t \in Threads, NEW p \in Profiles, CloseNext(t, p) PROVE LiveInv'
    BY <1>27 DEF CloseNext, CloseResources, EndProcesses, Exit, CloseRelays
  <1>28. ASSUME NEW t \in Threads, SessionClosed(t) PROVE LiveInv'
    BY <1>28 DEF SessionClosed, Return
  <1>29. ASSUME NEW t \in Threads, StopDriver(t) PROVE LiveInv'
    BY <1>29 DEF StopDriver, EndProcesses, Exit, Return
  <1>30. CASE UNCHANGED vars
    BY <1>30 DEF vars
  <1>31. QED
    BY <1>1, <1>2, <1>3, <1>4, <1>5, <1>6, <1>7, <1>8, <1>9, <1>10, <1>11, <1>12, <1>13,
       <1>14, <1>15, <1>16, <1>17, <1>18, <1>19, <1>20, <1>21, <1>22, <1>23, <1>24, <1>25, <1>26,
       <1>27, <1>28, <1>29, <1>30, SMTT(60)
       DEF Next, CallStep, Environment

\* With Manager.mu free no call is there to hold a browser outside the map.
LEMMA LiveFound ==
  TypeOK /\ CoreInv /\ LiveInv => NoOrphanBrowser
  BY ManagerAssumption DEF TypeOK, CoreInv, LiveInv, LockInv, NoOrphanBrowser

\* While closing works: one profile = one browser, through every failed attempt,
\* fallback and driver restart.
THEOREM OneProfileOneBrowser == ASSUME ~LossyClose PROVE Spec => []OneBrowserPerProfile
  <1>1. Spec => []LiveInv
    BY Inductive, LiveInit, LiveStep, PTL DEF Spec
  <1>2. LiveInv => OneBrowserPerProfile
    BY DEF LiveInv
  <1>3. QED
    BY <1>1, <1>2, PTL

\* While closing works: with Manager.mu free, every live browser is in the map.
THEOREM NoBrowserIsLost == ASSUME ~LossyClose PROVE Spec => []NoOrphanBrowser
  <1>1. Spec => []LiveInv
    BY Inductive, LiveInit, LiveStep, PTL DEF Spec
  <1>2. QED
    BY <1>1, Inductive, LiveFound, PTL
-----------------------------------------------------------------------------
LEMMA OwnershipInit == Init => Ownership!Init
  BY DEF Init, Live, Ownership!Init

\* Steps that leave every process and session alone are stuttering steps.
LEMMA OwnershipStutter ==
  ASSUME UNCHANGED <<sessions, proc>>, \A b \in Live : owner'[b] = owner[b]
  PROVE  UNCHANGED Ownership!vars
  BY DEF Ownership!vars, Live

\* Steps that take the processes of some profiles, and those sessions at most,
\* release these profiles.
LEMMA OwnershipRelease ==
  ASSUME NEW S \in SUBSET Profiles, UNCHANGED owner,
         TypeOK, PublishedIsCurrent,
         Live' = {b \in Live : owner[b] \notin S},
         \A p \in Profiles \ S : sessions'[p] = sessions[p],
         \A p \in S : sessions'[p] \in {NoBrowser, sessions[p]}
  PROVE  Ownership!Release(S)
  BY ManagerAssumption DEF Ownership!Release, TypeOK, PublishedIsCurrent, Live

\* The end of the only browser of a profile releases that profile.
LEMMA ExitReleases ==
  ASSUME NEW b \in Browsers, NEW p \in Profiles, owner[b] = p, Exit({b}), UNCHANGED owner,
         TypeOK, PublishedIsCurrent, \A c \in Live : owner[c] = p => c = b,
         \A q \in Profiles \ {p} : sessions'[q] = sessions[q],
         sessions'[p] \in {NoBrowser, sessions[p]}
  PROVE  Ownership!Release({p})
  <1>1. Live' = {c \in Live : owner[c] \notin {p}}
    BY DEF Exit, Live, TypeOK
  <1>2. QED
    BY <1>1, OwnershipRelease

\* The end of every browser releases every profile.
LEMMA ExitReleasesAll ==
  ASSUME Exit(Browsers), UNCHANGED <<owner, sessions>>, TypeOK, PublishedIsCurrent, LiveInv
  PROVE  Ownership!Release(Profiles)
  <1>1. Live' = {c \in Live : owner[c] \notin Profiles}
    BY DEF Exit, Live, TypeOK, LiveInv
  <1>2. QED
    BY <1>1, OwnershipRelease

LEMMA ClosingEnds ==
  ASSUME ~LossyClose, NEW S \in SUBSET Browsers, EndProcesses(S)
  PROVE  Exit(S)
  BY DEF EndProcesses, Exit

\* A browser that is a profile's session, or that a call has in its hands, is the
\* only live one of its profile.
LEMMA OnlyBrowser ==
  ASSUME TypeOK, CallWellFormed, CoreInv, LiveInv, \A t \in Threads : pc[t] \notin {"fallback", "retry"},
         NEW b \in Browsers, b \in Mapped \/ \E t \in Threads : cur[t] = b,
         NEW c \in Live, owner[c] = owner[b]
  PROVE  c = b
  <1> USE ManagerAssumption DEF TypeOK, CallWellFormed, CoreInv
  <1>1. CASE b \in Mapped
    BY <1>1 DEF Mapped, LiveInv, LockInv, CurInv, TargetInv, PublishedIsCurrent
  <1>2. ASSUME NEW t \in Threads, cur[t] = b PROVE c = b
    <2>1. pc[t] \in Opening /\ mu = t /\ target[t] \in Profiles
      BY <1>2 DEF CurInv, LockInv
    <2>2. sessions[owner[b]] = NoBrowser
      BY <1>2, <2>1 DEF CurInv, TargetInv
    <2>3. PICK u \in Threads : pc[u] \in {"post", "discard", "bind"} /\ cur[u] = c
      BY <2>2 DEF LiveInv, Live
    <2>4. QED
      BY <1>2, <2>1, <2>3 DEF LockInv
  <1>3. QED
    BY <1>1, <1>2

\* Every step of the manager is a step of the abstract owner, or none.
LEMMA OwnershipStep ==
  ASSUME ~LossyClose
  PROVE  TypeOK /\ CallWellFormed /\ CoreInv /\ LiveInv /\ [Next]_vars
           => [Ownership!Next]_(Ownership!vars)
  <1> DEFINE Refines == Ownership!Next \/ UNCHANGED Ownership!vars
  <1> SUFFICES ASSUME TypeOK, CallWellFormed, CoreInv, LiveInv, [Next]_vars PROVE Refines
    OBVIOUS
  <1> USE ManagerAssumption DEF callVars, ctxVars
  <1>0. PublishedIsCurrent
    BY DEF CoreInv
  <1>1. ASSUME NEW t \in Threads, NEW p \in Profiles, LaunchSession(t, p) PROVE Refines
    BY <1>1, OwnershipStutter DEF LaunchSession
  <1>2. ASSUME NEW t \in Threads, ReuseSession(t) PROVE Refines
    BY <1>2, OwnershipStutter DEF ReuseSession
  <1>3. ASSUME NEW t \in Threads, NoSession(t) PROVE Refines
    BY <1>3, OwnershipStutter DEF NoSession
  <1>4. ASSUME NEW t \in Threads, LaunchRejected(t) PROVE Refines
    BY <1>4, OwnershipStutter DEF LaunchRejected
  <1>5. ASSUME NEW t \in Threads, OpenContext(t) PROVE Refines
    BY <1>5, OwnershipStutter DEF OpenContext, Unused, Live, TypeOK
  <1>6. ASSUME NEW t \in Threads, NEW why \in Failures, LaunchFailed(t, why) PROVE Refines
    BY <1>6, OwnershipStutter DEF LaunchFailed
  <1>7. ASSUME NEW t \in Threads, LaunchPanics(t) PROVE Refines
    BY <1>7, OwnershipStutter DEF LaunchPanics
  <1>8. ASSUME NEW t \in Threads, PrepareFailed(t) PROVE Refines
    BY <1>8, OwnershipStutter DEF PrepareFailed
  <1>9. ASSUME NEW t \in Threads, PagePrepared(t) PROVE Refines
    BY <1>9, OwnershipStutter DEF PagePrepared
  <1>10. ASSUME NEW t \in Threads, AttemptFailed(t) PROVE Refines
    BY <1>10, OwnershipStutter DEF AttemptFailed
  <1>11. ASSUME NEW t \in Threads, SessionClosed(t) PROVE Refines
    BY <1>11, OwnershipStutter DEF SessionClosed
  <1>12. ASSUME NEW t \in Threads, Close(t) PROVE Refines
    BY <1>12, OwnershipStutter DEF Close
  <1>13. ASSUME NEW b \in Browsers, TunnelOpens(b) PROVE Refines
    BY <1>13, OwnershipStutter DEF TunnelOpens
  <1>14. ASSUME NEW b \in Browsers, TunnelEnds(b) PROVE Refines
    BY <1>14, OwnershipStutter DEF TunnelEnds
  <1>15. ASSUME NEW t \in Threads, LaunchStarted(t) PROVE Refines
    <2>1. PICK p \in Profiles, b \in Browsers : p = target[t] /\ b = cur[t] /\ owner[b] = p
      BY <1>15 DEF LaunchStarted, CallWellFormed, CoreInv, CurInv
    <2>2. \A c \in Live : sessions[owner[c]] = c /\ owner[c] \in Profiles \ {p}
      BY <1>15, <2>1 DEF LaunchStarted, LiveInv, Live, CoreInv, LockInv, CurInv, TargetInv, TypeOK
    <2>3. Live' = Live \cup {b} /\ UNCHANGED <<owner, sessions>>
      BY <1>15, <2>1 DEF LaunchStarted, Live, TypeOK
    <2>4. b \notin Live /\ \A q \in Profiles : sessions[q] # b
      BY <1>15, <2>1, <2>2 DEF LaunchStarted, CoreInv, CurInv, Mapped
    <2>5. Ownership!Acquire(p, b)
      <3>1. \A q \in Profiles : {c \in Live : owner[c] = q} # {} => sessions[q] \in Live
        BY <2>2
      <3>2. Ownership!Starting = {}
        BY <3>1 DEF Ownership!Starting
      <3>3. {c \in Live : owner[c] = p} = {}
        BY <2>2
      <3>4. \A q \in Profiles : {c \in Live' : owner'[c] = q} =
               IF q = p THEN {b} ELSE {c \in Live : owner[c] = q}
        BY <2>1, <2>2, <2>3, <2>4
      <3>5. \A q \in Profiles : sessions'[q] \in Live' <=> sessions[q] \in Live
        BY <2>3, <2>4
      <3>6. QED
        BY <3>2, <3>3, <3>4, <3>5 DEF Ownership!Acquire
    <2>6. QED
      BY <2>5 DEF Ownership!Next
  <1>16. ASSUME NEW t \in Threads, EndpointReady(t) PROVE Refines
    <2>1. PICK p \in Profiles : p = target[t]
      BY <1>16 DEF EndpointReady, CallWellFormed
    <2>2. Ownership!Publish(p)
      BY <1>16, <2>1 DEF EndpointReady, Serves, Ownership!Publish, Ownership!Starting, Live,
           CoreInv, TargetInv, CurInv, TypeOK
    <2>3. QED
      BY <2>2 DEF Ownership!Next
  <1>17. ASSUME NEW t \in Threads, NEW p \in Profiles, DropSession(t, p) PROVE Refines
    <2>1. Ownership!Withdraw(p)
      BY <1>17 DEF DropSession, Ownership!Withdraw, Live, TypeOK
    <2>2. QED
      BY <2>1 DEF Ownership!Next
  <1>18. ASSUME NEW t \in Threads, DropStaleSession(t) PROVE Refines
    <2>1. PICK p \in Profiles, b \in Browsers : p = target[t] /\ b = sessions[target[t]] /\ b \in Mapped /\ owner[b] = p
      BY <1>18, <1>0 DEF DropStaleSession, CallWellFormed, TypeOK, PublishedIsCurrent, Mapped
    <2>2. Exit({b})
      BY <1>18, <2>1, ClosingEnds DEF DropStaleSession, CloseResources
    <2>3. \A u \in Threads : pc[u] \notin {"fallback", "retry"}
      BY <1>18 DEF DropStaleSession, CoreInv, LockInv, TypeOK
    <2>4. \A c \in Live : owner[c] = p => c = b
      BY <2>1, <2>3, OnlyBrowser
    <2>5. /\ UNCHANGED owner
          /\ \A r \in Profiles \ {p} : sessions'[r] = sessions[r]
          /\ sessions'[p] = NoBrowser
      BY <1>18, <2>1 DEF DropStaleSession, CloseResources, TypeOK
    <2>6. Ownership!Release({p})
      BY <1>0, <2>1, <2>2, <2>4, <2>5, ExitReleases
    <2>7. QED
      BY <2>6 DEF Ownership!Next
  <1>19. ASSUME NEW t \in Threads, NEW q \in Profiles, CloseSession(t, q) PROVE Refines
    <2>1. PICK p \in Profiles, b \in Browsers : p = q /\ b = sessions[q] /\ b \in Mapped /\ owner[b] = p
      BY <1>19, <1>0 DEF CloseSession, CallWellFormed, TypeOK, PublishedIsCurrent, Mapped
    <2>2. Exit({b})
      BY <1>19, <2>1, ClosingEnds DEF CloseSession, CloseResources
    <2>3. \A u \in Threads : pc[u] \notin {"fallback", "retry"}
      BY <1>19 DEF CloseSession, CoreInv, LockInv, TypeOK
    <2>4. \A c \in Live : owner[c] = p => c = b
      BY <2>1, <2>3, OnlyBrowser
    <2>5. /\ UNCHANGED owner
          /\ \A r \in Profiles \ {p} : sessions'[r] = sessions[r]
          /\ sessions'[p] = NoBrowser
      BY <1>19, <2>1 DEF CloseSession, CloseResources, TypeOK
    <2>6. Ownership!Release({p})
      BY <1>0, <2>1, <2>2, <2>4, <2>5, ExitReleases
    <2>7. QED
      BY <2>6 DEF Ownership!Next
  <1>20. ASSUME NEW t \in Threads, NEW q \in Profiles, CloseNext(t, q) PROVE Refines
    <2>1. PICK p \in Profiles, b \in Browsers : p = q /\ b = sessions[q] /\ b \in Mapped /\ owner[b] = p
      BY <1>20, <1>0 DEF CloseNext, CallWellFormed, TypeOK, PublishedIsCurrent, Mapped
    <2>2. Exit({b})
      BY <1>20, <2>1, ClosingEnds DEF CloseNext, CloseResources
    <2>3. \A u \in Threads : pc[u] \notin {"fallback", "retry"}
      BY <1>20 DEF CloseNext, CoreInv, LockInv, TypeOK
    <2>4. \A c \in Live : owner[c] = p => c = b
      BY <2>1, <2>3, OnlyBrowser
    <2>5. /\ UNCHANGED owner
          /\ \A r \in Profiles \ {p} : sessions'[r] = sessions[r]
          /\ sessions'[p] = NoBrowser
      BY <1>20, <2>1 DEF CloseNext, CloseResources, TypeOK
    <2>6. Ownership!Release({p})
      BY <1>0, <2>1, <2>2, <2>4, <2>5, ExitReleases
    <2>7. QED
      BY <2>6 DEF Ownership!Next
  <1>21. ASSUME NEW t \in Threads, NEW why \in Failures, DiscardContext(t, why) PROVE Refines
    <2>1. PICK p \in Profiles, b \in Browsers : p = target[t] /\ b = cur[t] /\ owner[b] = p
      BY <1>21 DEF DiscardContext, CallWellFormed, CoreInv, CurInv
    <2>2. Exit({b}) /\ UNCHANGED <<owner, sessions>>
      BY <1>21, <2>1, ClosingEnds DEF DiscardContext
    <2>3. \A u \in Threads : pc[u] \notin {"fallback", "retry"}
      BY <1>21 DEF DiscardContext, CoreInv, LockInv, TypeOK
    <2>4. \A c \in Live : owner[c] = p => c = b
      BY <2>1, <2>3, OnlyBrowser
    <2>5. Ownership!Release({p})
      BY <1>0, <2>1, <2>2, <2>4, ExitReleases
    <2>6. QED
      BY <2>5 DEF Ownership!Next
  <1>22. ASSUME NEW t \in Threads, EndpointFailed(t) PROVE Refines
    <2>1. PICK p \in Profiles, b \in Browsers : p = target[t] /\ b = cur[t] /\ owner[b] = p
      BY <1>22 DEF EndpointFailed, CallWellFormed, CoreInv, CurInv
    <2>2. Exit({b}) /\ UNCHANGED <<owner, sessions>>
      BY <1>22, <2>1, ClosingEnds DEF EndpointFailed, CloseResources
    <2>3. \A u \in Threads : pc[u] \notin {"fallback", "retry"}
      BY <1>22 DEF EndpointFailed, CoreInv, LockInv, TypeOK
    <2>4. \A c \in Live : owner[c] = p => c = b
      BY <2>1, <2>3, OnlyBrowser
    <2>5. Ownership!Release({p})
      BY <1>0, <2>1, <2>2, <2>4, ExitReleases
    <2>6. QED
      BY <2>5 DEF Ownership!Next
  <1>23. ASSUME NEW b \in Browsers, BrowserExits(b) PROVE Refines
    <2>1. PICK p \in Profiles : p = owner[b] /\ b \in Live
      BY <1>23 DEF BrowserExits, Live, LiveInv
    <2>2. \A c \in Live : owner[c] = p => c = b
      BY <2>1 DEF LiveInv, OneBrowserPerProfile
    <2>3. Exit({b}) /\ UNCHANGED <<owner, sessions>>
      BY <1>23 DEF BrowserExits
    <2>4. Ownership!Release({p})
      BY <1>0, <2>1, <2>2, <2>3, ExitReleases
    <2>5. QED
      BY <2>4 DEF Ownership!Next
  <1>24. ASSUME DriverExits PROVE Refines
    <2>1. PICK S \in SUBSET Profiles : S = {owner[b] : b \in {c \in Live : fresh[c]}}
      BY DEF LiveInv
    <2>2. Live' = {b \in Live : owner[b] \notin S}
      BY <1>24, <2>1 DEF DriverExits, Exit, Live, LiveInv, OneBrowserPerProfile, TypeOK
    <2>3. Ownership!Release(S)
      BY <1>24, <1>0, <2>2, OwnershipRelease DEF DriverExits
    <2>4. QED
      BY <2>3 DEF Ownership!Next
  <1>25. ASSUME NEW t \in Threads,
              \/ SafeGpuFallback(t) \/ SafeGpuFallbackFailed(t)
              \/ RetryLaunch(t) \/ RetryLaunchFailed(t) \/ StopDriver(t)
        PROVE Refines
    <2>1. EndProcesses(Browsers) /\ UNCHANGED <<owner, sessions>>
      BY <1>25 DEF SafeGpuFallback, SafeGpuFallbackFailed, RetryLaunch, RetryLaunchFailed,
           StopDriver, RestartDriver
    <2>2. Exit(Browsers)
      BY <2>1, ClosingEnds
    <2>3. Ownership!Release(Profiles)
      BY <1>0, <2>1, <2>2, ExitReleasesAll
    <2>4. QED
      BY <2>3 DEF Ownership!Next
  <1>26. CASE UNCHANGED vars
    BY <1>26, OwnershipStutter DEF vars
  <1>27. QED
    BY <1>1, <1>2, <1>3, <1>4, <1>5, <1>6, <1>7, <1>8, <1>9, <1>10, <1>11, <1>12, <1>13,
       <1>14, <1>15, <1>16, <1>17, <1>18, <1>19, <1>20, <1>21, <1>22, <1>23, <1>24, <1>25, <1>26
       DEF Next, CallStep, Environment

\* While closing works, the manager implements exclusive ownership of the
\* profiles' user data directories.
THEOREM ManagerImplementsOwnership == ASSUME ~LossyClose PROVE Spec => ImplementsOwnership
  <1>1. Spec => []LiveInv
    BY Inductive, LiveInit, LiveStep, PTL DEF Spec
  <1>2. QED
    BY <1>1, Inductive, OwnershipInit, OwnershipStep, PTL DEF Spec, ImplementsOwnership, Ownership!Spec

-----------------------------------------------------------------------------
LEMMA Places ==
  /\ Place["idle"] = 0 /\ Place["closing"] = 1 /\ Place["shutdown"] = 2 /\ Place["retry"] = 5
  /\ Place["fallback"] = 6 /\ Place["failed"] = 7 /\ Place["bind"] = 8 /\ Place["discard"] = 8
  /\ Place["post"] = 9 /\ Place["open"] = 10 /\ Place["launch"] = 11 /\ Place["existing"] = 12
  BY DEF Place

\* Going on within an attempt, to a place nearer to the end.
LEMMA GotoAdvances ==
  ASSUME CallType, NEW t \in Threads, NEW l \in PC, Goto(t, l), Place[l] < Place[pc[t]]
  PROVE  Advances(t)
  <1>1. pc'[t] = l /\ attempt'[t] = attempt[t] /\ safeGpu'[t] = safeGpu[t]
    BY DEF CallType, Goto
  <1>2. Place[l] \in Nat /\ Place[pc[t]] \in Nat /\ attempt[t] \in 1..2 /\ safeGpu[t] \in BOOLEAN
    BY Places DEF CallType
  <1>3. Stage(t)' = Place[l] + 40 * (2 - attempt[t]) + (IF safeGpu[t] THEN 0 ELSE 20)
    BY <1>1 DEF Stage
  <1>4. Stage(t)' \in 0 .. Stage(t) - 1
    BY <1>2, <1>3 DEF Stage
  <1>5. QED
    BY <1>4 DEF Advances

LEMMA ReturnAdvances ==
  ASSUME CallType, NEW t \in Threads, Return(t)
  PROVE  Advances(t)
  BY DEF CallType, Return, Advances

LEMMA RetryOrFailAdvances ==
  ASSUME CallType, NEW t \in Threads, NEW retryable \in BOOLEAN,
         pc[t] \in {"open", "discard", "failed", "fallback"}, RetryOrFail(t, retryable)
  PROVE  Advances(t)
  <1>1. CASE Return(t)
    BY <1>1, ReturnAdvances
  <1>2. CASE Goto(t, "retry")
    BY <1>2, GotoAdvances, Places
  <1>3. QED
    BY <1>1, <1>2 DEF RetryOrFail

\* A session is taken out of the map without a move of the call.
LEMMA ClosingAdvances ==
  ASSUME ResourceType, NEW t \in Threads, NEW p \in Profiles, sessions[p] # NoBrowser,
         sessions' = [sessions EXCEPT ![p] = NoBrowser], UNCHANGED callVars
  PROVE  Advances(t)
  <1>1. Listed' = Listed \ {p} /\ p \in Listed
    BY DEF ResourceType, Listed
  <1>2. Stage(t)' = Stage(t)
    BY DEF callVars, Stage
  <1>3. QED
    BY <1>1, <1>2 DEF Advances

\* The one fallback of an attempt, and the second attempt, are launches of which there are
\* fewer left.
LEMMA RelaunchAdvances ==
  ASSUME CallType, CallWellFormed, RestartInv, NEW t \in Threads, SafeGpuFallback(t) \/ RetryLaunch(t)
  PROVE  Advances(t)
  <1>1. CASE SafeGpuFallback(t)
    <2>1. /\ pc[t] = "fallback" /\ pc'[t] = "launch" /\ safeGpu[t] = FALSE /\ safeGpu'[t] = TRUE
          /\ attempt'[t] = attempt[t] /\ attempt[t] \in 1..2
      BY <1>1 DEF SafeGpuFallback, CallType, RestartInv
    <2>2. Stage(t) = 6 + 40 * (2 - attempt[t]) + 20 /\ Stage(t)' = 11 + 40 * (2 - attempt[t])
      BY <2>1, Places DEF Stage
    <2>3. QED
      BY <2>1, <2>2 DEF Advances
  <1>2. CASE RetryLaunch(t)
    <2>1. /\ pc[t] = "retry" /\ pc'[t] = "launch" /\ safeGpu'[t] = FALSE
          /\ attempt[t] = 1 /\ attempt'[t] = 2
      BY <1>2 DEF RetryLaunch, CallType, CallWellFormed
    <2>2. Stage(t) \in {45, 65} /\ Stage(t)' = 31
      BY <2>1, Places DEF Stage
    <2>3. QED
      BY <2>2 DEF Advances
  <1>3. QED
    BY <1>1, <1>2

\* Every step of a call brings it nearer to its end.
LEMMA CallStepAdvances ==
  ASSUME CallType, ResourceType, CallWellFormed, RestartInv, NEW t \in Threads, CallStep(t)
  PROVE  Advances(t)
  <1>1. CASE \/ ReuseSession(t) \/ LaunchRejected(t) \/ LaunchPanics(t) \/ EndpointReady(t)
             \/ RetryLaunchFailed(t) \/ SessionClosed(t) \/ StopDriver(t)
    BY <1>1, ReturnAdvances DEF ReuseSession, LaunchRejected, LaunchPanics, EndpointReady, RetryLaunchFailed,
       SessionClosed, StopDriver
  <1>2. CASE \/ DropStaleSession(t) \/ NoSession(t) \/ OpenContext(t) \/ LaunchStarted(t)
             \/ PrepareFailed(t) \/ PagePrepared(t) \/ EndpointFailed(t)
    BY <1>2, GotoAdvances, Places DEF DropStaleSession, NoSession, OpenContext, LaunchStarted, PrepareFailed,
       PagePrepared, EndpointFailed
  <1>3. ASSUME NEW why \in Failures, LaunchFailed(t, why) PROVE Advances(t)
    <2>1. pc[t] = "open"
      BY <1>3 DEF LaunchFailed
    <2>2. CASE Goto(t, "fallback")
      BY <2>1, <2>2, GotoAdvances, Places
    <2>3. CASE RetryOrFail(t, why # "plain" /\ ~safeGpu[t])
      <3>1. (why # "plain" /\ ~safeGpu[t]) \in BOOLEAN
        OBVIOUS
      <3>2. QED
        BY <2>1, <2>3, <3>1, RetryOrFailAdvances
    <2>4. QED
      BY <1>3, <2>2, <2>3 DEF LaunchFailed
  <1>4. CASE (\E why \in Failures : DiscardContext(t, why)) \/ AttemptFailed(t) \/ SafeGpuFallbackFailed(t)
    BY <1>4, RetryOrFailAdvances DEF DiscardContext, AttemptFailed, SafeGpuFallbackFailed
  <1>5. CASE SafeGpuFallback(t) \/ RetryLaunch(t)
    BY <1>5, RelaunchAdvances
  <1>6. ASSUME NEW p \in Profiles, DropSession(t, p) \/ CloseNext(t, p) PROVE Advances(t)
    BY <1>6, ClosingAdvances DEF DropSession, CloseNext
  <1>7. QED
    BY <1>1, <1>2, <1>3, <1>4, <1>5, <1>6 DEF CallStep

\* While a call holds Manager.mu no other one does a step, and processes that die take no
\* session out of the map.
LEMMA NobodyIsSetBack ==
  ASSUME CallType, ResourceType, CallWellFormed, LockInv, RestartInv, [Next]_vars, NEW t \in Threads, pc[t] # Idle
  PROVE  Advances(t) \/ UNCHANGED <<Stage(t), Listed>>
  <1>1. mu = t /\ t # NoThread
    BY ManagerAssumption DEF LockInv
  <1>2. ASSUME NEW u \in Threads, CallStep(u) PROVE u = t
    <2>1. pc[u] # Idle
      BY <1>2 DEF CallStep, ReuseSession, DropStaleSession, NoSession, LaunchRejected, OpenContext,
         LaunchStarted, LaunchPanics, PrepareFailed, PagePrepared, LaunchFailed, DiscardContext,
         EndpointReady, EndpointFailed, AttemptFailed, SafeGpuFallback, SafeGpuFallbackFailed, RetryLaunch,
         RetryLaunchFailed, DropSession, CloseNext, SessionClosed, StopDriver
    <2>2. QED
      BY <1>1, <2>1 DEF LockInv
  <1>3. \A u \in Threads, p \in Profiles : ~LaunchSession(u, p) /\ ~CloseSession(u, p) /\ ~Close(u)
    BY <1>1 DEF LaunchSession, CloseSession, Close
  <1>4. CASE CallStep(t)
    BY <1>4, CallStepAdvances
  <1>5. CASE Environment \/ UNCHANGED vars
    <2>1. UNCHANGED <<callVars, sessions>>
      BY <1>5 DEF Environment, DriverExits, BrowserExits, TunnelOpens, TunnelEnds, vars
    <2>2. QED
      BY <2>1 DEF callVars, Stage, Listed
  <1>6. QED
    BY <1>2, <1>3, <1>4, <1>5, <1>1 DEF Next, Close

\* LaunchSession, CloseSession and Close hold Manager.mu for finitely many steps: no failure
\* brings a launch back to where it was, and no other call interferes.
THEOREM EveryCallAdvances == Spec => CallsAdvance
  <1> DEFINE Advance == \A t \in Threads :
        /\ CallStep(t) => Advances(t)
        /\ pc[t] # Idle => Advances(t) \/ UNCHANGED <<Stage(t), Listed>>
  <1>1. TypeOK /\ CallWellFormed /\ CoreInv /\ [Next]_vars => [Advance]_vars
    BY TypeParts, CallStepAdvances, NobodyIsSetBack DEF CoreInv
  <1>2. QED
    BY <1>1, Inductive, PTL DEF Spec, CallsAdvance

-----------------------------------------------------------------------------
\* The profiles whose launch has begun: at most one, that of the holder of Manager.mu.
Launching == {target[t] : t \in {u \in Threads : pc[u] \notin {Idle, "existing", "closing", "shutdown"}}}

\* Nothing but a launch's own steps begins, ends or gives it up.
LEMMA OthersNotLaunching ==
  ASSUME LockInv, NEW t \in Threads, mu \in {t, NoThread}
  PROVE  \A u \in Threads \ {t} : pc[u] = Idle
  BY ManagerAssumption DEF LockInv

\* Before and after a step of call t, launching is about its target at most.
LEMMA LaunchingIs ==
  ASSUME CallType, LockInv, NEW t \in Threads, mu \in {t, NoThread},
         \A u \in Threads \ {t} : pc'[u] = pc[u]
  PROVE  /\ Launching = IF pc[t] \in {Idle, "existing", "closing", "shutdown"} THEN {} ELSE {target[t]}
         /\ Launching' = IF pc'[t] \in {Idle, "existing", "closing", "shutdown"} THEN {} ELSE {target'[t]}
  <1>1. \A u \in Threads \ {t} : pc[u] = Idle /\ pc'[u] = Idle
    BY OthersNotLaunching
  <1>2. QED
    BY <1>1 DEF Launching

LEMMA Withdraws ==
  ASSUME Launching' = Launching, Listed' \subseteq Listed
  PROVE  Table!Next
  <1>1. (Listed \ Listed') \in SUBSET Profiles /\ Listed' = Listed \ (Listed \ Listed')
    BY DEF Listed
  <1>2. Table!Withdraw(Listed \ Listed')
    BY <1>1 DEF Table!Withdraw, Launching
  <1>3. QED
    BY <1>1, <1>2 DEF Table!Next

LEMMA GivesUp ==
  ASSUME Launching' = {}, Listed' = Listed
  PROVE  Table!Next
  BY DEF Table!Next, Table!GiveUp, Launching

LEMMA TableInit == Init => Table!Init
  BY DEF Init, Table!Init, Listed

\* Every step of the manager is a step of the table of sessions, or none.
LEMMA TableStep ==
  TypeOK /\ CallWellFormed /\ CoreInv /\ [Next]_vars => Table!Next \/ UNCHANGED Table!vars
  <1> DEFINE Refines == Table!Next \/ UNCHANGED Table!vars
             Out == {Idle, "existing", "closing", "shutdown"}
  <1> SUFFICES ASSUME CallType, ResourceType, CallWellFormed, CoreInv, [Next]_vars PROVE Refines
    BY TypeParts
  <1> USE DEF ctxVars
  <1>1. ASSUME NEW t \in Threads, Close(t) \/ \E p \in Profiles : LaunchSession(t, p) \/ CloseSession(t, p)
        PROVE  Refines
    <2>1. /\ mu = NoThread /\ pc[t] \in Out /\ pc'[t] \in Out
          /\ \A u \in Threads \ {t} : pc'[u] = pc[u]
      BY <1>1 DEF LaunchSession, CloseSession, Close, CallType
    <2>2. Launching' = Launching
      BY <2>1, LaunchingIs DEF CoreInv
    <2>3. Listed' \subseteq Listed
      BY <1>1 DEF LaunchSession, CloseSession, Close, Listed, ResourceType
    <2>4. QED
      BY <2>2, <2>3, Withdraws
  <1>2. ASSUME NEW t \in Threads, CallStep(t) PROVE Refines
    <2>0. /\ pc[t] # Idle
          /\ \A u \in Threads \ {t} : pc'[u] = pc[u]
      BY <1>2 DEF CallStep, ReuseSession, DropStaleSession, NoSession, LaunchRejected, OpenContext,
         LaunchStarted, LaunchPanics, PrepareFailed, PagePrepared, LaunchFailed, DiscardContext,
         EndpointReady, EndpointFailed, AttemptFailed, SafeGpuFallback, SafeGpuFallbackFailed, RetryLaunch,
         RetryLaunchFailed, DropSession, CloseNext, SessionClosed, StopDriver, RetryOrFail, Goto, Return,
         CallType, callVars
    <2>1. mu = t
      BY <2>0 DEF CoreInv, LockInv
    <2> DEFINE At(l, x) == IF l \in Out THEN {} ELSE {x}
    <2>2. Launching = At(pc[t], target[t]) /\ Launching' = At(pc'[t], target'[t])
      BY <2>0, <2>1, LaunchingIs DEF CoreInv
    <2>3. ASSUME Return(t), UNCHANGED sessions PROVE Refines
      <3>1. pc'[t] = Idle /\ Listed' = Listed
        BY <2>3 DEF Return, CallType, Listed
      <3>2. QED
        BY <2>2, <3>1, GivesUp
    <2>4. ASSUME pc[t] \notin Out, pc'[t] \notin Out, UNCHANGED <<target, sessions>> PROVE Refines
      BY <2>2, <2>4, Withdraws DEF Listed
    <2>5. ASSUME NEW r \in BOOLEAN, RetryOrFail(t, r), pc[t] \notin Out, UNCHANGED sessions PROVE Refines
      <3>1. CASE Goto(t, "retry")
        BY <2>4, <2>5, <3>1 DEF Goto, CallType
      <3>2. QED
        BY <2>3, <2>5, <3>1 DEF RetryOrFail
    <2>6. CASE \/ ReuseSession(t) \/ LaunchRejected(t) \/ LaunchPanics(t)
               \/ RetryLaunchFailed(t) \/ SessionClosed(t) \/ StopDriver(t)
      BY <2>3, <2>6 DEF ReuseSession, LaunchRejected, LaunchPanics, RetryLaunchFailed, RestartDriver,
         SessionClosed, StopDriver
    <2>7. CASE \/ OpenContext(t) \/ LaunchStarted(t) \/ PrepareFailed(t) \/ PagePrepared(t) \/ EndpointFailed(t)
               \/ SafeGpuFallback(t) \/ RetryLaunch(t)
      <3>1. pc[t] \notin Out /\ pc'[t] \notin Out /\ UNCHANGED <<target, sessions>>
        BY <2>7 DEF OpenContext, LaunchStarted, PrepareFailed, PagePrepared, EndpointFailed, SafeGpuFallback,
           RetryLaunch, RestartDriver, Goto, CallType
      <3>2. QED
        BY <2>4, <3>1
    <2>8. CASE DropStaleSession(t) \/ NoSession(t)
      <3>1. PICK p \in Profiles :
              /\ p = target[t] /\ p = target'[t] /\ pc[t] = "existing" /\ pc'[t] = "launch"
              /\ Listed' = Listed \ {p}
        BY <2>8 DEF DropStaleSession, NoSession, Goto, CallType, CallWellFormed, ResourceType, Listed
      <3>2. Table!Begin(p)
        BY <2>2, <3>1 DEF Table!Begin, Launching
      <3>3. QED
        BY <3>1, <3>2 DEF Table!Next
    <2>9. CASE EndpointReady(t)
      <3>1. PICK p \in Profiles :
              /\ p = target[t] /\ pc[t] = "bind" /\ pc'[t] = Idle
              /\ sessions' = [sessions EXCEPT ![p] = cur[t]] /\ cur[t] \in Browsers
        BY <2>9 DEF EndpointReady, Return, CallType, CallWellFormed, CoreInv, CurInv
      <3>2. Listed' = Listed \cup {p}
        BY <3>1, ManagerAssumption DEF ResourceType, Listed
      <3>3. Table!Finish(p)
        BY <2>2, <3>1, <3>2 DEF Table!Finish, Launching
      <3>4. QED
        BY <3>1, <3>3 DEF Table!Next
    <2>10. ASSUME NEW why \in Failures, LaunchFailed(t, why) PROVE Refines
      <3>1. CASE Goto(t, "fallback")
        BY <2>4, <2>10, <3>1 DEF LaunchFailed, Goto, CallType
      <3>2. CASE RetryOrFail(t, why # "plain" /\ ~safeGpu[t])
        BY <2>5, <2>10, <3>2 DEF LaunchFailed
      <3>3. QED
        BY <2>10, <3>1, <3>2 DEF LaunchFailed
    <2>11. CASE (\E why \in Failures : DiscardContext(t, why)) \/ AttemptFailed(t) \/ SafeGpuFallbackFailed(t)
      BY <2>5, <2>11 DEF DiscardContext, AttemptFailed, SafeGpuFallbackFailed, RestartDriver
    <2>12. ASSUME NEW p \in Profiles, DropSession(t, p) \/ CloseNext(t, p) PROVE Refines
      <3>1. UNCHANGED callVars /\ Listed' \subseteq Listed
        BY <2>12 DEF DropSession, CloseNext, Listed, ResourceType
      <3>2. QED
        BY <2>2, <3>1, Withdraws DEF callVars
    <2>13. QED
      BY <1>2, <2>6, <2>7, <2>8, <2>9, <2>10, <2>11, <2>12 DEF CallStep
  <1>3. CASE Environment \/ UNCHANGED vars
    <2>1. UNCHANGED <<callVars, sessions>>
      BY <1>3 DEF Environment, DriverExits, BrowserExits, TunnelOpens, TunnelEnds, vars
    <2>2. QED
      BY <2>1, Withdraws DEF callVars, Launching, Listed
  <1>4. QED
    BY <1>1, <1>2, <1>3 DEF Next

\* The manager implements SessionTable: what ListSessions returns between two launches is
\* exact, and a profile being launched is in nobody's list.
THEOREM ManagerImplementsTable == Spec => ImplementsSessionTable
  BY TableInit, TableStep, Inductive, PTL DEF Spec, ImplementsSessionTable, Table!Spec
=============================================================================
