------------------------- MODULE SessionPoolProofs -------------------------
(***************************************************************************)
(* The invariants of mcp.SessionPool, for any number of profiles, callers, *)
(* browsers and agent sessions, and any cap.                               *)
(***************************************************************************)
EXTENDS SessionPool, FiniteSetTheorems, TLAPS

USE DEF Idle, PC

BrowserType ==
  /\ current \in [Profiles -> Endpoints \cup {NoEndpoint}]
  /\ alive \in SUBSET Endpoints

PoolType ==
  /\ spMu \in Threads \cup {NoThread}
  /\ pools \in [Profiles -> Pools \cup {NoPool}]
  /\ connectURL \in [Pools -> Endpoints \cup {NoEndpoint}]
  /\ browser \in [Pools -> BOOLEAN]
  /\ members \in [Pools -> SUBSET Sessions]
  /\ poolMu \in [Pools -> Threads \cup {NoThread}]

PageType ==
  /\ page \in [Sessions -> {"open", "closed"}]
  /\ sMu \in [Sessions -> Threads \cup {NoThread}]
  /\ idle \in [Sessions -> BOOLEAN]

CallType ==
  /\ pc \in [Threads -> PC]
  /\ profile \in [Threads -> Profiles \cup {NoProfile}]
  /\ url \in [Threads -> Endpoints \cup {NoEndpoint}]
  /\ pool \in [Threads -> Pools \cup {NoPool}]
  /\ ses \in [Threads -> Sessions \cup {NoSession}]
  /\ victims \in [Threads -> SUBSET Pools]
  /\ toClose \in [Threads -> SUBSET Sessions]
  /\ todo \in [Threads -> SUBSET Sessions]
  /\ after \in [Threads -> {Idle, "gc", "create", "closeBrowser"}]

\* What a call has in its hands where it needs it.
CallWellFormed ==
  \A t \in Threads :
     /\ pc[t] \in {"ensure", "lock", "connect"} => profile[t] \in Profiles /\ url[t] \in Endpoints
     /\ pc[t] \in {"create", "newPage", "scan"} => pool[t] \in Pools
     /\ pc[t] \in {"use", "navigate", "tool"} => ses[t] \in Sessions
     /\ pc[t] = "closeBrowser" => profile[t] \in Profiles
     /\ pc[t] = "drain" /\ after[t] = "create" => pool[t] \in Pools
     /\ pc[t] = "drain" /\ after[t] = "closeBrowser" => profile[t] \in Profiles

Typed == BrowserType /\ PoolType /\ PageType /\ CallType /\ CallWellFormed

LEMMA TypeParts == TypeOK <=> Typed
  BY DEF TypeOK, Typed, BrowserType, PoolType, PageType, CallType, CallWellFormed

LEMMA TypeInit == Init => TypeOK
  BY PoolAssumption DEF Init, TypeOK

LEMMA ReturnType ==
  ASSUME CallType, CallWellFormed, NEW t \in Threads, Return(t)
  PROVE  CallType' /\ CallWellFormed'
  BY DEF CallType, CallWellFormed, Return

\* Every step keeps the variables in their sets: one step per action.
LEMMA TypeStep == TypeOK /\ [Next]_vars => TypeOK'
  <1> SUFFICES ASSUME Typed, [Next]_vars PROVE Typed'
    BY TypeParts, PTL
  <1> USE DEF Typed, browserVars, poolVars, pageVars, callVars
  <1>1. ASSUME NEW t \in Threads, NEW p \in Profiles, CreateSession(t, p) PROVE Typed'
    BY <1>1 DEF CreateSession, Launch, BrowserType, PoolType, PageType, CallType, CallWellFormed
  <1>2. ASSUME NEW t \in Threads, PoolFound(t) PROVE Typed'
    BY <1>2 DEF PoolFound, Cached, BrowserType, PoolType, PageType, CallType, CallWellFormed
  <1>3. ASSUME NEW t \in Threads, PoolMissed(t) PROVE Typed'
    BY <1>3 DEF PoolMissed, Goto, BrowserType, PoolType, PageType, CallType, CallWellFormed
  <1>4. ASSUME NEW t \in Threads, LockPools(t) PROVE Typed'
    BY <1>4 DEF LockPools, Goto, BrowserType, PoolType, PageType, CallType, CallWellFormed
  <1>5. ASSUME NEW t \in Threads, NEW q \in Pools, Connect(t, q) PROVE Typed'
    BY <1>5 DEF Connect, Drain, BrowserType, PoolType, PageType, CallType, CallWellFormed
  <1>6. ASSUME NEW t \in Threads, ConnectFails(t) PROVE Typed'
    BY <1>6 DEF ConnectFails, Return, BrowserType, PoolType, PageType, CallType, CallWellFormed
  <1>7. ASSUME NEW t \in Threads, SessionCapReached(t) PROVE Typed'
    BY <1>7 DEF SessionCapReached, Return, BrowserType, PoolType, PageType, CallType, CallWellFormed
  <1>8. ASSUME NEW t \in Threads, NewPage(t) PROVE Typed'
    BY <1>8 DEF NewPage, Goto, BrowserType, PoolType, PageType, CallType, CallWellFormed
  <1>9. ASSUME NEW t \in Threads, NewPagePanics(t) PROVE Typed'
    BY <1>9 DEF NewPagePanics, Return, BrowserType, PoolType, PageType, CallType, CallWellFormed
  <1>10. ASSUME NEW t \in Threads, NEW s \in Sessions, PageOpened(t, s) PROVE Typed'
    <2>1. BrowserType' /\ PoolType' /\ PageType'
      BY <1>10 DEF PageOpened, BrowserType, PoolType, PageType, CallWellFormed
    <2>2. CallType' /\ CallWellFormed'
      BY <1>10, ReturnType DEF PageOpened, CallType, CallWellFormed
    <2>3. QED
      BY <2>1, <2>2
  <1>11. ASSUME NEW t \in Threads, PageFails(t) PROVE Typed'
    BY <1>11 DEF PageFails, Return, BrowserType, PoolType, PageType, CallType, CallWellFormed
  <1>12. ASSUME NEW t \in Threads, UseClosed(t) PROVE Typed'
    BY <1>12 DEF UseClosed, Return, BrowserType, PoolType, PageType, CallType, CallWellFormed
  <1>13. ASSUME NEW t \in Threads, Navigate(t) PROVE Typed'
    BY <1>13 DEF Navigate, Goto, BrowserType, PoolType, PageType, CallType, CallWellFormed
  <1>14. ASSUME NEW t \in Threads, Navigated(t) PROVE Typed'
    BY <1>14 DEF Navigated, Return, BrowserType, PoolType, PageType, CallType, CallWellFormed
  <1>15. ASSUME NEW t \in Threads, PageUsed(t) PROVE Typed'
    BY <1>15 DEF PageUsed, Return, BrowserType, PoolType, PageType, CallType, CallWellFormed
  <1>16. ASSUME NEW t \in Threads, NEW q \in Pools, DropPool(t, q) PROVE Typed'
    BY <1>16 DEF DropPool, BrowserType, PoolType, PageType, CallType, CallWellFormed
  <1>17. ASSUME NEW t \in Threads, NEW s \in Sessions, ClosePage(t, s) PROVE Typed'
    BY <1>17 DEF ClosePage, BrowserType, PoolType, PageType, CallType, CallWellFormed
  <1>18. ASSUME NEW t \in Threads, NEW s \in Sessions, Examine(t, s) PROVE Typed'
    BY <1>18 DEF Examine, BrowserType, PoolType, PageType, CallType, CallWellFormed
  <1>19. ASSUME NEW t \in Threads, EnforceCap(t) PROVE Typed'
    BY <1>19 DEF EnforceCap, Drain, BrowserType, PoolType, PageType, CallType, CallWellFormed
  <1>20. ASSUME NEW t \in Threads, Drained(t) PROVE Typed'
    <2>1. BrowserType' /\ PoolType' /\ PageType'
      BY <1>20 DEF Drained, BrowserType, PoolType, PageType
    <2>2. CASE after[t] \in {Idle, "gc"}
      BY <1>20, <2>1, <2>2, ReturnType DEF Drained
    <2>3. CASE after[t] \in {"create", "closeBrowser"}
      <3>1. pc[t] = "drain" /\ Goto(t, after[t])
        BY <1>20, <2>3 DEF Drained
      <3>2. CallType' /\ CallWellFormed'
        BY <2>3, <3>1 DEF Goto, CallType, CallWellFormed
      <3>3. QED
        BY <2>1, <3>2
    <2>4. QED
      BY <2>2, <2>3 DEF CallType
  <1>21. ASSUME NEW t \in Threads, CloseBrowser(t) PROVE Typed'
    BY <1>21 DEF CloseBrowser, Return, BrowserType, PoolType, PageType, CallType, CallWellFormed
  <1>22. ASSUME NEW t \in Threads, NEW p \in Profiles, DestroyProfileSessions(t, p) PROVE Typed'
    BY <1>22 DEF DestroyProfileSessions, Drain, BrowserType, PoolType, PageType, CallType, CallWellFormed
  <1>23. ASSUME NEW t \in Threads, NEW s \in Sessions, GetSession(t, s) PROVE Typed'
    BY <1>23 DEF GetSession, BrowserType, PoolType, PageType, CallType, CallWellFormed
  <1>24. ASSUME NEW t \in Threads, NEW s \in Sessions, UsePage(t, s) PROVE Typed'
    BY <1>24 DEF UsePage, BrowserType, PoolType, PageType, CallType, CallWellFormed
  <1>25. ASSUME NEW t \in Threads, NEW s \in Sessions, DestroySession(t, s) PROVE Typed'
    BY <1>25 DEF DestroySession, Drain, BrowserType, PoolType, PageType, CallType, CallWellFormed
  <1>26. ASSUME NEW t \in Threads, CloseAll(t) PROVE Typed'
    <2>1. Mapped \subseteq Pools
      BY DEF Mapped
    <2>2. QED
      BY <1>26, <2>1 DEF CloseAll, Drain, BrowserType, PoolType, PageType, CallType, CallWellFormed
  <1>27. ASSUME NEW t \in Threads, NEW q \in Pools, GC(t, q) PROVE Typed'
    BY <1>27 DEF GC, BrowserType, PoolType, PageType, CallType, CallWellFormed
  <1>28. ASSUME Environment PROVE Typed'
    <2>1. CallType' /\ CallWellFormed' /\ PoolType'
      BY <1>28 DEF Environment, BrowserDies, CloseSession, LaunchSession, IdleTTLPasses, PoolType,
         CallType, CallWellFormed
    <2>2. ASSUME NEW e \in Endpoints, BrowserDies(e) PROVE Typed'
      BY <2>1, <2>2 DEF BrowserDies, BrowserType, PageType
    <2>3. ASSUME NEW p \in Profiles, CloseSession(p) \/ LaunchSession(p) PROVE Typed'
      BY <2>1, <2>3 DEF CloseSession, LaunchSession, Launch, BrowserType, PageType
    <2>4. ASSUME NEW s \in Sessions, IdleTTLPasses(s) PROVE Typed'
      BY <2>1, <2>4 DEF IdleTTLPasses, BrowserType, PageType
    <2>5. QED
      BY <1>28, <2>2, <2>3, <2>4 DEF Environment
  <1>29. CASE UNCHANGED vars
    BY <1>29 DEF vars, BrowserType, PoolType, PageType, CallType, CallWellFormed
  <1>30. QED
    BY <1>1, <1>2, <1>3, <1>4, <1>5, <1>6, <1>7, <1>8, <1>9, <1>10, <1>11, <1>12, <1>13, <1>14, <1>15, <1>16, <1>17, <1>18, <1>19, <1>20, <1>21, <1>22, <1>23, <1>24, <1>25, <1>26, <1>27, <1>28, <1>29 DEF Next, CallStep, Call

-----------------------------------------------------------------------------
\* Who holds a lock is at the place where the code holds it.
LockInv ==
  /\ \A t \in Threads : spMu = t <=> pc[t] = "connect"
  /\ \A t \in Threads, q \in Pools :
        poolMu[q] = t <=> pc[t] \in {"newPage", "scan"} /\ pool[t] = q
  /\ \A t \in Threads, s \in Sessions : sMu[s] = t <=> pc[t] = "navigate" /\ ses[t] = s

\* Only a call that is closing pages has pages, or pools of pages, left to close.
CleanInv ==
  \A t \in Threads :
     /\ pc[t] # "drain" => victims[t] = {}
     /\ pc[t] \notin {"drain", "scan"} => toClose[t] = {}

\* A pool belongs to one profile until somebody sets out to empty it, and keeps
\* its browser handle until it has been emptied.
PoolInv ==
  /\ \A p, r \in Profiles : pools[p] = pools[r] /\ pools[p] # NoPool => p = r
  /\ \A t \in Threads : victims[t] \cap Mapped = {}
  /\ MappedIsConnected
  /\ \A q \in Pools : browser[q] => q \in Mapped \/ \E t \in Threads : q \in victims[t]
  /\ \A t \in Threads : pc[t] = "newPage" => browser[pool[t]]

\* Whoever opens a page has counted those there are, and they have not increased.
CapInv ==
  /\ CapHeld
  /\ \A t \in Threads : pc[t] = "newPage" => Cardinality(members[pool[t]]) < MaxPerProfile

\* A browser that runs is the current one of a single profile; a URL or a pool
\* connection that leads to it is that profile's.
EndpointInv ==
  /\ \A p, r \in Profiles : current[p] = current[r] /\ current[p] # NoEndpoint => p = r
  /\ \A e \in alive : \E p \in Profiles : current[p] = e
  /\ \A t \in Threads :
       pc[t] \in {"ensure", "lock", "connect"} /\ url[t] \in alive => current[profile[t]] = url[t]
  /\ \A p \in Profiles :
       pools[p] # NoPool /\ connectURL[pools[p]] \in alive => current[p] = connectURL[pools[p]]
  /\ \A t \in Threads : pc[t] = "connect" => ~Cached(t)

\* A session is in one pool, and in none once somebody is to close its page.
PlaceInv ==
  /\ \A q, r \in Pools : q # r => members[q] \cap members[r] = {}
  /\ \A t \in Threads, q \in Pools : toClose[t] \cap members[q] = {}

\* The sessions the collector has still to look at are in the pool whose mutex it holds.
ScanInv == \A t \in Threads : pc[t] = "scan" => todo[t] \subseteq members[pool[t]]

LEMMA InvInit ==
  Init => /\ LockInv /\ CleanInv /\ PoolInv /\ ScanInv /\ PlaceInv /\ CapInv /\ EndpointInv
          /\ NavigatedPageOpen /\ NoLostPage
  BY PoolAssumption, FS_EmptySet DEF Init, LockInv, CleanInv, PoolInv, CapInv, EndpointInv, NavigatedPageOpen,
     NoLostPage, ScanInv, PlaceInv, CapHeld, MappedIsConnected, Mapped, Cached

\* A lock is taken only when it is free, and given back only by its holder.
LEMMA LockStep == Typed /\ LockInv /\ [Next]_vars => LockInv'
  <1> SUFFICES ASSUME Typed, LockInv, [Next]_vars PROVE LockInv'
    OBVIOUS
  <1> USE PoolAssumption DEF Typed, PoolType, PageType, CallType, CallWellFormed, browserVars, poolVars, pageVars, callVars
  <1>1. ASSUME NEW t \in Threads, NEW p \in Profiles, CreateSession(t, p) PROVE LockInv'
    BY <1>1 DEF CreateSession, Launch, LockInv
  <1>2. ASSUME NEW t \in Threads, PoolFound(t) PROVE LockInv'
    BY <1>2 DEF PoolFound, Cached, LockInv
  <1>3. ASSUME NEW t \in Threads, PoolMissed(t) PROVE LockInv'
    BY <1>3 DEF PoolMissed, Goto, LockInv
  <1>4. ASSUME NEW t \in Threads, LockPools(t) PROVE LockInv'
    BY <1>4 DEF LockPools, Goto, LockInv
  <1>5. ASSUME NEW t \in Threads, NEW q \in Pools, Connect(t, q) PROVE LockInv'
    BY <1>5 DEF Connect, Drain, LockInv
  <1>6. ASSUME NEW t \in Threads, ConnectFails(t) PROVE LockInv'
    BY <1>6 DEF ConnectFails, Return, LockInv
  <1>7. ASSUME NEW t \in Threads, SessionCapReached(t) PROVE LockInv'
    BY <1>7 DEF SessionCapReached, Return, LockInv
  <1>8. ASSUME NEW t \in Threads, NewPage(t) PROVE LockInv'
    BY <1>8 DEF NewPage, Goto, LockInv
  <1>9. ASSUME NEW t \in Threads, NewPagePanics(t) PROVE LockInv'
    BY <1>9 DEF NewPagePanics, Return, LockInv
  <1>10. ASSUME NEW t \in Threads, NEW s \in Sessions, PageOpened(t, s) PROVE LockInv'
    BY <1>10, SMTT(60) DEF PageOpened, Return, LockInv
  <1>11. ASSUME NEW t \in Threads, PageFails(t) PROVE LockInv'
    BY <1>11 DEF PageFails, Return, LockInv
  <1>12. ASSUME NEW t \in Threads, UseClosed(t) PROVE LockInv'
    BY <1>12 DEF UseClosed, Return, LockInv
  <1>13. ASSUME NEW t \in Threads, Navigate(t) PROVE LockInv'
    BY <1>13 DEF Navigate, Goto, LockInv
  <1>14. ASSUME NEW t \in Threads, Navigated(t) PROVE LockInv'
    BY <1>14 DEF Navigated, Return, LockInv
  <1>15. ASSUME NEW t \in Threads, PageUsed(t) PROVE LockInv'
    BY <1>15 DEF PageUsed, Return, LockInv
  <1>16. ASSUME NEW t \in Threads, NEW q \in Pools, DropPool(t, q) PROVE LockInv'
    BY <1>16 DEF DropPool, LockInv
  <1>17. ASSUME NEW t \in Threads, NEW s \in Sessions, ClosePage(t, s) PROVE LockInv'
    BY <1>17 DEF ClosePage, LockInv
  <1>18. ASSUME NEW t \in Threads, NEW s \in Sessions, Examine(t, s) PROVE LockInv'
    BY <1>18 DEF Examine, LockInv
  <1>19. ASSUME NEW t \in Threads, EnforceCap(t) PROVE LockInv'
    BY <1>19 DEF EnforceCap, Drain, LockInv
  <1>20. ASSUME NEW t \in Threads, Drained(t) PROVE LockInv'
    BY <1>20, SMTT(60) DEF Drained, Return, Goto, LockInv
  <1>21. ASSUME NEW t \in Threads, CloseBrowser(t) PROVE LockInv'
    BY <1>21 DEF CloseBrowser, Return, LockInv
  <1>22. ASSUME NEW t \in Threads, NEW p \in Profiles, DestroyProfileSessions(t, p) PROVE LockInv'
    BY <1>22 DEF DestroyProfileSessions, Drain, LockInv
  <1>23. ASSUME NEW t \in Threads, NEW s \in Sessions, GetSession(t, s) PROVE LockInv'
    BY <1>23 DEF GetSession, LockInv
  <1>24. ASSUME NEW t \in Threads, NEW s \in Sessions, UsePage(t, s) PROVE LockInv'
    BY <1>24 DEF UsePage, LockInv
  <1>25. ASSUME NEW t \in Threads, NEW s \in Sessions, DestroySession(t, s) PROVE LockInv'
    BY <1>25 DEF DestroySession, Drain, LockInv
  <1>26. ASSUME NEW t \in Threads, CloseAll(t) PROVE LockInv'
    BY <1>26 DEF CloseAll, Drain, LockInv
  <1>27. ASSUME NEW t \in Threads, NEW q \in Pools, GC(t, q) PROVE LockInv'
    BY <1>27 DEF GC, LockInv
  <1>28. ASSUME Environment PROVE LockInv'
    BY <1>28 DEF Environment, BrowserDies, CloseSession, LaunchSession, IdleTTLPasses, Launch, LockInv
  <1>29. CASE UNCHANGED vars
    BY <1>29 DEF vars, LockInv
  <1>30. QED
    BY <1>1, <1>2, <1>3, <1>4, <1>5, <1>6, <1>7, <1>8, <1>9, <1>10, <1>11, <1>12, <1>13, <1>14, <1>15, <1>16, <1>17, <1>18, <1>19, <1>20, <1>21, <1>22, <1>23, <1>24, <1>25, <1>26, <1>27, <1>28, <1>29 DEF Next, CallStep, Call

LEMMA CleanStep == Typed /\ CleanInv /\ [Next]_vars => CleanInv'
  <1> SUFFICES ASSUME Typed, CleanInv, [Next]_vars PROVE CleanInv'
    OBVIOUS
  <1> USE DEF Typed, CallType, callVars
  <1>1. ASSUME NEW t \in Threads, NEW p \in Profiles, CreateSession(t, p) PROVE CleanInv'
    BY <1>1 DEF CreateSession, Launch, CleanInv
  <1>2. ASSUME NEW t \in Threads, PoolFound(t) PROVE CleanInv'
    BY <1>2 DEF PoolFound, Cached, CleanInv
  <1>3. ASSUME NEW t \in Threads, PoolMissed(t) PROVE CleanInv'
    BY <1>3 DEF PoolMissed, Goto, CleanInv
  <1>4. ASSUME NEW t \in Threads, LockPools(t) PROVE CleanInv'
    BY <1>4 DEF LockPools, Goto, CleanInv
  <1>5. ASSUME NEW t \in Threads, NEW q \in Pools, Connect(t, q) PROVE CleanInv'
    BY <1>5 DEF Connect, Drain, CleanInv
  <1>6. ASSUME NEW t \in Threads, ConnectFails(t) PROVE CleanInv'
    BY <1>6 DEF ConnectFails, Return, CleanInv
  <1>7. ASSUME NEW t \in Threads, SessionCapReached(t) PROVE CleanInv'
    BY <1>7 DEF SessionCapReached, Return, CleanInv
  <1>8. ASSUME NEW t \in Threads, NewPage(t) PROVE CleanInv'
    BY <1>8 DEF NewPage, Goto, CleanInv
  <1>9. ASSUME NEW t \in Threads, NewPagePanics(t) PROVE CleanInv'
    BY <1>9 DEF NewPagePanics, Return, CleanInv
  <1>10. ASSUME NEW t \in Threads, NEW s \in Sessions, PageOpened(t, s) PROVE CleanInv'
    BY <1>10 DEF PageOpened, Return, CleanInv
  <1>11. ASSUME NEW t \in Threads, PageFails(t) PROVE CleanInv'
    BY <1>11 DEF PageFails, Return, CleanInv
  <1>12. ASSUME NEW t \in Threads, UseClosed(t) PROVE CleanInv'
    BY <1>12 DEF UseClosed, Return, CleanInv
  <1>13. ASSUME NEW t \in Threads, Navigate(t) PROVE CleanInv'
    BY <1>13 DEF Navigate, Goto, CleanInv
  <1>14. ASSUME NEW t \in Threads, Navigated(t) PROVE CleanInv'
    BY <1>14 DEF Navigated, Return, CleanInv
  <1>15. ASSUME NEW t \in Threads, PageUsed(t) PROVE CleanInv'
    BY <1>15 DEF PageUsed, Return, CleanInv
  <1>16. ASSUME NEW t \in Threads, NEW q \in Pools, DropPool(t, q) PROVE CleanInv'
    BY <1>16 DEF DropPool, CleanInv
  <1>17. ASSUME NEW t \in Threads, NEW s \in Sessions, ClosePage(t, s) PROVE CleanInv'
    BY <1>17 DEF ClosePage, CleanInv
  <1>18. ASSUME NEW t \in Threads, NEW s \in Sessions, Examine(t, s) PROVE CleanInv'
    BY <1>18 DEF Examine, CleanInv
  <1>19. ASSUME NEW t \in Threads, EnforceCap(t) PROVE CleanInv'
    BY <1>19 DEF EnforceCap, Drain, CleanInv
  <1>20. ASSUME NEW t \in Threads, Drained(t) PROVE CleanInv'
    BY <1>20 DEF Drained, Return, Goto, CleanInv
  <1>21. ASSUME NEW t \in Threads, CloseBrowser(t) PROVE CleanInv'
    BY <1>21 DEF CloseBrowser, Return, CleanInv
  <1>22. ASSUME NEW t \in Threads, NEW p \in Profiles, DestroyProfileSessions(t, p) PROVE CleanInv'
    BY <1>22 DEF DestroyProfileSessions, Drain, CleanInv
  <1>23. ASSUME NEW t \in Threads, NEW s \in Sessions, GetSession(t, s) PROVE CleanInv'
    BY <1>23 DEF GetSession, CleanInv
  <1>24. ASSUME NEW t \in Threads, NEW s \in Sessions, UsePage(t, s) PROVE CleanInv'
    BY <1>24 DEF UsePage, CleanInv
  <1>25. ASSUME NEW t \in Threads, NEW s \in Sessions, DestroySession(t, s) PROVE CleanInv'
    BY <1>25 DEF DestroySession, Drain, CleanInv
  <1>26. ASSUME NEW t \in Threads, CloseAll(t) PROVE CleanInv'
    BY <1>26 DEF CloseAll, Drain, CleanInv
  <1>27. ASSUME NEW t \in Threads, NEW q \in Pools, GC(t, q) PROVE CleanInv'
    BY <1>27 DEF GC, CleanInv
  <1>28. ASSUME Environment PROVE CleanInv'
    BY <1>28 DEF Environment, BrowserDies, CloseSession, LaunchSession, IdleTTLPasses, Launch, CleanInv
  <1>29. CASE UNCHANGED vars
    BY <1>29 DEF vars, CleanInv
  <1>30. QED
    BY <1>1, <1>2, <1>3, <1>4, <1>5, <1>6, <1>7, <1>8, <1>9, <1>10, <1>11, <1>12, <1>13, <1>14, <1>15, <1>16, <1>17, <1>18, <1>19, <1>20, <1>21, <1>22, <1>23, <1>24, <1>25, <1>26, <1>27, <1>28, <1>29 DEF Next, CallStep, Call

LEMMA PoolStep == Typed /\ LockInv /\ CleanInv /\ PoolInv /\ [Next]_vars => PoolInv'
  <1> SUFFICES ASSUME Typed, LockInv, CleanInv, PoolInv, [Next]_vars PROVE PoolInv'
    OBVIOUS
  <1> USE PoolAssumption DEF Typed, PoolType, CallType, CallWellFormed, LockInv, CleanInv, browserVars, poolVars, pageVars, callVars
  <1>1. ASSUME NEW t \in Threads, NEW p \in Profiles, CreateSession(t, p) PROVE PoolInv'
    BY <1>1 DEF CreateSession, Launch, PoolInv, MappedIsConnected, Mapped
  <1>2. ASSUME NEW t \in Threads, PoolFound(t) PROVE PoolInv'
    BY <1>2 DEF PoolFound, Cached, PoolInv, MappedIsConnected, Mapped
  <1>3. ASSUME NEW t \in Threads, PoolMissed(t) PROVE PoolInv'
    BY <1>3 DEF PoolMissed, Goto, PoolInv, MappedIsConnected, Mapped
  <1>4. ASSUME NEW t \in Threads, LockPools(t) PROVE PoolInv'
    BY <1>4 DEF LockPools, Goto, PoolInv, MappedIsConnected, Mapped
  <1>5. ASSUME NEW t \in Threads, NEW q \in Pools, Connect(t, q) PROVE PoolInv'
    <2> DEFINE p == profile[t]
               old == pools[profile[t]]
    <2>1. /\ p \in Profiles /\ victims[t] = {} /\ q \notin Mapped
          /\ \A u \in Threads : pool[u] # q /\ q \notin victims[u]
      BY <1>5 DEF Connect, FreePool
    <2>2. /\ pools' = [pools EXCEPT ![p] = q]
          /\ browser' = [browser EXCEPT ![q] = TRUE]
          /\ victims' = [victims EXCEPT ![t] = {old} \ {NoPool}]
      BY <1>5 DEF Connect, Drain
    <2>3. \A r, v \in Profiles : pools'[r] = pools'[v] /\ pools'[r] # NoPool => r = v
      BY <2>1, <2>2 DEF PoolInv, Mapped
    <2>4. Mapped' = (Mapped \ {old}) \cup {q}
      BY <2>1, <2>2 DEF PoolInv, Mapped
    <2>5. ASSUME NEW u \in Threads PROVE victims'[u] \cap Mapped' = {}
      <3>1. CASE u = t
        <4>1. victims'[t] = {old} \ {NoPool} /\ (old \in Pools => old # q)
          BY <2>1, <2>2 DEF Mapped
        <4>2. QED
          BY <2>4, <3>1, <4>1
      <3>2. CASE u # t
        <4>1. victims'[u] = victims[u] /\ q \notin victims[u] /\ victims[u] \cap Mapped = {}
          BY <2>1, <2>2, <3>2 DEF PoolInv
        <4>2. QED
          BY <2>4, <4>1
      <3>3. QED
        BY <3>1, <3>2
    <2>6. MappedIsConnected'
      BY <2>2, <2>4 DEF PoolInv, MappedIsConnected, Mapped
    <2>7. ASSUME NEW r \in Pools, browser'[r]
          PROVE  r \in Mapped' \/ \E u \in Threads : r \in victims'[u]
      <3>1. CASE r = q
        BY <2>4, <3>1
      <3>2. CASE r = old /\ r # q
        BY <2>2, <3>2
      <3>3. CASE r \in Mapped \ {old}
        BY <2>4, <3>3
      <3>4. ASSUME NEW u \in Threads, r \in victims[u] PROVE r \in victims'[u]
        BY <2>1, <2>2, <3>4
      <3>5. r # q => browser[r]
        BY <2>2, <2>7
      <3>6. QED
        BY <3>1, <3>2, <3>3, <3>4, <3>5 DEF PoolInv
    <2>8. \A u \in Threads : pc'[u] = "newPage" => browser'[pool'[u]]
      BY <1>5, <2>1, <2>2 DEF Connect, Drain, PoolInv
    <2>9. QED
      BY <2>3, <2>5, <2>6, <2>7, <2>8 DEF PoolInv
  <1>6. ASSUME NEW t \in Threads, ConnectFails(t) PROVE PoolInv'
    BY <1>6 DEF ConnectFails, Return, PoolInv, MappedIsConnected, Mapped
  <1>7. ASSUME NEW t \in Threads, SessionCapReached(t) PROVE PoolInv'
    BY <1>7, SMTT(60) DEF SessionCapReached, Return, PoolInv, MappedIsConnected, Mapped
  <1>8. ASSUME NEW t \in Threads, NewPage(t) PROVE PoolInv'
    BY <1>8 DEF NewPage, Goto, PoolInv, MappedIsConnected, Mapped
  <1>9. ASSUME NEW t \in Threads, NewPagePanics(t) PROVE PoolInv'
    BY <1>9 DEF NewPagePanics, Return, PoolInv, MappedIsConnected, Mapped
  <1>10. ASSUME NEW t \in Threads, NEW s \in Sessions, PageOpened(t, s) PROVE PoolInv'
    <2>1. pc[t] = "newPage" /\ victims[t] = {}
      BY <1>10 DEF PageOpened
    <2>2. UNCHANGED <<pools, browser>> /\ (victims' = victims \/ victims' = [victims EXCEPT ![t] = {}])
      BY <1>10 DEF PageOpened, Return
    <2>3. ASSUME NEW u \in Threads PROVE victims'[u] = victims[u]
      <3>1. CASE u = t
        <4>1. victims' = [victims EXCEPT ![t] = {}] => victims'[t] = {}
          OBVIOUS
        <4>2. QED
          BY <2>1, <2>2, <3>1, <4>1
      <3>2. CASE u # t
        BY <2>2, <3>2
      <3>3. QED
        BY <3>1, <3>2
    <2>4. Mapped' = Mapped
      BY <2>2 DEF Mapped
    <2>5. \A u \in Threads : pc'[u] = "newPage" => pc[u] = "newPage" /\ pool'[u] = pool[u]
      BY <1>10 DEF PageOpened, Return
    <2>6. QED
      BY <2>2, <2>3, <2>4, <2>5 DEF PoolInv, MappedIsConnected
  <1>11. ASSUME NEW t \in Threads, PageFails(t) PROVE PoolInv'
    BY <1>11, SMTT(60) DEF PageFails, Return, PoolInv, MappedIsConnected, Mapped
  <1>12. ASSUME NEW t \in Threads, UseClosed(t) PROVE PoolInv'
    BY <1>12, SMTT(60) DEF UseClosed, Return, PoolInv, MappedIsConnected, Mapped
  <1>13. ASSUME NEW t \in Threads, Navigate(t) PROVE PoolInv'
    BY <1>13 DEF Navigate, Goto, PoolInv, MappedIsConnected, Mapped
  <1>14. ASSUME NEW t \in Threads, Navigated(t) PROVE PoolInv'
    BY <1>14 DEF Navigated, Return, PoolInv, MappedIsConnected, Mapped
  <1>15. ASSUME NEW t \in Threads, PageUsed(t) PROVE PoolInv'
    BY <1>15, SMTT(60) DEF PageUsed, Return, PoolInv, MappedIsConnected, Mapped
  <1>16. ASSUME NEW t \in Threads, NEW q \in Pools, DropPool(t, q) PROVE PoolInv'
    BY <1>16 DEF DropPool, PoolInv, MappedIsConnected, Mapped
  <1>17. ASSUME NEW t \in Threads, NEW s \in Sessions, ClosePage(t, s) PROVE PoolInv'
    BY <1>17 DEF ClosePage, PoolInv, MappedIsConnected, Mapped
  <1>18. ASSUME NEW t \in Threads, NEW s \in Sessions, Examine(t, s) PROVE PoolInv'
    BY <1>18, SMTT(60) DEF Examine, PoolInv, MappedIsConnected, Mapped
  <1>19. ASSUME NEW t \in Threads, EnforceCap(t) PROVE PoolInv'
    BY <1>19 DEF EnforceCap, Drain, PoolInv, MappedIsConnected, Mapped
  <1>20. ASSUME NEW t \in Threads, Drained(t) PROVE PoolInv'
    <2>1. pc[t] = "drain" /\ victims[t] = {}
      BY <1>20 DEF Drained
    <2>2. UNCHANGED <<pools, browser>> /\ (victims' = victims \/ victims' = [victims EXCEPT ![t] = {}])
      BY <1>20 DEF Drained, Return, Goto
    <2>3. ASSUME NEW u \in Threads PROVE victims'[u] = victims[u]
      <3>1. CASE u = t
        <4>1. victims' = [victims EXCEPT ![t] = {}] => victims'[t] = {}
          OBVIOUS
        <4>2. QED
          BY <2>1, <2>2, <3>1, <4>1
      <3>2. CASE u # t
        BY <2>2, <3>2
      <3>3. QED
        BY <3>1, <3>2
    <2>4. Mapped' = Mapped
      BY <2>2 DEF Mapped
    <2>5. \A u \in Threads : pc'[u] = "newPage" => pc[u] = "newPage" /\ pool'[u] = pool[u]
      BY <1>20 DEF Drained, Return, Goto
    <2>6. QED
      BY <2>2, <2>3, <2>4, <2>5 DEF PoolInv, MappedIsConnected
  <1>21. ASSUME NEW t \in Threads, CloseBrowser(t) PROVE PoolInv'
    BY <1>21 DEF CloseBrowser, Return, PoolInv, MappedIsConnected, Mapped
  <1>22. ASSUME NEW t \in Threads, NEW p \in Profiles, DestroyProfileSessions(t, p) PROVE PoolInv'
    BY <1>22 DEF DestroyProfileSessions, Drain, PoolInv, MappedIsConnected, Mapped
  <1>23. ASSUME NEW t \in Threads, NEW s \in Sessions, GetSession(t, s) PROVE PoolInv'
    BY <1>23 DEF GetSession, PoolInv, MappedIsConnected, Mapped
  <1>24. ASSUME NEW t \in Threads, NEW s \in Sessions, UsePage(t, s) PROVE PoolInv'
    BY <1>24 DEF UsePage, PoolInv, MappedIsConnected, Mapped
  <1>25. ASSUME NEW t \in Threads, NEW s \in Sessions, DestroySession(t, s) PROVE PoolInv'
    BY <1>25 DEF DestroySession, Drain, PoolInv, MappedIsConnected, Mapped
  <1>26. ASSUME NEW t \in Threads, CloseAll(t) PROVE PoolInv'
    BY <1>26 DEF CloseAll, Drain, PoolInv, MappedIsConnected, Mapped
  <1>27. ASSUME NEW t \in Threads, NEW q \in Pools, GC(t, q) PROVE PoolInv'
    <2>1. UNCHANGED <<pools, browser>> /\ \A u \in Threads : victims'[u] = victims[u]
      BY <1>27 DEF GC
    <2>2. Mapped' = Mapped
      BY <2>1 DEF Mapped
    <2>3. \A u \in Threads : pc'[u] = "newPage" => pc[u] = "newPage" /\ pool'[u] = pool[u]
      BY <1>27 DEF GC
    <2>4. QED
      BY <2>1, <2>2, <2>3 DEF PoolInv, MappedIsConnected
  <1>28. ASSUME Environment PROVE PoolInv'
    BY <1>28 DEF Environment, BrowserDies, CloseSession, LaunchSession, IdleTTLPasses, Launch, PoolInv, MappedIsConnected, Mapped
  <1>29. CASE UNCHANGED vars
    BY <1>29 DEF vars, PoolInv, MappedIsConnected, Mapped
  <1>30. QED
    BY <1>1, <1>2, <1>3, <1>4, <1>5, <1>6, <1>7, <1>8, <1>9, <1>10, <1>11, <1>12, <1>13, <1>14, <1>15, <1>16, <1>17, <1>18, <1>19, <1>20, <1>21, <1>22, <1>23, <1>24, <1>25, <1>26, <1>27, <1>28, <1>29 DEF Next, CallStep, Call

LEMMA ScanStep == Typed /\ LockInv /\ ScanInv /\ [Next]_vars => ScanInv'
  <1> SUFFICES ASSUME Typed, LockInv, ScanInv, [Next]_vars PROVE ScanInv'
    OBVIOUS
  <1> USE PoolAssumption DEF Typed, PoolType, CallType, CallWellFormed, LockInv, ScanInv, browserVars, poolVars,
          pageVars, callVars
  <1>1. ASSUME NEW t \in Threads, NEW p \in Profiles, CreateSession(t, p) PROVE ScanInv'
    BY <1>1 DEF CreateSession, Launch
  <1>2. ASSUME NEW t \in Threads, PoolFound(t) PROVE ScanInv'
    BY <1>2 DEF PoolFound, Cached
  <1>3. ASSUME NEW t \in Threads, PoolMissed(t) PROVE ScanInv'
    BY <1>3 DEF PoolMissed, Goto
  <1>4. ASSUME NEW t \in Threads, LockPools(t) PROVE ScanInv'
    BY <1>4 DEF LockPools, Goto
  <1>5. ASSUME NEW t \in Threads, NEW q \in Pools, Connect(t, q) PROVE ScanInv'
    BY <1>5 DEF Connect, Drain, FreePool
  <1>6. ASSUME NEW t \in Threads, ConnectFails(t) PROVE ScanInv'
    BY <1>6 DEF ConnectFails, Return
  <1>7. ASSUME NEW t \in Threads, SessionCapReached(t) PROVE ScanInv'
    BY <1>7 DEF SessionCapReached, Return
  <1>8. ASSUME NEW t \in Threads, NewPage(t) PROVE ScanInv'
    BY <1>8 DEF NewPage, Goto
  <1>9. ASSUME NEW t \in Threads, NewPagePanics(t) PROVE ScanInv'
    BY <1>9 DEF NewPagePanics, Return
  <1>10. ASSUME NEW t \in Threads, NEW s \in Sessions, PageOpened(t, s) PROVE ScanInv'
    BY <1>10 DEF PageOpened, Return
  <1>11. ASSUME NEW t \in Threads, PageFails(t) PROVE ScanInv'
    BY <1>11 DEF PageFails, Return
  <1>12. ASSUME NEW t \in Threads, UseClosed(t) PROVE ScanInv'
    BY <1>12 DEF UseClosed, Return
  <1>13. ASSUME NEW t \in Threads, Navigate(t) PROVE ScanInv'
    BY <1>13 DEF Navigate, Goto
  <1>14. ASSUME NEW t \in Threads, Navigated(t) PROVE ScanInv'
    BY <1>14 DEF Navigated, Return
  <1>15. ASSUME NEW t \in Threads, PageUsed(t) PROVE ScanInv'
    BY <1>15 DEF PageUsed, Return
  <1>16. ASSUME NEW t \in Threads, NEW q \in Pools, DropPool(t, q) PROVE ScanInv'
    BY <1>16 DEF DropPool
  <1>17. ASSUME NEW t \in Threads, NEW s \in Sessions, ClosePage(t, s) PROVE ScanInv'
    BY <1>17 DEF ClosePage
  <1>18. ASSUME NEW t \in Threads, NEW s \in Sessions, Examine(t, s) PROVE ScanInv'
    BY <1>18 DEF Examine
  <1>19. ASSUME NEW t \in Threads, EnforceCap(t) PROVE ScanInv'
    BY <1>19 DEF EnforceCap, Drain
  <1>20. ASSUME NEW t \in Threads, Drained(t) PROVE ScanInv'
    BY <1>20 DEF Drained, Return, Goto
  <1>21. ASSUME NEW t \in Threads, CloseBrowser(t) PROVE ScanInv'
    BY <1>21 DEF CloseBrowser, Return
  <1>22. ASSUME NEW t \in Threads, NEW p \in Profiles, DestroyProfileSessions(t, p) PROVE ScanInv'
    BY <1>22 DEF DestroyProfileSessions, Drain
  <1>23. ASSUME NEW t \in Threads, NEW s \in Sessions, GetSession(t, s) PROVE ScanInv'
    BY <1>23 DEF GetSession
  <1>24. ASSUME NEW t \in Threads, NEW s \in Sessions, UsePage(t, s) PROVE ScanInv'
    BY <1>24 DEF UsePage
  <1>25. ASSUME NEW t \in Threads, NEW s \in Sessions, DestroySession(t, s) PROVE ScanInv'
    BY <1>25 DEF DestroySession, Drain
  <1>26. ASSUME NEW t \in Threads, CloseAll(t) PROVE ScanInv'
    BY <1>26 DEF CloseAll, Drain
  <1>27. ASSUME NEW t \in Threads, NEW q \in Pools, GC(t, q) PROVE ScanInv'
    BY <1>27 DEF GC
  <1>28. CASE Environment
    BY <1>28 DEF Environment, BrowserDies, CloseSession, LaunchSession, IdleTTLPasses
  <1>29. CASE UNCHANGED vars
    BY <1>29 DEF vars
  <1>30. QED
    BY <1>1, <1>2, <1>3, <1>4, <1>5, <1>6, <1>7, <1>8, <1>9, <1>10, <1>11, <1>12, <1>13, <1>14,
       <1>15, <1>16, <1>17, <1>18, <1>19, <1>20, <1>21, <1>22, <1>23, <1>24, <1>25, <1>26, <1>27,
       <1>28, <1>29 DEF Next, CallStep, Call

\* Taking sessions out of pools, to close their pages or not, keeps that.
LEMMA PlaceKept ==
  ASSUME PlaceInv,
         \A q \in Pools : members'[q] \subseteq members[q],
         \A t \in Threads : \A s \in toClose'[t] : s \in toClose[t] \/ \A q \in Pools : s \notin members'[q]
  PROVE  PlaceInv'
  BY DEF PlaceInv

LEMMA PlaceStep == Typed /\ ScanInv /\ PlaceInv /\ [Next]_vars => PlaceInv'
  <1> SUFFICES ASSUME Typed, ScanInv, PlaceInv, [Next]_vars PROVE PlaceInv'
    OBVIOUS
  <1> USE DEF Typed, PoolType, CallType, browserVars, poolVars, pageVars, callVars
  <1>1. ASSUME NEW t \in Threads, NEW p \in Profiles, CreateSession(t, p) PROVE PlaceInv'
    BY <1>1, PlaceKept DEF CreateSession, Launch
  <1>2. ASSUME NEW t \in Threads, PoolFound(t) PROVE PlaceInv'
    BY <1>2, PlaceKept DEF PoolFound, Cached
  <1>3. ASSUME NEW t \in Threads, PoolMissed(t) PROVE PlaceInv'
    BY <1>3, PlaceKept DEF PoolMissed, Goto
  <1>4. ASSUME NEW t \in Threads, LockPools(t) PROVE PlaceInv'
    BY <1>4, PlaceKept DEF LockPools, Goto
  <1>5. ASSUME NEW t \in Threads, NEW q \in Pools, Connect(t, q) PROVE PlaceInv'
    BY <1>5, PlaceKept DEF Connect, Drain
  <1>6. ASSUME NEW t \in Threads, ConnectFails(t) PROVE PlaceInv'
    BY <1>6, PlaceKept DEF ConnectFails, Return
  <1>7. ASSUME NEW t \in Threads, SessionCapReached(t) PROVE PlaceInv'
    BY <1>7, PlaceKept DEF SessionCapReached, Return
  <1>8. ASSUME NEW t \in Threads, NewPage(t) PROVE PlaceInv'
    BY <1>8, PlaceKept DEF NewPage, Goto
  <1>9. ASSUME NEW t \in Threads, NewPagePanics(t) PROVE PlaceInv'
    BY <1>9, PlaceKept DEF NewPagePanics, Return
  <1>10. ASSUME NEW t \in Threads, NEW s \in Sessions, PageOpened(t, s) PROVE PlaceInv'
    <2>1. pc[t] = "newPage" /\ pool[t] \in Pools /\ FreeSession(s)
      BY <1>10 DEF PageOpened, CallWellFormed
    <2>2. members' = [members EXCEPT ![pool[t]] = @ \cup {s}]
      BY <1>10 DEF PageOpened
    <2>3. \A u \in Threads : toClose'[u] \subseteq toClose[u]
      BY <1>10 DEF PageOpened, Return
    <2>4. QED
      BY <2>1, <2>2, <2>3 DEF PlaceInv, FreeSession
  <1>11. ASSUME NEW t \in Threads, PageFails(t) PROVE PlaceInv'
    BY <1>11, PlaceKept DEF PageFails, Return
  <1>12. ASSUME NEW t \in Threads, UseClosed(t) PROVE PlaceInv'
    BY <1>12, PlaceKept DEF UseClosed, Return
  <1>13. ASSUME NEW t \in Threads, Navigate(t) PROVE PlaceInv'
    BY <1>13, PlaceKept DEF Navigate, Goto
  <1>14. ASSUME NEW t \in Threads, Navigated(t) PROVE PlaceInv'
    BY <1>14, PlaceKept DEF Navigated, Return
  <1>15. ASSUME NEW t \in Threads, PageUsed(t) PROVE PlaceInv'
    BY <1>15, PlaceKept DEF PageUsed, Return
  <1>16. ASSUME NEW t \in Threads, NEW q \in Pools, DropPool(t, q) PROVE PlaceInv'
    <2>1. /\ members' = [members EXCEPT ![q] = {}]
          /\ toClose' = [toClose EXCEPT ![t] = members[q]]
      BY <1>16 DEF DropPool
    <2>2. \A r \in Pools : members[q] \cap members'[r] = {}
      BY <2>1 DEF PlaceInv
    <2>3. QED
      BY <2>1, <2>2, PlaceKept
  <1>17. ASSUME NEW t \in Threads, NEW s \in Sessions, ClosePage(t, s) PROVE PlaceInv'
    BY <1>17, PlaceKept DEF ClosePage
  <1>18. ASSUME NEW t \in Threads, NEW s \in Sessions, Examine(t, s) PROVE PlaceInv'
    <2>1. pool[t] \in Pools
      BY <1>18 DEF Examine, CallWellFormed
    <2>2. /\ members' = [members EXCEPT ![pool[t]] = IF idle[s] THEN @ \ {s} ELSE @]
          /\ toClose' = [toClose EXCEPT ![t] = IF idle[s] THEN @ \cup {s} ELSE @]
      BY <1>18 DEF Examine
    <2>3. idle[s] => \A r \in Pools : s \notin members'[r]
      BY <1>18, <2>1, <2>2 DEF Examine, PlaceInv, ScanInv
    <2>4. QED
      BY <2>1, <2>2, <2>3, PlaceKept
  <1>19. ASSUME NEW t \in Threads, EnforceCap(t) PROVE PlaceInv'
    <2>1. pool[t] \in Pools
      BY <1>19 DEF EnforceCap, CallWellFormed
    <2>2. PICK S \in SUBSET members[pool[t]] :
             /\ members' = [members EXCEPT ![pool[t]] = @ \ S]
             /\ toClose' = [toClose EXCEPT ![t] = toClose[t] \cup S]
      BY <1>19 DEF EnforceCap, Drain
    <2>3. \A x \in S, r \in Pools : x \notin members'[r]
      BY <2>1, <2>2 DEF PlaceInv
    <2>4. QED
      BY <2>1, <2>2, <2>3, PlaceKept
  <1>20. ASSUME NEW t \in Threads, Drained(t) PROVE PlaceInv'
    BY <1>20, PlaceKept DEF Drained, Return, Goto
  <1>21. ASSUME NEW t \in Threads, CloseBrowser(t) PROVE PlaceInv'
    BY <1>21, PlaceKept DEF CloseBrowser, Return
  <1>22. ASSUME NEW t \in Threads, NEW p \in Profiles, DestroyProfileSessions(t, p) PROVE PlaceInv'
    BY <1>22, PlaceKept DEF DestroyProfileSessions, Drain
  <1>23. ASSUME NEW t \in Threads, NEW s \in Sessions, GetSession(t, s) PROVE PlaceInv'
    BY <1>23, PlaceKept DEF GetSession
  <1>24. ASSUME NEW t \in Threads, NEW s \in Sessions, UsePage(t, s) PROVE PlaceInv'
    BY <1>24, PlaceKept DEF UsePage
  <1>25. ASSUME NEW t \in Threads, NEW s \in Sessions, DestroySession(t, s) PROVE PlaceInv'
    <2>1. PICK q \in Pools : s \in members[q] /\ members' = [members EXCEPT ![q] = @ \ {s}]
      BY <1>25 DEF DestroySession
    <2>2. toClose' = [toClose EXCEPT ![t] = {s}]
      BY <1>25 DEF DestroySession, Drain
    <2>3. \A r \in Pools : s \notin members'[r]
      BY <2>1 DEF PlaceInv
    <2>4. QED
      BY <2>1, <2>2, <2>3, PlaceKept
  <1>26. ASSUME NEW t \in Threads, CloseAll(t) PROVE PlaceInv'
    BY <1>26, PlaceKept DEF CloseAll, Drain
  <1>27. ASSUME NEW t \in Threads, NEW q \in Pools, GC(t, q) PROVE PlaceInv'
    BY <1>27, PlaceKept DEF GC
  <1>28. CASE Environment
    BY <1>28, PlaceKept DEF Environment, BrowserDies, CloseSession, LaunchSession, IdleTTLPasses
  <1>29. CASE UNCHANGED vars
    BY <1>29, PlaceKept DEF vars
  <1>30. QED
    BY <1>1, <1>2, <1>3, <1>4, <1>5, <1>6, <1>7, <1>8, <1>9, <1>10, <1>11, <1>12, <1>13, <1>14,
       <1>15, <1>16, <1>17, <1>18, <1>19, <1>20, <1>21, <1>22, <1>23, <1>24, <1>25, <1>26, <1>27,
       <1>28, <1>29 DEF Next, CallStep, Call

\* The session of a navigation is locked, and closePage waits for that lock.
LEMMA NavigatedStep == Typed /\ LockInv /\ NavigatedPageOpen /\ [Next]_vars => NavigatedPageOpen'
  <1> SUFFICES ASSUME Typed, LockInv, NavigatedPageOpen, [Next]_vars PROVE NavigatedPageOpen'
    OBVIOUS
  <1> USE PoolAssumption DEF Typed, PageType, CallType, CallWellFormed, LockInv, browserVars, poolVars, pageVars, callVars
  <1>1. ASSUME NEW t \in Threads, NEW p \in Profiles, CreateSession(t, p) PROVE NavigatedPageOpen'
    BY <1>1 DEF CreateSession, Launch, NavigatedPageOpen
  <1>2. ASSUME NEW t \in Threads, PoolFound(t) PROVE NavigatedPageOpen'
    BY <1>2 DEF PoolFound, Cached, NavigatedPageOpen
  <1>3. ASSUME NEW t \in Threads, PoolMissed(t) PROVE NavigatedPageOpen'
    BY <1>3 DEF PoolMissed, Goto, NavigatedPageOpen
  <1>4. ASSUME NEW t \in Threads, LockPools(t) PROVE NavigatedPageOpen'
    BY <1>4 DEF LockPools, Goto, NavigatedPageOpen
  <1>5. ASSUME NEW t \in Threads, NEW q \in Pools, Connect(t, q) PROVE NavigatedPageOpen'
    BY <1>5 DEF Connect, Drain, NavigatedPageOpen
  <1>6. ASSUME NEW t \in Threads, ConnectFails(t) PROVE NavigatedPageOpen'
    BY <1>6 DEF ConnectFails, Return, NavigatedPageOpen
  <1>7. ASSUME NEW t \in Threads, SessionCapReached(t) PROVE NavigatedPageOpen'
    BY <1>7 DEF SessionCapReached, Return, NavigatedPageOpen
  <1>8. ASSUME NEW t \in Threads, NewPage(t) PROVE NavigatedPageOpen'
    BY <1>8 DEF NewPage, Goto, NavigatedPageOpen
  <1>9. ASSUME NEW t \in Threads, NewPagePanics(t) PROVE NavigatedPageOpen'
    BY <1>9 DEF NewPagePanics, Return, NavigatedPageOpen
  <1>10. ASSUME NEW t \in Threads, NEW s \in Sessions, PageOpened(t, s) PROVE NavigatedPageOpen'
    BY <1>10 DEF PageOpened, Return, NavigatedPageOpen
  <1>11. ASSUME NEW t \in Threads, PageFails(t) PROVE NavigatedPageOpen'
    BY <1>11 DEF PageFails, Return, NavigatedPageOpen
  <1>12. ASSUME NEW t \in Threads, UseClosed(t) PROVE NavigatedPageOpen'
    BY <1>12 DEF UseClosed, Return, NavigatedPageOpen
  <1>13. ASSUME NEW t \in Threads, Navigate(t) PROVE NavigatedPageOpen'
    BY <1>13 DEF Navigate, Goto, NavigatedPageOpen
  <1>14. ASSUME NEW t \in Threads, Navigated(t) PROVE NavigatedPageOpen'
    BY <1>14 DEF Navigated, Return, NavigatedPageOpen
  <1>15. ASSUME NEW t \in Threads, PageUsed(t) PROVE NavigatedPageOpen'
    BY <1>15 DEF PageUsed, Return, NavigatedPageOpen
  <1>16. ASSUME NEW t \in Threads, NEW q \in Pools, DropPool(t, q) PROVE NavigatedPageOpen'
    BY <1>16 DEF DropPool, NavigatedPageOpen
  <1>17. ASSUME NEW t \in Threads, NEW s \in Sessions, ClosePage(t, s) PROVE NavigatedPageOpen'
    BY <1>17 DEF ClosePage, NavigatedPageOpen
  <1>18. ASSUME NEW t \in Threads, NEW s \in Sessions, Examine(t, s) PROVE NavigatedPageOpen'
    BY <1>18 DEF Examine, NavigatedPageOpen
  <1>19. ASSUME NEW t \in Threads, EnforceCap(t) PROVE NavigatedPageOpen'
    BY <1>19 DEF EnforceCap, Drain, NavigatedPageOpen
  <1>20. ASSUME NEW t \in Threads, Drained(t) PROVE NavigatedPageOpen'
    BY <1>20 DEF Drained, Return, Goto, NavigatedPageOpen
  <1>21. ASSUME NEW t \in Threads, CloseBrowser(t) PROVE NavigatedPageOpen'
    BY <1>21 DEF CloseBrowser, Return, NavigatedPageOpen
  <1>22. ASSUME NEW t \in Threads, NEW p \in Profiles, DestroyProfileSessions(t, p) PROVE NavigatedPageOpen'
    BY <1>22 DEF DestroyProfileSessions, Drain, NavigatedPageOpen
  <1>23. ASSUME NEW t \in Threads, NEW s \in Sessions, GetSession(t, s) PROVE NavigatedPageOpen'
    BY <1>23 DEF GetSession, NavigatedPageOpen
  <1>24. ASSUME NEW t \in Threads, NEW s \in Sessions, UsePage(t, s) PROVE NavigatedPageOpen'
    BY <1>24 DEF UsePage, NavigatedPageOpen
  <1>25. ASSUME NEW t \in Threads, NEW s \in Sessions, DestroySession(t, s) PROVE NavigatedPageOpen'
    BY <1>25 DEF DestroySession, Drain, NavigatedPageOpen
  <1>26. ASSUME NEW t \in Threads, CloseAll(t) PROVE NavigatedPageOpen'
    BY <1>26 DEF CloseAll, Drain, NavigatedPageOpen
  <1>27. ASSUME NEW t \in Threads, NEW q \in Pools, GC(t, q) PROVE NavigatedPageOpen'
    BY <1>27 DEF GC, NavigatedPageOpen
  <1>28. ASSUME Environment PROVE NavigatedPageOpen'
    BY <1>28 DEF Environment, BrowserDies, CloseSession, LaunchSession, IdleTTLPasses, Launch, NavigatedPageOpen
  <1>29. CASE UNCHANGED vars
    BY <1>29 DEF vars, NavigatedPageOpen
  <1>30. QED
    BY <1>1, <1>2, <1>3, <1>4, <1>5, <1>6, <1>7, <1>8, <1>9, <1>10, <1>11, <1>12, <1>13, <1>14, <1>15, <1>16, <1>17, <1>18, <1>19, <1>20, <1>21, <1>22, <1>23, <1>24, <1>25, <1>26, <1>27, <1>28, <1>29 DEF Next, CallStep, Call

\* Where an open page can be found.
Reachable(s) ==
  \/ \E q \in Mapped : s \in members[q]
  \/ \E t \in Threads : s \in toClose[t] \/ \E q \in victims[t] : s \in members[q]

LEMMA NoLostPageStep == Typed /\ CleanInv /\ PoolInv /\ NoLostPage /\ [Next]_vars => NoLostPage'
  <1> SUFFICES ASSUME Typed, CleanInv, PoolInv, NoLostPage, [Next]_vars PROVE NoLostPage'
    OBVIOUS
  <1> USE PoolAssumption DEF Typed, PoolType, PageType, CallType, CallWellFormed, CleanInv, PoolInv, browserVars, poolVars, pageVars, callVars
  <1>1. ASSUME NEW t \in Threads, NEW p \in Profiles, CreateSession(t, p) PROVE NoLostPage'
    BY <1>1 DEF CreateSession, Launch, NoLostPage, Mapped
  <1>2. ASSUME NEW t \in Threads, PoolFound(t) PROVE NoLostPage'
    BY <1>2 DEF PoolFound, Cached, NoLostPage, Mapped
  <1>3. ASSUME NEW t \in Threads, PoolMissed(t) PROVE NoLostPage'
    BY <1>3 DEF PoolMissed, Goto, NoLostPage, Mapped
  <1>4. ASSUME NEW t \in Threads, LockPools(t) PROVE NoLostPage'
    BY <1>4 DEF LockPools, Goto, NoLostPage, Mapped
  <1>5. ASSUME NEW t \in Threads, NEW q \in Pools, Connect(t, q) PROVE NoLostPage'
    <2> SUFFICES ASSUME NEW x \in Sessions, page'[x] = "open" PROVE Reachable(x)'
      BY DEF NoLostPage, Reachable
    <2> DEFINE old == pools[profile[t]]
    <2>1. q \notin Mapped /\ \A u \in Threads : q \notin victims[u]
      BY <1>5 DEF Connect, FreePool
    <2>2. /\ pools' = [pools EXCEPT ![profile[t]] = q] /\ profile[t] \in Profiles
          /\ members' = [members EXCEPT ![q] = {}]
          /\ victims' = [victims EXCEPT ![t] = {old} \ {NoPool}] /\ victims[t] = {}
          /\ toClose' = [toClose EXCEPT ![t] = {}] /\ toClose[t] = {}
      BY <1>5 DEF Connect, Drain
    <2>3. Reachable(x)
      BY <1>5 DEF Connect, NoLostPage, Reachable
    <2>4. ASSUME NEW r \in Mapped, x \in members[r] PROVE Reachable(x)'
      <3>1. r \in Pools /\ x \in members'[r]
        BY <2>1, <2>2, <2>4 DEF Mapped
      <3>2. CASE r = old
        <4>1. r \in victims'[t]
          BY <2>2, <3>1, <3>2
        <4>2. QED
          BY <3>1, <4>1 DEF Reachable
      <3>3. CASE r # old
        <4>1. r \in Mapped'
          BY <2>2, <3>1, <3>3, <2>4 DEF Mapped
        <4>2. QED
          BY <3>1, <4>1 DEF Reachable
      <3>4. QED
        BY <3>2, <3>3
    <2>5. ASSUME NEW u \in Threads, x \in toClose[u] PROVE Reachable(x)'
      BY <2>2, <2>5 DEF Reachable
    <2>6. ASSUME NEW u \in Threads, NEW r \in victims[u], x \in members[r] PROVE Reachable(x)'
      <3>1. r \in Pools /\ r \in victims'[u] /\ x \in members'[r]
        BY <2>1, <2>2, <2>6
      <3>2. QED
        BY <3>1 DEF Reachable
    <2>7. QED
      BY <2>3, <2>4, <2>5, <2>6 DEF Reachable
  <1>6. ASSUME NEW t \in Threads, ConnectFails(t) PROVE NoLostPage'
    BY <1>6 DEF ConnectFails, Return, NoLostPage, Mapped
  <1>7. ASSUME NEW t \in Threads, SessionCapReached(t) PROVE NoLostPage'
    BY <1>7, SMTT(60) DEF SessionCapReached, Return, NoLostPage, Mapped
  <1>8. ASSUME NEW t \in Threads, NewPage(t) PROVE NoLostPage'
    BY <1>8 DEF NewPage, Goto, NoLostPage, Mapped
  <1>9. ASSUME NEW t \in Threads, NewPagePanics(t) PROVE NoLostPage'
    BY <1>9, SMTT(60) DEF NewPagePanics, Return, NoLostPage, Mapped
  <1>10. ASSUME NEW t \in Threads, NEW s \in Sessions, PageOpened(t, s) PROVE NoLostPage'
    <2> SUFFICES ASSUME NEW x \in Sessions, page'[x] = "open" PROVE Reachable(x)'
      BY DEF NoLostPage, Reachable
    <2>1. Mapped' = Mapped /\ \A u \in Threads : victims'[u] = victims[u] /\ toClose'[u] = toClose[u]
      <3>1. pc[t] = "newPage" /\ victims[t] = {} /\ toClose[t] = {}
        BY <1>10 DEF PageOpened
      <3>2. /\ pools' = pools
            /\ victims' = victims \/ victims' = [victims EXCEPT ![t] = {}]
            /\ toClose' = toClose \/ toClose' = [toClose EXCEPT ![t] = {}]
        BY <1>10 DEF PageOpened, Return
      <3>3. /\ victims' = [victims EXCEPT ![t] = {}] => victims'[t] = {}
            /\ toClose' = [toClose EXCEPT ![t] = {}] => toClose'[t] = {}
        OBVIOUS
      <3>4. victims'[t] = victims[t] /\ toClose'[t] = toClose[t]
        BY <3>1, <3>2, <3>3
      <3>5. \A u \in Threads : u # t => victims'[u] = victims[u] /\ toClose'[u] = toClose[u]
        BY <3>2
      <3>6. QED
        BY <3>2, <3>4, <3>5 DEF Mapped
    <2>2. pool[t] \in Pools /\ browser[pool[t]] /\ s \in members'[pool[t]]
      BY <1>10 DEF PageOpened
    <2>3. \A r \in Pools : members[r] \subseteq members'[r]
      BY <1>10 DEF PageOpened
    <2>4. CASE x = s
      <3>1. pool[t] \in Mapped \/ \E u \in Threads : pool[t] \in victims[u]
        BY <2>2
      <3>2. QED
        BY <2>1, <2>2, <2>4, <3>1 DEF Reachable
    <2>5. CASE x # s
      <3>1. Reachable(x)
        BY <1>10, <2>5 DEF PageOpened, NoLostPage, Reachable
      <3>2. Mapped \subseteq Pools /\ \A u \in Threads : victims[u] \subseteq Pools
        BY DEF Mapped
      <3>3. QED
        BY <2>1, <2>3, <3>1, <3>2 DEF Reachable
    <2>6. QED
      BY <2>4, <2>5
  <1>11. ASSUME NEW t \in Threads, PageFails(t) PROVE NoLostPage'
    BY <1>11 DEF PageFails, Return, NoLostPage, Mapped
  <1>12. ASSUME NEW t \in Threads, UseClosed(t) PROVE NoLostPage'
    BY <1>12, ZenonT(60) DEF UseClosed, Return, NoLostPage, Mapped
  <1>13. ASSUME NEW t \in Threads, Navigate(t) PROVE NoLostPage'
    BY <1>13 DEF Navigate, Goto, NoLostPage, Mapped
  <1>14. ASSUME NEW t \in Threads, Navigated(t) PROVE NoLostPage'
    BY <1>14 DEF Navigated, Return, NoLostPage, Mapped
  <1>15. ASSUME NEW t \in Threads, PageUsed(t) PROVE NoLostPage'
    BY <1>15 DEF PageUsed, Return, NoLostPage, Mapped
  <1>16. ASSUME NEW t \in Threads, NEW q \in Pools, DropPool(t, q) PROVE NoLostPage'
    <2> SUFFICES ASSUME NEW x \in Sessions, page'[x] = "open" PROVE Reachable(x)'
      BY DEF NoLostPage, Reachable
    <2>1. /\ members' = [members EXCEPT ![q] = {}]
          /\ victims' = [victims EXCEPT ![t] = victims[t] \ {q}]
          /\ toClose' = [toClose EXCEPT ![t] = members[q]] /\ toClose[t] = {}
      BY <1>16 DEF DropPool
    <2>2. Mapped' = Mapped /\ q \notin Mapped /\ Mapped \subseteq Pools
      BY <1>16 DEF DropPool, Mapped
    <2>3. Reachable(x)
      BY <1>16 DEF DropPool, NoLostPage, Reachable
    <2>4. ASSUME NEW r \in Mapped, x \in members[r] PROVE Reachable(x)'
      <3>1. x \in members'[r]
        BY <2>1, <2>4, <2>2
      <3>2. QED
        BY <2>2, <3>1 DEF Reachable
    <2>5. ASSUME NEW u \in Threads, x \in toClose[u] PROVE Reachable(x)'
      BY <2>1, <2>5 DEF Reachable
    <2>6. ASSUME NEW u \in Threads, NEW r \in victims[u], x \in members[r] PROVE Reachable(x)'
      <3>1. CASE r = q
        <4>1. x \in toClose'[t]
          BY <2>1, <2>6, <3>1
        <4>2. QED
          BY <4>1 DEF Reachable
      <3>2. CASE r # q
        <4>1. r \in Pools /\ x \in members'[r]
          BY <2>1, <2>6, <3>2
        <4>2. r \in victims'[u]
          BY <2>1, <2>6, <3>2
        <4>3. QED
          BY <4>1, <4>2 DEF Reachable
      <3>3. QED
        BY <3>1, <3>2
    <2>7. QED
      BY <2>3, <2>4, <2>5, <2>6 DEF Reachable
  <1>17. ASSUME NEW t \in Threads, NEW s \in Sessions, ClosePage(t, s) PROVE NoLostPage'
    BY <1>17 DEF ClosePage, NoLostPage, Mapped
  <1>18. ASSUME NEW t \in Threads, NEW s \in Sessions, Examine(t, s) PROVE NoLostPage'
    <2> SUFFICES ASSUME NEW x \in Sessions, page'[x] = "open" PROVE Reachable(x)'
      BY DEF NoLostPage, Reachable
    <2>1. /\ Mapped' = Mapped /\ victims' = victims /\ Mapped \subseteq Pools
          /\ \A u \in Threads : toClose[u] \subseteq toClose'[u] /\ victims[u] \subseteq Pools
          /\ \A r \in Pools : x \in members[r] => x \in members'[r] \/ x \in toClose'[t]
      BY <1>18 DEF Examine, Mapped
    <2>2. Reachable(x)
      BY <1>18 DEF Examine, NoLostPage, Reachable
    <2>3. QED
      BY <2>1, <2>2 DEF Reachable
  <1>19. ASSUME NEW t \in Threads, EnforceCap(t) PROVE NoLostPage'
    BY <1>19 DEF EnforceCap, Drain, NoLostPage, Mapped
  <1>20. ASSUME NEW t \in Threads, Drained(t) PROVE NoLostPage'
    BY <1>20, SMTT(60) DEF Drained, Return, Goto, NoLostPage, Mapped
  <1>21. ASSUME NEW t \in Threads, CloseBrowser(t) PROVE NoLostPage'
    BY <1>21 DEF CloseBrowser, Return, NoLostPage, Mapped
  <1>22. ASSUME NEW t \in Threads, NEW p \in Profiles, DestroyProfileSessions(t, p) PROVE NoLostPage'
    <2> SUFFICES ASSUME NEW x \in Sessions, page'[x] = "open" PROVE Reachable(x)'
      BY DEF NoLostPage, Reachable
    <2>1. Reachable(x) /\ members' = members
      BY <1>22 DEF DestroyProfileSessions, NoLostPage, Reachable, pageVars
    <2>2. victims[t] = {} /\ toClose[t] = {}
      BY <1>22 DEF DestroyProfileSessions, CleanInv
    <2>3. Mapped \subseteq Mapped' \cup victims'[t]
      BY <1>22 DEF DestroyProfileSessions, Drain, Mapped
    <2>4. \A u \in Threads : u # t => victims'[u] = victims[u] /\ toClose'[u] = toClose[u]
      BY <1>22 DEF DestroyProfileSessions, Drain
    <2>5. QED
      BY <2>1, <2>2, <2>3, <2>4 DEF Reachable
  <1>23. ASSUME NEW t \in Threads, NEW s \in Sessions, GetSession(t, s) PROVE NoLostPage'
    BY <1>23 DEF GetSession, NoLostPage, Mapped
  <1>24. ASSUME NEW t \in Threads, NEW s \in Sessions, UsePage(t, s) PROVE NoLostPage'
    BY <1>24 DEF UsePage, NoLostPage, Mapped
  <1>25. ASSUME NEW t \in Threads, NEW s \in Sessions, DestroySession(t, s) PROVE NoLostPage'
    <2> SUFFICES ASSUME NEW x \in Sessions, page'[x] = "open" PROVE Reachable(x)'
      BY DEF NoLostPage, Reachable
    <2>1. /\ Mapped' = Mapped /\ victims' = victims /\ Mapped \subseteq Pools
          /\ \A u \in Threads : toClose[u] \subseteq toClose'[u] /\ victims[u] \subseteq Pools
          /\ \A r \in Pools : x \in members[r] => x \in members'[r] \/ x \in toClose'[t]
      BY <1>25 DEF DestroySession, Drain, Mapped
    <2>2. Reachable(x)
      BY <1>25 DEF DestroySession, NoLostPage, Reachable
    <2>3. QED
      BY <2>1, <2>2 DEF Reachable
  <1>26. ASSUME NEW t \in Threads, CloseAll(t) PROVE NoLostPage'
    BY <1>26, SMTT(60) DEF CloseAll, Drain, NoLostPage, Mapped
  <1>27. ASSUME NEW t \in Threads, NEW q \in Pools, GC(t, q) PROVE NoLostPage'
    BY <1>27 DEF GC, NoLostPage, Mapped
  <1>28. ASSUME Environment PROVE NoLostPage'
    BY <1>28 DEF Environment, BrowserDies, CloseSession, LaunchSession, IdleTTLPasses, Launch, NoLostPage, Mapped
  <1>29. CASE UNCHANGED vars
    BY <1>29 DEF vars, NoLostPage, Mapped
  <1>30. QED
    BY <1>1, <1>2, <1>3, <1>4, <1>5, <1>6, <1>7, <1>8, <1>9, <1>10, <1>11, <1>12, <1>13, <1>14, <1>15, <1>16, <1>17, <1>18, <1>19, <1>20, <1>21, <1>22, <1>23, <1>24, <1>25, <1>26, <1>27, <1>28, <1>29 DEF Next, CallStep, Call

LEMMA MembersFinite ==
  ASSUME PoolType, NEW q \in Pools
  PROVE  IsFiniteSet(members[q]) /\ Cardinality(members[q]) \in Nat
  BY PoolAssumption, FS_Subset, FS_CardinalityType DEF PoolType

\* A step that adds to no pool and starts no page keeps the cap.
LEMMA CapShrinks ==
  ASSUME PoolType, CallType, CallWellFormed, CapInv,
         \A q \in Pools : members'[q] \subseteq members[q],
         \A t \in Threads : pc'[t] = "newPage" => pc[t] = "newPage" /\ pool'[t] = pool[t]
  PROVE  CapInv'
  <1>1. ASSUME NEW q \in Pools
        PROVE  /\ Cardinality(members'[q]) \in Nat /\ Cardinality(members[q]) \in Nat
               /\ Cardinality(members'[q]) <= Cardinality(members[q])
    BY MembersFinite, FS_Subset, FS_CardinalityType
  <1>2. CapHeld'
    BY <1>1, PoolAssumption DEF CapInv, CapHeld
  <1>3. ASSUME NEW t \in Threads, pc'[t] = "newPage" PROVE Cardinality(members'[pool'[t]]) < MaxPerProfile
    BY <1>1, <1>3, PoolAssumption DEF CapInv, CallWellFormed
  <1>4. QED
    BY <1>2, <1>3 DEF CapInv

LEMMA CapStep == Typed /\ LockInv /\ CapInv /\ [Next]_vars => CapInv'
  <1> SUFFICES ASSUME Typed, LockInv, CapInv, [Next]_vars PROVE CapInv'
    OBVIOUS
  <1> USE PoolAssumption DEF Typed, PoolType, CallType, CallWellFormed, LockInv, browserVars, poolVars, pageVars, callVars
  <1>1. ASSUME NEW t \in Threads, NEW p \in Profiles, CreateSession(t, p) PROVE CapInv'
    BY <1>1 DEF CreateSession, Launch, CapInv, CapHeld
  <1>2. ASSUME NEW t \in Threads, PoolFound(t) PROVE CapInv'
    BY <1>2 DEF PoolFound, Cached, CapInv, CapHeld
  <1>3. ASSUME NEW t \in Threads, PoolMissed(t) PROVE CapInv'
    BY <1>3 DEF PoolMissed, Goto, CapInv, CapHeld
  <1>4. ASSUME NEW t \in Threads, LockPools(t) PROVE CapInv'
    BY <1>4 DEF LockPools, Goto, CapInv, CapHeld
  <1>5. ASSUME NEW t \in Threads, NEW q \in Pools, Connect(t, q) PROVE CapInv'
    <2>1. \A r \in Pools : members'[r] \subseteq members[r]
      BY <1>5 DEF Connect, Drain
    <2>2. \A u \in Threads : pc'[u] = "newPage" => pc[u] = "newPage" /\ pool'[u] = pool[u]
      BY <1>5 DEF Connect, Drain
    <2>3. QED
      BY <2>1, <2>2, CapShrinks DEF Typed
  <1>6. ASSUME NEW t \in Threads, ConnectFails(t) PROVE CapInv'
    BY <1>6 DEF ConnectFails, Return, CapInv, CapHeld
  <1>7. ASSUME NEW t \in Threads, SessionCapReached(t) PROVE CapInv'
    BY <1>7 DEF SessionCapReached, Return, CapInv, CapHeld
  <1>8. ASSUME NEW t \in Threads, NewPage(t) PROVE CapInv'
    BY <1>8 DEF NewPage, Goto, CapInv, CapHeld
  <1>9. ASSUME NEW t \in Threads, NewPagePanics(t) PROVE CapInv'
    BY <1>9 DEF NewPagePanics, Return, CapInv, CapHeld
  <1>10. ASSUME NEW t \in Threads, NEW s \in Sessions, PageOpened(t, s) PROVE CapInv'
    <2> DEFINE q == pool[t]
    <2>1. pc[t] = "newPage" /\ q \in Pools
      BY <1>10 DEF PageOpened
    <2>2. members' = [members EXCEPT ![q] = members[q] \cup {s}]
      BY <1>10 DEF PageOpened
    <2>3. ASSUME NEW u \in Threads, pc'[u] = "newPage"
          PROVE  pc[u] = "newPage" /\ pool'[u] = pool[u] /\ pool[u] # q
      <3>1. u # t /\ pc[u] = "newPage" /\ pool'[u] = pool[u]
        BY <1>10, <2>3 DEF PageOpened, Return
      <3>2. QED
        BY <2>1, <3>1
    <2>4. Cardinality(members'[q]) <= MaxPerProfile
      <3>1. Cardinality(members[q]) < MaxPerProfile
        BY <2>1 DEF CapInv
      <3>2. IsFiniteSet(members[q]) /\ Cardinality(members[q]) \in Nat
        BY <2>1, MembersFinite
      <3>3. Cardinality(members[q] \cup {s}) \in {Cardinality(members[q]), Cardinality(members[q]) + 1}
        BY <3>2, FS_AddElement
      <3>4. QED
        BY <2>1, <2>2, <3>1, <3>2, <3>3
    <2>5. \A r \in Pools : r # q => members'[r] = members[r]
      BY <2>2
    <2>6. CapHeld'
      BY <2>4, <2>5 DEF CapInv, CapHeld
    <2>7. ASSUME NEW u \in Threads, pc'[u] = "newPage"
          PROVE  Cardinality(members'[pool'[u]]) < MaxPerProfile
      BY <2>3, <2>5, <2>7 DEF CapInv
    <2>8. QED
      BY <2>6, <2>7 DEF CapInv
  <1>11. ASSUME NEW t \in Threads, PageFails(t) PROVE CapInv'
    BY <1>11 DEF PageFails, Return, CapInv, CapHeld
  <1>12. ASSUME NEW t \in Threads, UseClosed(t) PROVE CapInv'
    BY <1>12 DEF UseClosed, Return, CapInv, CapHeld
  <1>13. ASSUME NEW t \in Threads, Navigate(t) PROVE CapInv'
    BY <1>13 DEF Navigate, Goto, CapInv, CapHeld
  <1>14. ASSUME NEW t \in Threads, Navigated(t) PROVE CapInv'
    BY <1>14 DEF Navigated, Return, CapInv, CapHeld
  <1>15. ASSUME NEW t \in Threads, PageUsed(t) PROVE CapInv'
    BY <1>15 DEF PageUsed, Return, CapInv, CapHeld
  <1>16. ASSUME NEW t \in Threads, NEW q \in Pools, DropPool(t, q) PROVE CapInv'
    <2>1. \A r \in Pools : members'[r] \subseteq members[r]
      BY <1>16 DEF DropPool
    <2>2. \A u \in Threads : pc'[u] = "newPage" => pc[u] = "newPage" /\ pool'[u] = pool[u]
      BY <1>16 DEF DropPool
    <2>3. QED
      BY <2>1, <2>2, CapShrinks DEF Typed
  <1>17. ASSUME NEW t \in Threads, NEW s \in Sessions, ClosePage(t, s) PROVE CapInv'
    BY <1>17 DEF ClosePage, CapInv, CapHeld
  <1>18. ASSUME NEW t \in Threads, NEW s \in Sessions, Examine(t, s) PROVE CapInv'
    <2>1. \A r \in Pools : members'[r] \subseteq members[r]
      BY <1>18 DEF Examine
    <2>2. \A u \in Threads : pc'[u] = "newPage" => pc[u] = "newPage" /\ pool'[u] = pool[u]
      BY <1>18 DEF Examine
    <2>3. QED
      BY <2>1, <2>2, CapShrinks DEF Typed
  <1>19. ASSUME NEW t \in Threads, EnforceCap(t) PROVE CapInv'
    <2>1. \A r \in Pools : members'[r] \subseteq members[r]
      BY <1>19 DEF EnforceCap, Drain
    <2>2. \A u \in Threads : pc'[u] = "newPage" => pc[u] = "newPage" /\ pool'[u] = pool[u]
      BY <1>19 DEF EnforceCap, Drain
    <2>3. QED
      BY <2>1, <2>2, CapShrinks DEF Typed
  <1>20. ASSUME NEW t \in Threads, Drained(t) PROVE CapInv'
    BY <1>20 DEF Drained, Return, Goto, CapInv, CapHeld
  <1>21. ASSUME NEW t \in Threads, CloseBrowser(t) PROVE CapInv'
    BY <1>21 DEF CloseBrowser, Return, CapInv, CapHeld
  <1>22. ASSUME NEW t \in Threads, NEW p \in Profiles, DestroyProfileSessions(t, p) PROVE CapInv'
    BY <1>22 DEF DestroyProfileSessions, Drain, CapInv, CapHeld
  <1>23. ASSUME NEW t \in Threads, NEW s \in Sessions, GetSession(t, s) PROVE CapInv'
    BY <1>23 DEF GetSession, CapInv, CapHeld
  <1>24. ASSUME NEW t \in Threads, NEW s \in Sessions, UsePage(t, s) PROVE CapInv'
    BY <1>24 DEF UsePage, CapInv, CapHeld
  <1>25. ASSUME NEW t \in Threads, NEW s \in Sessions, DestroySession(t, s) PROVE CapInv'
    <2>1. \A r \in Pools : members'[r] \subseteq members[r]
      BY <1>25 DEF DestroySession, Drain
    <2>2. \A u \in Threads : pc'[u] = "newPage" => pc[u] = "newPage" /\ pool'[u] = pool[u]
      BY <1>25 DEF DestroySession, Drain
    <2>3. QED
      BY <2>1, <2>2, CapShrinks DEF Typed
  <1>26. ASSUME NEW t \in Threads, CloseAll(t) PROVE CapInv'
    BY <1>26 DEF CloseAll, Drain, CapInv, CapHeld
  <1>27. ASSUME NEW t \in Threads, NEW q \in Pools, GC(t, q) PROVE CapInv'
    BY <1>27 DEF GC, CapInv, CapHeld
  <1>28. ASSUME Environment PROVE CapInv'
    BY <1>28 DEF Environment, BrowserDies, CloseSession, LaunchSession, IdleTTLPasses, Launch, CapInv, CapHeld
  <1>29. CASE UNCHANGED vars
    BY <1>29 DEF vars, CapInv, CapHeld
  <1>30. QED
    BY <1>1, <1>2, <1>3, <1>4, <1>5, <1>6, <1>7, <1>8, <1>9, <1>10, <1>11, <1>12, <1>13, <1>14, <1>15, <1>16, <1>17, <1>18, <1>19, <1>20, <1>21, <1>22, <1>23, <1>24, <1>25, <1>26, <1>27, <1>28, <1>29 DEF Next, CallStep, Call

\* What a launch has to keep of EndpointInv for the calls in progress.
EndpointsKept ==
  /\ \A p, r \in Profiles : current'[p] = current'[r] /\ current'[p] # NoEndpoint => p = r
  /\ \A e \in alive' : \E p \in Profiles : current'[p] = e
  /\ \A t \in Threads :
       pc[t] \in {"ensure", "lock", "connect"} /\ url[t] \in alive' => current'[profile[t]] = url[t]
  /\ \A p \in Profiles :
       pools'[p] # NoPool /\ connectURL'[pools'[p]] \in alive' => current'[p] = connectURL'[pools'[p]]

\* A new browser has a URL that nothing refers to, and replaces one that is gone.
LEMMA LaunchKeeps ==
  ASSUME Typed, EndpointInv, NEW p \in Profiles, NEW e \in Endpoints, Launch(p, e),
         current[p] \notin alive, UNCHANGED <<pools, connectURL>>
  PROVE  EndpointsKept
  <1> USE DEF Typed, BrowserType, PoolType, CallType, CallWellFormed
  <1>1. /\ current' = [current EXCEPT ![p] = e] /\ alive' = alive \cup {e} /\ e \notin alive
        /\ \A r \in Profiles : current[r] # e /\ (pools[r] # NoPool => connectURL[pools[r]] # e)
        /\ \A t \in Threads : url[t] # e
    BY DEF Launch, FreeEndpoint, FreePool, Mapped
  <1>2. \A r, v \in Profiles : current'[r] = current'[v] /\ current'[r] # NoEndpoint => r = v
    BY <1>1 DEF EndpointInv
  <1>3. \A f \in alive' : \E r \in Profiles : current'[r] = f
    BY <1>1 DEF EndpointInv
  <1>4. \A t \in Threads :
          pc[t] \in {"ensure", "lock", "connect"} /\ url[t] \in alive' => current'[profile[t]] = url[t]
    BY <1>1 DEF EndpointInv
  <1>5. \A r \in Profiles :
          pools'[r] # NoPool /\ connectURL'[pools'[r]] \in alive' => current'[r] = connectURL'[pools'[r]]
    BY <1>1 DEF EndpointInv
  <1>6. QED
    BY <1>2, <1>3, <1>4, <1>5 DEF EndpointsKept

LEMMA EndpointStep == Typed /\ LockInv /\ PoolInv /\ EndpointInv /\ [Next]_vars => EndpointInv'
  <1> SUFFICES ASSUME Typed, LockInv, PoolInv, EndpointInv, [Next]_vars PROVE EndpointInv'
    OBVIOUS
  <1> USE PoolAssumption DEF Typed, BrowserType, PoolType, CallType, CallWellFormed, LockInv, PoolInv, browserVars, poolVars, pageVars, callVars
  <1>1. ASSUME NEW t \in Threads, NEW p \in Profiles, CreateSession(t, p) PROVE EndpointInv'
    <2>1. \A u \in Threads : u # t =>
            pc'[u] = pc[u] /\ url'[u] = url[u] /\ profile'[u] = profile[u]
      BY <1>1 DEF CreateSession
    <2>2. /\ pc'[t] = "ensure" /\ url'[t] = current'[p] /\ profile'[t] = p
          /\ UNCHANGED <<pools, connectURL, browser>>
      BY <1>1 DEF CreateSession
    <2>3. \A u \in Threads : pc'[u] = "connect" => ~Cached(u)'
      BY <2>1, <2>2 DEF EndpointInv, Cached
    <2>4. CASE UNCHANGED browserVars
      BY <2>1, <2>2, <2>3, <2>4 DEF EndpointInv
    <2>5. CASE current[p] = NoEndpoint /\ \E e \in Endpoints : Launch(p, e)
      <3>1. PICK e \in Endpoints : Launch(p, e)
        BY <2>5
      <3>2. current[p] \notin alive
        BY <2>5
      <3>3. EndpointsKept
        BY <2>2, <3>1, <3>2, LaunchKeeps
      <3>4. QED
        BY <2>1, <2>2, <2>3, <3>3 DEF EndpointInv, EndpointsKept
    <2>6. QED
      BY <1>1, <2>4, <2>5 DEF CreateSession
  <1>2. ASSUME NEW t \in Threads, PoolFound(t) PROVE EndpointInv'
    BY <1>2 DEF PoolFound, Cached, EndpointInv, Cached
  <1>3. ASSUME NEW t \in Threads, PoolMissed(t) PROVE EndpointInv'
    BY <1>3 DEF PoolMissed, Goto, EndpointInv, Cached
  <1>4. ASSUME NEW t \in Threads, LockPools(t) PROVE EndpointInv'
    BY <1>4 DEF LockPools, Goto, EndpointInv, Cached
  <1>5. ASSUME NEW t \in Threads, NEW q \in Pools, Connect(t, q) PROVE EndpointInv'
    <2> DEFINE p == profile[t]
    <2>1. /\ p \in Profiles /\ pc[t] = "connect" /\ q \notin Mapped /\ url[t] \in alive
          /\ UNCHANGED <<current, alive, url, profile>>
          /\ pools' = [pools EXCEPT ![p] = q]
          /\ connectURL' = [connectURL EXCEPT ![q] = url[t]]
      BY <1>5 DEF Connect, Drain, FreePool
    <2>2. \A u \in Threads :
            /\ pc'[u] # "connect"
            /\ pc'[u] \in {"ensure", "lock"} => pc[u] = pc'[u]
      BY <1>5 DEF Connect, Drain
    <2>3. current[p] = url[t]
      BY <2>1 DEF EndpointInv
    <2>4. ASSUME NEW r \in Profiles, pools'[r] # NoPool, connectURL'[pools'[r]] \in alive'
          PROVE  current'[r] = connectURL'[pools'[r]]
      <3>1. CASE r = p
        BY <2>1, <2>3, <3>1
      <3>2. CASE r # p
        <4>1. pools'[r] = pools[r] /\ pools[r] \in Pools \ {q}
          BY <2>1, <2>4, <3>2 DEF Mapped
        <4>2. QED
          BY <2>1, <2>4, <4>1 DEF EndpointInv
      <3>3. QED
        BY <3>1, <3>2
    <2>5. QED
      BY <2>1, <2>2, <2>4 DEF EndpointInv
  <1>6. ASSUME NEW t \in Threads, ConnectFails(t) PROVE EndpointInv'
    BY <1>6 DEF ConnectFails, Return, EndpointInv, Cached
  <1>7. ASSUME NEW t \in Threads, SessionCapReached(t) PROVE EndpointInv'
    BY <1>7 DEF SessionCapReached, Return, EndpointInv, Cached
  <1>8. ASSUME NEW t \in Threads, NewPage(t) PROVE EndpointInv'
    BY <1>8 DEF NewPage, Goto, EndpointInv, Cached
  <1>9. ASSUME NEW t \in Threads, NewPagePanics(t) PROVE EndpointInv'
    BY <1>9 DEF NewPagePanics, Return, EndpointInv, Cached
  <1>10. ASSUME NEW t \in Threads, NEW s \in Sessions, PageOpened(t, s) PROVE EndpointInv'
    <2>1. UNCHANGED <<current, alive, pools, connectURL, browser>>
      BY <1>10 DEF PageOpened
    <2>2. \A u \in Threads : pc'[u] \in {"ensure", "lock", "connect"} =>
            pc[u] = pc'[u] /\ url'[u] = url[u] /\ profile'[u] = profile[u]
      BY <1>10 DEF PageOpened, Return
    <2>3. QED
      BY <2>1, <2>2 DEF EndpointInv, Cached
  <1>11. ASSUME NEW t \in Threads, PageFails(t) PROVE EndpointInv'
    BY <1>11 DEF PageFails, Return, EndpointInv, Cached
  <1>12. ASSUME NEW t \in Threads, UseClosed(t) PROVE EndpointInv'
    BY <1>12 DEF UseClosed, Return, EndpointInv, Cached
  <1>13. ASSUME NEW t \in Threads, Navigate(t) PROVE EndpointInv'
    BY <1>13 DEF Navigate, Goto, EndpointInv, Cached
  <1>14. ASSUME NEW t \in Threads, Navigated(t) PROVE EndpointInv'
    BY <1>14 DEF Navigated, Return, EndpointInv, Cached
  <1>15. ASSUME NEW t \in Threads, PageUsed(t) PROVE EndpointInv'
    BY <1>15 DEF PageUsed, Return, EndpointInv, Cached
  <1>16. ASSUME NEW t \in Threads, NEW q \in Pools, DropPool(t, q) PROVE EndpointInv'
    BY <1>16 DEF DropPool, EndpointInv, Cached
  <1>17. ASSUME NEW t \in Threads, NEW s \in Sessions, ClosePage(t, s) PROVE EndpointInv'
    BY <1>17 DEF ClosePage, EndpointInv, Cached
  <1>18. ASSUME NEW t \in Threads, NEW s \in Sessions, Examine(t, s) PROVE EndpointInv'
    BY <1>18 DEF Examine, EndpointInv, Cached
  <1>19. ASSUME NEW t \in Threads, EnforceCap(t) PROVE EndpointInv'
    BY <1>19 DEF EnforceCap, Drain, EndpointInv, Cached
  <1>20. ASSUME NEW t \in Threads, Drained(t) PROVE EndpointInv'
    BY <1>20, SMTT(60) DEF Drained, Return, Goto, EndpointInv, Cached
  <1>21. ASSUME NEW t \in Threads, CloseBrowser(t) PROVE EndpointInv'
    BY <1>21 DEF CloseBrowser, Return, EndpointInv, Cached
  <1>22. ASSUME NEW t \in Threads, NEW p \in Profiles, DestroyProfileSessions(t, p) PROVE EndpointInv'
    BY <1>22 DEF DestroyProfileSessions, Drain, EndpointInv, Cached
  <1>23. ASSUME NEW t \in Threads, NEW s \in Sessions, GetSession(t, s) PROVE EndpointInv'
    BY <1>23 DEF GetSession, EndpointInv, Cached
  <1>24. ASSUME NEW t \in Threads, NEW s \in Sessions, UsePage(t, s) PROVE EndpointInv'
    BY <1>24 DEF UsePage, EndpointInv, Cached
  <1>25. ASSUME NEW t \in Threads, NEW s \in Sessions, DestroySession(t, s) PROVE EndpointInv'
    BY <1>25 DEF DestroySession, Drain, EndpointInv, Cached
  <1>26. ASSUME NEW t \in Threads, CloseAll(t) PROVE EndpointInv'
    BY <1>26 DEF CloseAll, Drain, EndpointInv, Cached
  <1>27. ASSUME NEW t \in Threads, NEW q \in Pools, GC(t, q) PROVE EndpointInv'
    BY <1>27 DEF GC, EndpointInv, Cached
  <1>28. ASSUME Environment PROVE EndpointInv'
    <2>1. UNCHANGED <<poolVars, callVars>>
      BY <1>28 DEF Environment, BrowserDies, CloseSession, LaunchSession, IdleTTLPasses
    <2>2. \A u \in Threads : pc'[u] = "connect" => ~Cached(u)'
      BY <2>1 DEF EndpointInv, Cached
    <2>3. ASSUME NEW e \in Endpoints, BrowserDies(e) PROVE EndpointInv'
      BY <2>1, <2>2, <2>3 DEF BrowserDies, EndpointInv
    <2>4. ASSUME NEW p \in Profiles, CloseSession(p) PROVE EndpointInv'
      BY <2>1, <2>2, <2>4 DEF CloseSession, EndpointInv
    <2>5. ASSUME NEW p \in Profiles, LaunchSession(p) PROVE EndpointInv'
      <3>1. PICK e \in Endpoints : Launch(p, e)
        BY <2>5 DEF LaunchSession
      <3>2. EndpointsKept
        BY <2>1, <2>5, <3>1, LaunchKeeps DEF LaunchSession
      <3>3. QED
        BY <2>1, <2>2, <3>2 DEF EndpointInv, EndpointsKept
    <2>6. ASSUME NEW s \in Sessions, IdleTTLPasses(s) PROVE EndpointInv'
      BY <2>1, <2>2, <2>6 DEF IdleTTLPasses, EndpointInv
    <2>7. QED
      BY <1>28, <2>3, <2>4, <2>5, <2>6 DEF Environment
  <1>29. CASE UNCHANGED vars
    BY <1>29 DEF vars, EndpointInv, Cached
  <1>30. QED
    BY <1>1, <1>2, <1>3, <1>4, <1>5, <1>6, <1>7, <1>8, <1>9, <1>10, <1>11, <1>12, <1>13, <1>14, <1>15, <1>16, <1>17, <1>18, <1>19, <1>20, <1>21, <1>22, <1>23, <1>24, <1>25, <1>26, <1>27, <1>28, <1>29 DEF Next, CallStep, Call

-----------------------------------------------------------------------------
\* A step that offers no page it did not find offered takes pages out, or does nothing
\* that AgentPages sees.
LEMMA NothingOffered ==
  ASSUME UNCHANGED <<page, sMu>>, \A s \in Sessions : Offered(s)' => Offered(s)
  PROVE  Pages!Next
  <1> DEFINE S == {s \in Sessions : page[s] = "open" /\ Offered(s) /\ ~Offered(s)'}
  <1>1. \A s \in S : Life[s] = "offered"
    BY DEF Life
  <1>2. Life' = [s \in Sessions |-> IF s \in S THEN "leaving" ELSE Life[s]]
    BY DEF Life
  <1>3. Pages!TakeOut(S)
    BY <1>1, <1>2 DEF Pages!TakeOut
  <1>4. QED
    BY <1>3 DEF Pages!Next

LEMMA PagesInit == Init => Pages!Init
  BY DEF Init, Pages!Init, Life

LEMMA PagesStep ==
  Typed /\ LockInv /\ PlaceInv /\ [Next]_vars => Pages!Next \/ UNCHANGED Pages!vars
  <1> SUFFICES ASSUME Typed, LockInv, PlaceInv, [Next]_vars PROVE Pages!Next \/ UNCHANGED Pages!vars
    OBVIOUS
  <1> USE DEF Typed, PoolType, PageType, CallType, browserVars, poolVars, pageVars, callVars
  <1>1. ASSUME NEW t \in Threads, NEW p \in Profiles, CreateSession(t, p) PROVE Pages!Next \/ UNCHANGED Pages!vars
    BY <1>1, NothingOffered DEF CreateSession, Offered, Mapped
  <1>2. ASSUME NEW t \in Threads, PoolFound(t) PROVE Pages!Next \/ UNCHANGED Pages!vars
    BY <1>2, NothingOffered DEF PoolFound, Offered, Mapped
  <1>3. ASSUME NEW t \in Threads, PoolMissed(t) PROVE Pages!Next \/ UNCHANGED Pages!vars
    BY <1>3, NothingOffered DEF PoolMissed, Offered, Mapped
  <1>4. ASSUME NEW t \in Threads, LockPools(t) PROVE Pages!Next \/ UNCHANGED Pages!vars
    BY <1>4, NothingOffered DEF LockPools, Offered, Mapped
  <1>5. ASSUME NEW t \in Threads, NEW q \in Pools, Connect(t, q) PROVE Pages!Next \/ UNCHANGED Pages!vars
    <2>1. pools' = [pools EXCEPT ![profile[t]] = q] /\ members' = [members EXCEPT ![q] = {}]
      BY <1>5 DEF Connect
    <2>2. \A s \in Sessions : Offered(s)' => Offered(s)
      BY <2>1 DEF Offered, Mapped
    <2>3. QED
      BY <1>5, <2>2, NothingOffered DEF Connect
  <1>6. ASSUME NEW t \in Threads, ConnectFails(t) PROVE Pages!Next \/ UNCHANGED Pages!vars
    BY <1>6, NothingOffered DEF ConnectFails, Offered, Mapped
  <1>7. ASSUME NEW t \in Threads, SessionCapReached(t) PROVE Pages!Next \/ UNCHANGED Pages!vars
    BY <1>7, NothingOffered DEF SessionCapReached, Offered, Mapped
  <1>8. ASSUME NEW t \in Threads, NewPage(t) PROVE Pages!Next \/ UNCHANGED Pages!vars
    BY <1>8, NothingOffered DEF NewPage, Offered, Mapped
  <1>9. ASSUME NEW t \in Threads, NewPagePanics(t) PROVE Pages!Next \/ UNCHANGED Pages!vars
    BY <1>9, NothingOffered DEF NewPagePanics, Offered, Mapped
  <1>10. ASSUME NEW t \in Threads, NEW s \in Sessions, PageOpened(t, s) PROVE Pages!Next \/ UNCHANGED Pages!vars
    <2>1. /\ pool[t] \in Pools /\ page[s] # "open" /\ \A q \in Pools : s \notin members[q]
          /\ members' = [members EXCEPT ![pool[t]] = @ \cup {s}]
          /\ page' = [page EXCEPT ![s] = "open"] /\ UNCHANGED <<pools, sMu>>
      BY <1>10 DEF PageOpened, FreeSession, CallWellFormed
    <2>2. \A x \in Sessions \ {s} : Offered(x)' <=> Offered(x)
      BY <2>1 DEF Offered, Mapped
    <2>3. Life[s] = "closed" /\ Life'[s] \in {"offered", "leaving"}
      BY <2>1 DEF Life
    <2>4. Life' = [Life EXCEPT ![s] = Life'[s]]
      BY <2>1, <2>2 DEF Life
    <2>5. Pages!Open(s)
      BY <2>1, <2>3, <2>4 DEF Pages!Open
    <2>6. QED
      BY <2>5 DEF Pages!Next
  <1>11. ASSUME NEW t \in Threads, PageFails(t) PROVE Pages!Next \/ UNCHANGED Pages!vars
    BY <1>11, NothingOffered DEF PageFails, Offered, Mapped
  <1>12. ASSUME NEW t \in Threads, UseClosed(t) PROVE Pages!Next \/ UNCHANGED Pages!vars
    BY <1>12, NothingOffered DEF UseClosed, Offered, Mapped
  <1>13. ASSUME NEW t \in Threads, Navigate(t) PROVE Pages!Next \/ UNCHANGED Pages!vars
    <2>1. /\ ses[t] \in Sessions /\ page[ses[t]] = "open" /\ sMu[ses[t]] = NoThread
          /\ sMu' = [sMu EXCEPT ![ses[t]] = t] /\ UNCHANGED <<page, members, pools>>
      BY <1>13 DEF Navigate, CallWellFormed
    <2>2. Life' = Life /\ Life[ses[t]] # "closed"
      BY <2>1 DEF Life, Offered, Mapped
    <2>3. Pages!Enter(ses[t], t)
      BY <2>1, <2>2 DEF Pages!Enter
    <2>4. QED
      BY <2>1, <2>3 DEF Pages!Next
  <1>14. ASSUME NEW t \in Threads, Navigated(t) PROVE Pages!Next \/ UNCHANGED Pages!vars
    <2>1. /\ ses[t] \in Sessions /\ sMu[ses[t]] = t
          /\ sMu' = [sMu EXCEPT ![ses[t]] = NoThread] /\ UNCHANGED <<page, members, pools>>
      BY <1>14 DEF Navigated, CallWellFormed, LockInv
    <2>2. Life' = Life
      BY <2>1 DEF Life, Offered, Mapped
    <2>3. Pages!Leave(ses[t])
      BY <2>1, <2>2, PoolAssumption DEF Pages!Leave
    <2>4. QED
      BY <2>1, <2>3 DEF Pages!Next
  <1>15. ASSUME NEW t \in Threads, PageUsed(t) PROVE Pages!Next \/ UNCHANGED Pages!vars
    BY <1>15, NothingOffered DEF PageUsed, Offered, Mapped
  <1>16. ASSUME NEW t \in Threads, NEW q \in Pools, DropPool(t, q) PROVE Pages!Next \/ UNCHANGED Pages!vars
    BY <1>16, NothingOffered DEF DropPool, Offered, Mapped
  <1>17. ASSUME NEW t \in Threads, NEW s \in Sessions, ClosePage(t, s) PROVE Pages!Next \/ UNCHANGED Pages!vars
    <2>1. /\ s \in toClose[t] /\ sMu[s] = NoThread /\ page' = [page EXCEPT ![s] = "closed"]
          /\ UNCHANGED <<members, pools, sMu>>
      BY <1>17 DEF ClosePage
    <2>2. ~Offered(s)
      BY <2>1 DEF Offered, Mapped, PlaceInv
    <2>3. Life' = [Life EXCEPT ![s] = "closed"]
      BY <2>1 DEF Life, Offered, Mapped
    <2>4. CASE page[s] = "open"
      <3>1. Life[s] = "leaving"
        BY <2>2, <2>4 DEF Life
      <3>2. QED
        BY <2>1, <2>3, <3>1 DEF Pages!Close, Pages!Next
    <2>5. CASE page[s] # "open"
      <3>1. Life' = Life
        BY <2>1, <2>3, <2>5 DEF Life
      <3>2. QED
        BY <2>1, <3>1 DEF Pages!vars
    <2>6. QED
      BY <2>4, <2>5
  <1>18. ASSUME NEW t \in Threads, NEW s \in Sessions, Examine(t, s) PROVE Pages!Next \/ UNCHANGED Pages!vars
    BY <1>18, NothingOffered DEF Examine, Offered, Mapped, CallWellFormed
  <1>19. ASSUME NEW t \in Threads, EnforceCap(t) PROVE Pages!Next \/ UNCHANGED Pages!vars
    BY <1>19, NothingOffered DEF EnforceCap, Offered, Mapped, CallWellFormed
  <1>20. ASSUME NEW t \in Threads, Drained(t) PROVE Pages!Next \/ UNCHANGED Pages!vars
    BY <1>20, NothingOffered DEF Drained, Offered, Mapped
  <1>21. ASSUME NEW t \in Threads, CloseBrowser(t) PROVE Pages!Next \/ UNCHANGED Pages!vars
    BY <1>21, NothingOffered DEF CloseBrowser, Offered, Mapped
  <1>22. ASSUME NEW t \in Threads, NEW p \in Profiles, DestroyProfileSessions(t, p) PROVE Pages!Next \/ UNCHANGED Pages!vars
    <2>1. UNCHANGED <<members, page, sMu>> /\ \A r \in Profiles : pools'[r] \in {pools[r], NoPool}
      BY <1>22 DEF DestroyProfileSessions
    <2>2. \A s \in Sessions : Offered(s)' => Offered(s)
      BY <2>1, PoolAssumption DEF Offered, Mapped
    <2>3. QED
      BY <2>1, <2>2, NothingOffered
  <1>23. ASSUME NEW t \in Threads, NEW s \in Sessions, GetSession(t, s) PROVE Pages!Next \/ UNCHANGED Pages!vars
    BY <1>23, NothingOffered DEF GetSession, Offered, Mapped
  <1>24. ASSUME NEW t \in Threads, NEW s \in Sessions, UsePage(t, s) PROVE Pages!Next \/ UNCHANGED Pages!vars
    BY <1>24, NothingOffered DEF UsePage, Offered, Mapped
  <1>25. ASSUME NEW t \in Threads, NEW s \in Sessions, DestroySession(t, s) PROVE Pages!Next \/ UNCHANGED Pages!vars
    BY <1>25, NothingOffered DEF DestroySession, Offered, Mapped
  <1>26. ASSUME NEW t \in Threads, CloseAll(t) PROVE Pages!Next \/ UNCHANGED Pages!vars
    <2>1. UNCHANGED <<members, page, sMu>> /\ \A r \in Profiles : pools'[r] \in {pools[r], NoPool}
      BY <1>26 DEF CloseAll
    <2>2. \A s \in Sessions : Offered(s)' => Offered(s)
      BY <2>1, PoolAssumption DEF Offered, Mapped
    <2>3. QED
      BY <2>1, <2>2, NothingOffered
  <1>27. ASSUME NEW t \in Threads, NEW q \in Pools, GC(t, q) PROVE Pages!Next \/ UNCHANGED Pages!vars
    BY <1>27, NothingOffered DEF GC, Offered, Mapped
  <1>28. CASE Environment
    BY <1>28, NothingOffered DEF Environment, BrowserDies, CloseSession, LaunchSession, IdleTTLPasses, Offered, Mapped
  <1>29. CASE UNCHANGED vars
    BY <1>29, NothingOffered DEF vars, Offered, Mapped
  <1>30. QED
    BY <1>1, <1>2, <1>3, <1>4, <1>5, <1>6, <1>7, <1>8, <1>9, <1>10, <1>11, <1>12, <1>13, <1>14,
       <1>15, <1>16, <1>17, <1>18, <1>19, <1>20, <1>21, <1>22, <1>23, <1>24, <1>25, <1>26, <1>27,
       <1>28, <1>29 DEF Next, CallStep, Call

-----------------------------------------------------------------------------
\* Who navigates waits for nobody; if nobody does, the holders of sp.mu and pool.mu do not
\* wait; and if there are none of these either, every lock is free.
LEMMA NobodyInCircle == Typed /\ LockInv => NoCircularWait
  <1> SUFFICES ASSUME Typed, LockInv, NEW c \in Threads, pc[c] # Idle,
                      \A t \in Threads : pc[t] # Idle => Waits(t)
               PROVE  FALSE
    BY DEF NoCircularWait
  <1> USE DEF Typed, PoolType, PageType, CallType, CallWellFormed
  <1>1. \A t \in Threads : pc[t] # "navigate"
    BY DEF Waits
  <1>2. \A s \in Sessions : sMu[s] = NoThread
    BY <1>1 DEF LockInv
  <1>3. \A t \in Threads : pc[t] \notin {"connect", "newPage", "scan"}
    BY <1>2 DEF Waits
  <1>4. spMu = NoThread /\ \A q \in Pools : poolMu[q] = NoThread
    BY <1>3 DEF LockInv
  <1>5. ~Waits(c)
    BY <1>2, <1>4 DEF Waits
  <1>6. QED
    BY <1>5

LEMMA Places ==
  /\ Place["idle"] = 0 /\ Place["tool"] = 1 /\ Place["navigate"] = 1 /\ Place["use"] = 2
  /\ Place["newPage"] = 3 /\ Place["create"] = 4 /\ Place["closeBrowser"] = 4
  /\ Place["drain"] = 5 /\ Place["scan"] = 6 /\ Place["connect"] = 6 /\ Place["lock"] = 7
  /\ Place["ensure"] = 8
  BY DEF Place

\* Every step of a call brings it nearer to its end.
LEMMA CallStepAdvances ==
  ASSUME Typed, NEW t \in Threads, CallStep(t)
  PROVE  Advances(t)
  <1> USE Places DEF Typed, CallType
  <1>1. CASE PoolFound(t)
    BY <1>1 DEF PoolFound, Advances
  <1>2. CASE PoolMissed(t) \/ LockPools(t) \/ NewPage(t) \/ Navigate(t)
    BY <1>2 DEF PoolMissed, LockPools, NewPage, Navigate, Goto, Advances
  <1>3. CASE ConnectFails(t) \/ SessionCapReached(t) \/ NewPagePanics(t) \/ PageFails(t)
    BY <1>3 DEF ConnectFails, SessionCapReached, NewPagePanics, PageFails, Return, Advances
  <1>4. CASE UseClosed(t) \/ Navigated(t) \/ PageUsed(t) \/ CloseBrowser(t)
    BY <1>4 DEF UseClosed, Navigated, PageUsed, CloseBrowser, Return, Advances
  <1>5. ASSUME NEW q \in Pools, Connect(t, q) PROVE Advances(t)
    BY <1>5 DEF Connect, Drain, Advances
  <1>6. ASSUME NEW q \in Pools, DropPool(t, q) PROVE Advances(t)
    BY <1>6 DEF DropPool, Advances, Shrinks
  <1>7. ASSUME NEW s \in Sessions, PageOpened(t, s) PROVE Advances(t)
    BY <1>7 DEF PageOpened, Return, Advances
  <1>8. ASSUME NEW s \in Sessions, ClosePage(t, s) PROVE Advances(t)
    BY <1>8 DEF ClosePage, Advances, Shrinks, Left
  <1>9. ASSUME NEW s \in Sessions, Examine(t, s) PROVE Advances(t)
    BY <1>9 DEF Examine, Advances, Shrinks, Left
  <1>10. CASE EnforceCap(t)
    BY <1>10 DEF EnforceCap, Drain, Advances
  <1>11. CASE Drained(t)
    BY <1>11 DEF Drained, Return, Goto, Advances
  <1>12. QED
    BY <1>1, <1>2, <1>3, <1>4, <1>5, <1>6, <1>7, <1>8, <1>9, <1>10, <1>11 DEF CallStep

\* What a call has still to do is changed by nobody else.
LEMMA OthersKeepCall ==
  ASSUME Typed, NEW t \in Threads, NEW u \in Threads \ {t},
         CallStep(u) \/ Call(u) \/ \E q \in Pools : GC(u, q)
  PROVE  UNCHANGED <<pc[t], victims[t], Left(t)>>
  <1>1. UNCHANGED <<pc[t], victims[t], toClose[t], todo[t]>>
    <2> USE DEF Typed, CallType, callVars
    <2>1. CASE CallStep(u)
      BY <2>1 DEF CallStep, PoolFound, PoolMissed, LockPools, ConnectFails, SessionCapReached, NewPage,
         NewPagePanics, PageFails, UseClosed, Navigate, Navigated, PageUsed, Connect, DropPool, PageOpened,
         ClosePage, Examine, EnforceCap, Drained, CloseBrowser, Return, Goto, Drain
    <2>2. CASE Call(u)
      BY <2>2 DEF Call, CreateSession, DestroyProfileSessions, GetSession, UsePage, DestroySession, CloseAll, Drain
    <2>3. CASE \E q \in Pools : GC(u, q)
      BY <2>3 DEF GC
    <2>4. QED
      BY <2>1, <2>2, <2>3
  <1>2. QED
    BY <1>1 DEF Left

LEMMA NobodyIsSetBack ==
  ASSUME Typed, [Next]_vars, NEW t \in Threads, pc[t] # Idle
  PROVE  Advances(t) \/ UNCHANGED <<pc[t], victims[t], Left(t)>>
  <1>1. CASE CallStep(t)
    BY <1>1, CallStepAdvances
  <1>2. ASSUME NEW u \in Threads, u # t, CallStep(u) \/ Call(u) \/ \E q \in Pools : GC(u, q)
        PROVE  UNCHANGED <<pc[t], victims[t], Left(t)>>
    BY <1>2, OthersKeepCall
  <1>3. ~Call(t) /\ ~\E q \in Pools : GC(t, q)
    BY DEF Call, CreateSession, DestroyProfileSessions, GetSession, UsePage, DestroySession, CloseAll, GC
  <1>4. CASE Environment \/ UNCHANGED vars
    BY <1>4 DEF Environment, BrowserDies, CloseSession, LaunchSession, IdleTTLPasses, vars, callVars, Left
  <1>5. QED
    BY <1>1, <1>2, <1>3, <1>4 DEF Next

-----------------------------------------------------------------------------
SafetyInv ==
  /\ LockInv /\ CleanInv /\ PoolInv /\ ScanInv /\ PlaceInv /\ CapInv /\ EndpointInv
  /\ NavigatedPageOpen /\ NoLostPage

\* Every variable of SessionPool keeps its type: a call that needs a profile, a
\* pool or a session has one.
THEOREM TypeCorrect == Spec => []TypeOK
  <1>1. Init => TypeOK
    BY TypeInit
  <1>2. TypeOK /\ [Next]_vars => TypeOK'
    BY TypeStep
  <1>3. QED
    BY <1>1, <1>2, PTL DEF Spec

LEMMA Safety == Spec => []SafetyInv
  <1>1. Init => SafetyInv
    BY InvInit DEF SafetyInv
  <1>2. TypeOK /\ SafetyInv /\ [Next]_vars => SafetyInv'
    BY TypeParts, LockStep, CleanStep, PoolStep, ScanStep, PlaceStep, CapStep, EndpointStep, NavigatedStep, NoLostPageStep
       DEF SafetyInv
  <1>3. QED
    BY <1>1, <1>2, TypeCorrect, PTL DEF Spec

\* ProfileSessionPool.sessions never outgrows maxPerProfile, although the check
\* in CreateSession and the page it allows are far apart.
THEOREM CapIsHeld == Spec => []CapHeld
  <1>1. SafetyInv => CapHeld
    BY DEF SafetyInv, CapInv
  <1>2. QED
    BY <1>1, Safety, PTL

\* A pool in SessionPool.pools has not been emptied: its browser handle is set.
THEOREM MappedPoolsConnected == Spec => []MappedIsConnected
  <1>1. SafetyInv => MappedIsConnected
    BY DEF SafetyInv, PoolInv
  <1>2. QED
    BY <1>1, Safety, PTL

\* closePage never closes a page under WebSearch or WebExplore.
THEOREM NavigationKeepsPage == Spec => []NavigatedPageOpen
  <1>1. SafetyInv => NavigatedPageOpen
    BY DEF SafetyInv
  <1>2. QED
    BY <1>1, Safety, PTL

\* No open page falls between the pools and the calls that close pages.
THEOREM PagesAreNotLost == Spec => []NoLostPage
  <1>1. SafetyInv => NoLostPage
    BY DEF SafetyInv
  <1>2. QED
    BY <1>1, Safety, PTL

\* ensureProfilePool never replaces a pool whose browser still runs.
THEOREM LivePoolIsKept == Spec => LivePoolKept
  <1> DEFINE Kept == \A p \in Profiles :
        pools[p] \in Pools /\ pools'[p] \in Pools /\ connectURL[pools[p]] \in alive
          => pools'[p] = pools[p]
  <1>1. TypeOK /\ SafetyInv /\ [Next]_vars => [Kept]_vars
    <2> SUFFICES ASSUME Typed, SafetyInv, [Next]_vars, NEW p \in Profiles, pools[p] \in Pools,
                        pools'[p] \in Pools, connectURL[pools[p]] \in alive, pools'[p] # pools[p]
                 PROVE  FALSE
      BY TypeParts
    <2>1. \E t \in Threads, q \in Pools : Connect(t, q) /\ p = profile[t]
      <3> USE DEF poolVars
      <3>1. ASSUME NEW t \in Threads, CallStep(t)
            PROVE  pools' = pools \/ \E q \in Pools : Connect(t, q)
        BY <3>1 DEF CallStep, PoolFound, PoolMissed, LockPools, ConnectFails, SessionCapReached, NewPage,
           NewPagePanics, PageOpened, PageFails, UseClosed, Navigate, Navigated, PageUsed, DropPool,
           ClosePage, Drained, CloseBrowser, Examine, EnforceCap
      <3>2. ASSUME NEW t \in Threads, NEW r \in Profiles, CreateSession(t, r) PROVE FALSE
        BY <3>2 DEF CreateSession
      <3>3. ASSUME NEW t \in Threads, NEW r \in Profiles, DestroyProfileSessions(t, r) PROVE FALSE
        BY <3>3, PoolAssumption DEF DestroyProfileSessions, Typed, PoolType
      <3>4. ASSUME NEW t \in Threads, CloseAll(t) PROVE FALSE
        BY <3>4, PoolAssumption DEF CloseAll
      <3>5. ASSUME NEW t \in Threads, NEW s \in Sessions, GetSession(t, s) \/ UsePage(t, s) \/ DestroySession(t, s)
            PROVE  FALSE
        BY <3>5 DEF GetSession, UsePage, DestroySession
      <3>6. ASSUME NEW t \in Threads, NEW q \in Pools, GC(t, q) PROVE FALSE
        BY <3>6 DEF GC
      <3>7. ASSUME Environment PROVE FALSE
        BY <3>7 DEF Environment, BrowserDies, CloseSession, LaunchSession, IdleTTLPasses
      <3>8. pools' # pools
        OBVIOUS
      <3>9. \E t \in Threads, q \in Pools : Connect(t, q)
        BY <3>1, <3>2, <3>3, <3>4, <3>5, <3>6, <3>7, <3>8 DEF Next, Call, vars
      <3>10. QED
        BY <3>9 DEF Connect, Typed, PoolType
    <2>2. PICK t \in Threads, q \in Pools : Connect(t, q) /\ p = profile[t]
      BY <2>1
    <2>3. pc[t] = "connect" /\ url[t] \in alive
      BY <2>2 DEF Connect
    <2>4. current[p] = url[t] /\ ~Cached(t)
      BY <2>2, <2>3 DEF SafetyInv, EndpointInv
    <2>5. connectURL[pools[p]] = url[t]
      BY <2>4, PoolAssumption DEF SafetyInv, EndpointInv
    <2>6. browser[pools[p]]
      BY DEF SafetyInv, PoolInv, MappedIsConnected, Mapped
    <2>7. QED
      BY <2>2, <2>4, <2>5, <2>6, PoolAssumption DEF Cached
  <1>2. QED
    BY <1>1, TypeCorrect, Safety, PTL DEF Spec, LivePoolKept

\* sp.mu, pool.mu and s.mu are never waited for in a circle: CreateSession and the collector
\* hold a lock while they ask for another, in the order sp.mu, pool.mu, s.mu only.
THEOREM NobodyWaitsInACircle == Spec => []NoCircularWait
  <1>1. Typed /\ SafetyInv => NoCircularWait
    BY NobodyInCircle DEF SafetyInv
  <1>2. QED
    BY <1>1, TypeParts, TypeCorrect, Safety, PTL

\* No tool call of internal/mcp and no round of StartGC starts over or is set back: the steps
\* of each are bounded by its place, the pools it empties and the sessions of its loop.
THEOREM EveryCallAdvances == Spec => CallsAdvance
  <1> DEFINE Advance == \A t \in Threads :
        /\ CallStep(t) => Advances(t)
        /\ pc[t] # Idle => Advances(t) \/ UNCHANGED <<pc[t], victims[t], Left(t)>>
  <1>1. TypeOK /\ [Next]_vars => [Advance]_vars
    BY TypeParts, CallStepAdvances, NobodyIsSetBack
  <1>2. QED
    BY <1>1, TypeCorrect, PTL DEF Spec, CallsAdvance

\* SessionPool implements AgentPages: a page is offered, taken out once and closed, and the
\* interleavings of CreateSession, closeAllPages, DestroySession, GC and the searches show
\* nothing else.
THEOREM PagesAreImplemented == Spec => ImplementsPages
  <1>1. TypeOK /\ SafetyInv /\ [Next]_vars => [Pages!Next]_(Pages!vars)
    BY TypeParts, PagesStep DEF SafetyInv
  <1>2. QED
    BY <1>1, PagesInit, TypeCorrect, Safety, PTL DEF Spec, ImplementsPages, Pages!Spec
=============================================================================
