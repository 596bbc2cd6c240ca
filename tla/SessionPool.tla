---------------------------- MODULE SessionPool ----------------------------
(***************************************************************************)
(* mcp.SessionPool: one pool of agent pages for each profile browser, the  *)
(* tools that create, use and destroy agent sessions, and the collector of *)
(* idle ones, under three kinds of locks (sp.mu, pool.mu, s.mu), some held *)
(* across calls into a browser that may be gone.  browser.Manager appears  *)
(* as what the pool sees of it: one endpoint per launched browser.         *)
(* Endpoints, pool objects and session IDs are reused once unreferenced.   *)
(***************************************************************************)
EXTENDS Naturals, FiniteSets

CONSTANTS
  Profiles, Threads, Endpoints, Pools, Sessions,
  NoEndpoint, NoPool, NoSession, NoThread, NoProfile,
  Collector,       \* the goroutine of StartGC
  MaxPerProfile    \* maxPerProfile

ASSUME PoolAssumption ==
  /\ NoEndpoint \notin Endpoints
  /\ NoPool \notin Pools
  /\ NoSession \notin Sessions
  /\ NoThread \notin Threads
  /\ NoProfile \notin Profiles
  /\ Collector \in Threads
  /\ MaxPerProfile \in Nat
  /\ IsFiniteSet(Sessions)

VARIABLES
  current,     \* the endpoint of each profile's session in browser.Manager
  alive,       \* the endpoints whose browser runs
  spMu,        \* the writer of SessionPool.mu
  pools,       \* SessionPool.pools
  connectURL, browser, members, poolMu,   \* a ProfileSessionPool; browser: not nil
  page, sMu, idle,                        \* a WebSession; idle: open and idle for idleTTL
  pc,          \* where each caller is
  profile, url, pool, ses,                \* what its call is about
  victims,     \* the pools its closeAllPages still has to empty
  toClose,     \* the sessions whose closePage it still has to call
  todo,        \* the sessions its GC still has to look at
  after        \* what follows the closing: create, closeBrowser, or return

browserVars == <<current, alive>>
poolVars    == <<spMu, pools, connectURL, browser, members, poolMu>>
pageVars    == <<page, sMu, idle>>
callVars    == <<pc, profile, url, pool, ses, victims, toClose, todo, after>>
vars        == <<browserVars, poolVars, pageVars, callVars>>

Idle == "idle"
PC   == {Idle, "ensure", "lock", "connect", "create", "newPage", "use", "navigate",
         "tool", "scan", "drain", "closeBrowser"}

TypeOK ==
  /\ current \in [Profiles -> Endpoints \cup {NoEndpoint}]
  /\ alive \in SUBSET Endpoints
  /\ spMu \in Threads \cup {NoThread}
  /\ pools \in [Profiles -> Pools \cup {NoPool}]
  /\ connectURL \in [Pools -> Endpoints \cup {NoEndpoint}]
  /\ browser \in [Pools -> BOOLEAN]
  /\ members \in [Pools -> SUBSET Sessions]
  /\ poolMu \in [Pools -> Threads \cup {NoThread}]
  /\ page \in [Sessions -> {"open", "closed"}]
  /\ sMu \in [Sessions -> Threads \cup {NoThread}]
  /\ idle \in [Sessions -> BOOLEAN]
  /\ pc \in [Threads -> PC]
  /\ profile \in [Threads -> Profiles \cup {NoProfile}]
  /\ url \in [Threads -> Endpoints \cup {NoEndpoint}]
  /\ pool \in [Threads -> Pools \cup {NoPool}]
  /\ ses \in [Threads -> Sessions \cup {NoSession}]
  /\ victims \in [Threads -> SUBSET Pools]
  /\ toClose \in [Threads -> SUBSET Sessions]
  /\ todo \in [Threads -> SUBSET Sessions]
  /\ after \in [Threads -> {Idle, "gc", "create", "closeBrowser"}]
  /\ \A t \in Threads :
       /\ pc[t] \in {"ensure", "lock", "connect"} => profile[t] \in Profiles /\ url[t] \in Endpoints
       /\ pc[t] \in {"create", "newPage", "scan"} => pool[t] \in Pools
       /\ pc[t] \in {"use", "navigate", "tool"} => ses[t] \in Sessions
       /\ pc[t] = "closeBrowser" => profile[t] \in Profiles
       /\ pc[t] = "drain" /\ after[t] = "create" => pool[t] \in Pools
       /\ pc[t] = "drain" /\ after[t] = "closeBrowser" => profile[t] \in Profiles

Init ==
  /\ current = [p \in Profiles |-> NoEndpoint]
  /\ alive = {}
  /\ spMu = NoThread
  /\ pools = [p \in Profiles |-> NoPool]
  /\ connectURL = [q \in Pools |-> NoEndpoint]
  /\ browser = [q \in Pools |-> FALSE]
  /\ members = [q \in Pools |-> {}]
  /\ poolMu = [q \in Pools |-> NoThread]
  /\ page = [s \in Sessions |-> "closed"]
  /\ sMu = [s \in Sessions |-> NoThread]
  /\ idle = [s \in Sessions |-> FALSE]
  /\ pc = [t \in Threads |-> Idle]
  /\ profile = [t \in Threads |-> NoProfile]
  /\ url = [t \in Threads |-> NoEndpoint]
  /\ pool = [t \in Threads |-> NoPool]
  /\ ses = [t \in Threads |-> NoSession]
  /\ victims = [t \in Threads |-> {}]
  /\ toClose = [t \in Threads |-> {}]
  /\ todo = [t \in Threads |-> {}]
  /\ after = [t \in Threads |-> Idle]

-----------------------------------------------------------------------------
Mapped == {q \in Pools : \E p \in Profiles : pools[p] = q}

\* What nobody refers to any more, and may stand for something new.
FreePool(q) == q \notin Mapped /\ \A t \in Threads : pool[t] # q /\ q \notin victims[t]
FreeSession(s) ==
  /\ page[s] # "open"
  /\ \A q \in Pools : s \notin members[q]
  /\ \A t \in Threads : ses[t] # s /\ s \notin toClose[t]
FreeEndpoint(e) ==
  /\ e \notin alive
  /\ \A p \in Profiles : current[p] # e
  /\ \A t \in Threads : url[t] # e
  /\ \A q \in Pools : connectURL[q] = e => FreePool(q)

Return(t) ==
  /\ pc' = [pc EXCEPT ![t] = Idle]
  /\ profile' = [profile EXCEPT ![t] = NoProfile]
  /\ url' = [url EXCEPT ![t] = NoEndpoint]
  /\ pool' = [pool EXCEPT ![t] = NoPool]
  /\ ses' = [ses EXCEPT ![t] = NoSession]
  /\ victims' = [victims EXCEPT ![t] = {}]
  /\ toClose' = [toClose EXCEPT ![t] = {}]
  /\ todo' = [todo EXCEPT ![t] = {}]
  /\ after' = [after EXCEPT ![t] = Idle]

Goto(t, l) ==
  /\ pc' = [pc EXCEPT ![t] = l]
  /\ UNCHANGED <<profile, url, pool, ses, victims, toClose, todo, after>>

\* Close the pages of the pools in Q, then those of the sessions in S.
Drain(t, Q, S, next) ==
  /\ pc' = [pc EXCEPT ![t] = "drain"]
  /\ victims' = [victims EXCEPT ![t] = Q]
  /\ toClose' = [toClose EXCEPT ![t] = S]
  /\ after' = [after EXCEPT ![t] = next]

\* Manager.LaunchSession for a profile without a healthy session.
Launch(p, e) ==
  /\ FreeEndpoint(e)
  /\ current' = [current EXCEPT ![p] = e]
  /\ alive' = alive \cup {e}

-----------------------------------------------------------------------------
\* Mutant: a profile without a browser is not launched first.
CreateSession_NoLaunch(t, p) ==
  /\ pc[t] = Idle
  /\ pc' = [pc EXCEPT ![t] = "ensure"]
  /\ profile' = [profile EXCEPT ![t] = p]
  /\ url' = [url EXCEPT ![t] = current[p]]
  /\ UNCHANGED <<pool, ses, victims, toClose, todo, after, browserVars, poolVars, pageVars>>

\* ensureProfilePool looks the browser up; it launches one only if there is none,
\* and does not ask whether the one it finds still answers.
CreateSession(t, p) ==
  /\ pc[t] = Idle
  /\ \/ current[p] # NoEndpoint /\ UNCHANGED browserVars
     \/ current[p] = NoEndpoint /\ \E e \in Endpoints : Launch(p, e)
  /\ pc' = [pc EXCEPT ![t] = "ensure"]
  /\ profile' = [profile EXCEPT ![t] = p]
  /\ url' = [url EXCEPT ![t] = current'[p]]
  /\ UNCHANGED <<pool, ses, victims, toClose, todo, after, poolVars, pageVars>>

Cached(t) ==
  LET q == pools[profile[t]] IN q # NoPool /\ connectURL[q] = url[t] /\ browser[q]

\* The pool is found under the read lock, or under the write lock.
PoolFound(t) ==
  /\ pc[t] \in {"ensure", "lock"}
  /\ spMu = NoThread
  /\ Cached(t)
  /\ pc' = [pc EXCEPT ![t] = "create"]
  /\ pool' = [pool EXCEPT ![t] = pools[profile[t]]]
  /\ UNCHANGED <<profile, url, ses, victims, toClose, todo, after, browserVars, poolVars, pageVars>>

PoolMissed(t) ==
  /\ pc[t] = "ensure"
  /\ spMu = NoThread
  /\ ~Cached(t)
  /\ Goto(t, "lock")
  /\ UNCHANGED <<browserVars, poolVars, pageVars>>

\* Mutant: the pool is not looked up again under the write lock.
LockPools_NoRecheck(t) ==
  /\ pc[t] = "lock"
  /\ spMu = NoThread
  /\ spMu' = t
  /\ Goto(t, "connect")
  /\ UNCHANGED <<pools, connectURL, browser, members, poolMu, browserVars, pageVars>>

LockPools(t) ==
  /\ pc[t] = "lock"
  /\ spMu = NoThread
  /\ ~Cached(t)
  /\ spMu' = t
  /\ Goto(t, "connect")
  /\ UNCHANGED <<pools, connectURL, browser, members, poolMu, browserVars, pageVars>>

\* Connect to a running browser; the pool it replaces is emptied outside sp.mu.
Connect(t, q) ==
  /\ pc[t] = "connect"
  /\ url[t] \in alive
  /\ FreePool(q)
  /\ pools' = [pools EXCEPT ![profile[t]] = q]
  /\ connectURL' = [connectURL EXCEPT ![q] = url[t]]
  /\ browser' = [browser EXCEPT ![q] = TRUE]
  /\ members' = [members EXCEPT ![q] = {}]
  /\ pool' = [pool EXCEPT ![t] = q]
  /\ spMu' = NoThread
  /\ Drain(t, {pools[profile[t]]} \ {NoPool}, {}, "create")
  /\ UNCHANGED <<poolMu, profile, url, ses, todo, browserVars, pageVars>>

\* Mutant: the error path returns without unlocking.
ConnectFails_KeepsLock(t) ==
  /\ pc[t] = "connect"
  /\ Return(t)
  /\ UNCHANGED <<browserVars, poolVars, pageVars>>

\* Mutant: a connection that fails is tried again, without a limit.
ConnectFails_Retries(t) ==
  /\ pc[t] = "connect"
  /\ spMu' = NoThread
  /\ Goto(t, "lock")
  /\ UNCHANGED <<pools, connectURL, browser, members, poolMu, browserVars, pageVars>>

ConnectFails(t) ==
  /\ pc[t] = "connect"
  /\ spMu' = NoThread
  /\ Return(t)
  /\ UNCHANGED <<pools, connectURL, browser, members, poolMu, browserVars, pageVars>>

SessionCapReached(t) ==
  /\ pc[t] = "create"
  /\ poolMu[pool[t]] = NoThread
  /\ Cardinality(members[pool[t]]) >= MaxPerProfile
  /\ Return(t)
  /\ UNCHANGED <<browserVars, poolVars, pageVars>>

\* pool.browser is nil: closeAllPages came in between, and the call panics.
NewPagePanics(t) ==
  /\ pc[t] = "create"
  /\ poolMu[pool[t]] = NoThread
  /\ Cardinality(members[pool[t]]) < MaxPerProfile
  /\ ~browser[pool[t]]
  /\ Return(t)
  /\ UNCHANGED <<browserVars, poolVars, pageVars>>

\* Mutant: an off-by-one in the cap.
NewPage_OffByOne(t) ==
  /\ pc[t] = "create"
  /\ poolMu[pool[t]] = NoThread
  /\ Cardinality(members[pool[t]]) <= MaxPerProfile
  /\ browser[pool[t]]
  /\ poolMu' = [poolMu EXCEPT ![pool[t]] = t]
  /\ Goto(t, "newPage")
  /\ UNCHANGED <<spMu, pools, connectURL, browser, members, browserVars, pageVars>>

NewPage(t) ==
  /\ pc[t] = "create"
  /\ poolMu[pool[t]] = NoThread
  /\ Cardinality(members[pool[t]]) < MaxPerProfile
  /\ browser[pool[t]]
  /\ poolMu' = [poolMu EXCEPT ![pool[t]] = t]
  /\ Goto(t, "newPage")
  /\ UNCHANGED <<spMu, pools, connectURL, browser, members, browserVars, pageVars>>

\* create_session returns; web_search and web_explore go on to use the session.
PageOpened(t, s) ==
  /\ pc[t] = "newPage"
  /\ connectURL[pool[t]] \in alive
  /\ FreeSession(s)
  /\ poolMu' = [poolMu EXCEPT ![pool[t]] = NoThread]
  /\ page' = [page EXCEPT ![s] = "open"]
  /\ idle' = [idle EXCEPT ![s] = FALSE]
  /\ members' = [members EXCEPT ![pool[t]] = @ \cup {s}]
  /\ \/ Return(t)
     \/ /\ pc' = [pc EXCEPT ![t] = "use"]
        /\ ses' = [ses EXCEPT ![t] = s]
        /\ pool' = [pool EXCEPT ![t] = NoPool]
        /\ UNCHANGED <<profile, url, victims, toClose, todo, after>>
  /\ UNCHANGED <<spMu, pools, connectURL, browser, sMu, browserVars>>

PageFails(t) ==
  /\ pc[t] = "newPage"
  /\ poolMu' = [poolMu EXCEPT ![pool[t]] = NoThread]
  /\ Return(t)
  /\ UNCHANGED <<spMu, pools, connectURL, browser, members, browserVars, pageVars>>

-----------------------------------------------------------------------------
\* GetSession walks a snapshot of the pools: one of them may have left the map.
Found(s) ==
  /\ spMu = NoThread
  /\ \E q \in Pools : s \in members[q] /\ poolMu[q] = NoThread

GetSession(t, s) ==
  /\ pc[t] = Idle
  /\ Found(s)
  /\ pc' = [pc EXCEPT ![t] = "use"]
  /\ ses' = [ses EXCEPT ![t] = s]
  /\ UNCHANGED <<profile, url, pool, victims, toClose, todo, after, browserVars, poolVars, pageVars>>

UseClosed(t) ==
  /\ pc[t] = "use"
  /\ sMu[ses[t]] = NoThread
  /\ page[ses[t]] # "open"
  /\ Return(t)
  /\ UNCHANGED <<browserVars, poolVars, pageVars>>

\* WebSearch, WebExplore: LastAccessed is refreshed before the navigation.
Navigate(t) ==
  /\ pc[t] = "use"
  /\ sMu[ses[t]] = NoThread
  /\ page[ses[t]] = "open"
  /\ sMu' = [sMu EXCEPT ![ses[t]] = t]
  /\ idle' = [idle EXCEPT ![ses[t]] = FALSE]
  /\ Goto(t, "navigate")
  /\ UNCHANGED <<page, browserVars, poolVars>>

Navigated(t) ==
  /\ pc[t] = "navigate"
  /\ sMu' = [sMu EXCEPT ![ses[t]] = NoThread]
  /\ Return(t)
  /\ UNCHANGED <<page, idle, browserVars, poolVars>>

\* resolvePageTarget: a page tool given a session_id takes the page and no lock.
UsePage(t, s) ==
  /\ pc[t] = Idle
  /\ Found(s)
  /\ page[s] = "open"
  /\ pc' = [pc EXCEPT ![t] = "tool"]
  /\ ses' = [ses EXCEPT ![t] = s]
  /\ UNCHANGED <<profile, url, pool, victims, toClose, todo, after, browserVars, poolVars, pageVars>>

PageUsed(t) ==
  /\ pc[t] = "tool"
  /\ Return(t)
  /\ UNCHANGED <<browserVars, poolVars, pageVars>>

-----------------------------------------------------------------------------
DestroySession(t, s) ==
  /\ pc[t] = Idle
  /\ spMu = NoThread
  /\ \E q \in Pools :
       /\ s \in members[q] /\ poolMu[q] = NoThread
       /\ members' = [members EXCEPT ![q] = @ \ {s}]
  /\ Drain(t, {}, {s}, Idle)
  /\ UNCHANGED <<spMu, pools, connectURL, browser, poolMu, profile, url, pool, ses, todo, browserVars, pageVars>>

\* Both of its callers, close_browser and delete_profile, then close the browser.
DestroyProfileSessions(t, p) ==
  /\ pc[t] = Idle
  /\ spMu = NoThread
  /\ profile' = [profile EXCEPT ![t] = p]
  /\ pools' = [pools EXCEPT ![p] = NoPool]
  /\ Drain(t, {pools[p]} \ {NoPool}, {}, "closeBrowser")
  /\ UNCHANGED <<spMu, connectURL, browser, members, poolMu, url, pool, ses, todo, browserVars, pageVars>>

CloseAll(t) ==
  /\ pc[t] = Idle
  /\ spMu = NoThread
  /\ pools' = [p \in Profiles |-> NoPool]
  /\ Drain(t, Mapped, {}, Idle)
  /\ UNCHANGED <<spMu, connectURL, browser, members, poolMu, profile, url, pool, ses, todo, browserVars, pageVars>>

\* Mutant: closeAllPages leaves pool.browser set.
DropPool_KeepsBrowser(t, q) ==
  /\ pc[t] = "drain"
  /\ q \in victims[t] /\ toClose[t] = {}
  /\ poolMu[q] = NoThread
  /\ toClose' = [toClose EXCEPT ![t] = members[q]]
  /\ members' = [members EXCEPT ![q] = {}]
  /\ victims' = [victims EXCEPT ![t] = @ \ {q}]
  /\ UNCHANGED <<spMu, pools, connectURL, browser, poolMu, pc, profile, url, pool, ses, todo, after, browserVars, pageVars>>

\* closeAllPages: empty the pool under its lock, close the pages outside it.
DropPool(t, q) ==
  /\ pc[t] = "drain"
  /\ q \in victims[t] /\ toClose[t] = {}
  /\ poolMu[q] = NoThread
  /\ toClose' = [toClose EXCEPT ![t] = members[q]]
  /\ members' = [members EXCEPT ![q] = {}]
  /\ browser' = [browser EXCEPT ![q] = FALSE]
  /\ victims' = [victims EXCEPT ![t] = @ \ {q}]
  /\ UNCHANGED <<spMu, pools, connectURL, poolMu, pc, profile, url, pool, ses, todo, after, browserVars, pageVars>>

\* Mutant: closePage does not wait for the session's mutex.
ClosePage_NoLock(t, s) ==
  /\ pc[t] = "drain"
  /\ s \in toClose[t]
  /\ page' = [page EXCEPT ![s] = "closed"]
  /\ idle' = [idle EXCEPT ![s] = FALSE]
  /\ toClose' = [toClose EXCEPT ![t] = @ \ {s}]
  /\ UNCHANGED <<sMu, pc, profile, url, pool, ses, victims, todo, after, browserVars, poolVars>>

ClosePage(t, s) ==
  /\ pc[t] = "drain"
  /\ s \in toClose[t]
  /\ sMu[s] = NoThread
  /\ page' = [page EXCEPT ![s] = "closed"]
  /\ idle' = [idle EXCEPT ![s] = FALSE]
  /\ toClose' = [toClose EXCEPT ![t] = @ \ {s}]
  /\ UNCHANGED <<sMu, pc, profile, url, pool, ses, victims, todo, after, browserVars, poolVars>>

Drained(t) ==
  /\ pc[t] = "drain"
  /\ victims[t] = {} /\ toClose[t] = {}
  /\ IF after[t] \in {Idle, "gc"} THEN Return(t) ELSE Goto(t, after[t])
  /\ UNCHANGED <<browserVars, poolVars, pageVars>>

\* Manager.CloseSession.
CloseBrowser(t) ==
  /\ pc[t] = "closeBrowser"
  /\ alive' = alive \ {current[profile[t]]}
  /\ current' = [current EXCEPT ![profile[t]] = NoEndpoint]
  /\ Return(t)
  /\ UNCHANGED <<poolVars, pageVars>>

-----------------------------------------------------------------------------
\* GC, one of the pools it has a snapshot of: it waits for each session's mutex
\* while it holds the pool's.
GC(t, q) ==
  /\ pc[t] = Idle
  /\ spMu = NoThread
  /\ members[q] # {}
  /\ poolMu[q] = NoThread
  /\ poolMu' = [poolMu EXCEPT ![q] = t]
  /\ pc' = [pc EXCEPT ![t] = "scan"]
  /\ pool' = [pool EXCEPT ![t] = q]
  /\ todo' = [todo EXCEPT ![t] = members[q]]
  /\ UNCHANGED <<spMu, pools, connectURL, browser, members, profile, url, ses, victims, toClose, after, browserVars, pageVars>>

\* Mutant: an idle session is only deleted from the pool.
Examine_NoClose(t, s) ==
  /\ pc[t] = "scan"
  /\ s \in todo[t]
  /\ sMu[s] = NoThread
  /\ todo' = [todo EXCEPT ![t] = @ \ {s}]
  /\ members' = [members EXCEPT ![pool[t]] = IF idle[s] THEN @ \ {s} ELSE @]
  /\ UNCHANGED <<spMu, pools, connectURL, browser, poolMu, pc, profile, url, pool, ses, victims, toClose, after, browserVars, pageVars>>

Examine(t, s) ==
  /\ pc[t] = "scan"
  /\ s \in todo[t]
  /\ sMu[s] = NoThread
  /\ todo' = [todo EXCEPT ![t] = @ \ {s}]
  /\ members' = [members EXCEPT ![pool[t]] = IF idle[s] THEN @ \ {s} ELSE @]
  /\ toClose' = [toClose EXCEPT ![t] = IF idle[s] THEN @ \cup {s} ELSE @]
  /\ UNCHANGED <<spMu, pools, connectURL, browser, poolMu, pc, profile, url, pool, ses, victims, after, browserVars, pageVars>>

\* The oldest sessions over the cap go too; S abstracts from the creation times.
EnforceCap(t) ==
  /\ pc[t] = "scan"
  /\ todo[t] = {}
  /\ LET q    == pool[t]
         over == Cardinality(members[q]) - MaxPerProfile
     IN \E S \in SUBSET members[q] :
          /\ Cardinality(S) = IF over > 0 THEN over ELSE 0
          /\ members' = [members EXCEPT ![q] = @ \ S]
          /\ poolMu' = [poolMu EXCEPT ![q] = NoThread]
          /\ Drain(t, {}, toClose[t] \cup S, "gc")
  /\ pool' = [pool EXCEPT ![t] = NoPool]
  /\ UNCHANGED <<spMu, pools, connectURL, browser, profile, url, ses, todo, browserVars, pageVars>>

-----------------------------------------------------------------------------
BrowserDies(e) ==
  /\ e \in alive
  /\ alive' = alive \ {e}
  /\ UNCHANGED <<current, poolVars, pageVars, callVars>>

\* The REST API closes a browser without telling the pool.
CloseSession(p) ==
  /\ current[p] # NoEndpoint
  /\ alive' = alive \ {current[p]}
  /\ current' = [current EXCEPT ![p] = NoEndpoint]
  /\ UNCHANGED <<poolVars, pageVars, callVars>>

\* REST or open_browser: LaunchSession replaces a session that does not answer.
LaunchSession(p) ==
  /\ current[p] \notin alive
  /\ \E e \in Endpoints : Launch(p, e)
  /\ UNCHANGED <<poolVars, pageVars, callVars>>

IdleTTLPasses(s) ==
  /\ page[s] = "open" /\ ~idle[s]
  /\ idle' = [idle EXCEPT ![s] = TRUE]
  /\ UNCHANGED <<page, sMu, browserVars, poolVars, callVars>>

Environment ==
  \/ \E e \in Endpoints : BrowserDies(e)
  \/ \E p \in Profiles : CloseSession(p) \/ LaunchSession(p)
  \/ \E s \in Sessions : IdleTTLPasses(s)

\* The steps of a call in progress.
CallStep(t) ==
  \/ PoolFound(t) \/ PoolMissed(t) \/ LockPools(t) \/ ConnectFails(t)
  \/ SessionCapReached(t) \/ NewPage(t) \/ NewPagePanics(t) \/ PageFails(t)
  \/ UseClosed(t) \/ Navigate(t) \/ Navigated(t) \/ PageUsed(t)
  \/ \E q \in Pools : Connect(t, q) \/ DropPool(t, q)
  \/ \E s \in Sessions : PageOpened(t, s) \/ ClosePage(t, s) \/ Examine(t, s)
  \/ EnforceCap(t) \/ Drained(t) \/ CloseBrowser(t)

\* The calls of MCP clients; the collector makes none.
Call(t) ==
  \/ \E p \in Profiles : CreateSession(t, p) \/ DestroyProfileSessions(t, p)
  \/ \E s \in Sessions : GetSession(t, s) \/ UsePage(t, s) \/ DestroySession(t, s)
  \/ CloseAll(t)

Next ==
  \/ \E t \in Threads : CallStep(t) \/ \E q \in Pools : GC(t, q)
  \/ \E t \in Threads \ {Collector} : Call(t)
  \/ Environment

Spec == Init /\ [][Next]_vars

\* Calls into a browser return or time out, Go's mutexes do not starve a waiter,
\* and the collector's ticker visits every pool again and again.
FairSpec ==
  /\ Spec
  /\ \A t \in Threads : SF_vars(CallStep(t))
  /\ \A q \in Pools : SF_vars(GC(Collector, q))

-----------------------------------------------------------------------------
\* No pool holds more agent sessions than maxPerProfile, however many callers
\* create sessions at once and however they interleave with the collector.
CapHeld == \A q \in Pools : Cardinality(members[q]) <= MaxPerProfile

\* A pool that callers can find has a browser handle: every path takes the pool
\* out of the map before it clears the handle.
MappedIsConnected == \A q \in Mapped : browser[q]

\* A page stays open while a search navigates it, although collector, destroy and
\* pool replacement decide to close it without asking for the session's mutex.
NavigatedPageOpen ==
  \A t \in Threads : pc[t] = "navigate" => page[ses[t]] = "open" /\ sMu[ses[t]] = t

\* Every open page can be found in a pool of the map, or somebody is about to
\* close it: no interleaving of creation and teardown leaks a page.
NoLostPage ==
  \A s \in Sessions : page[s] = "open" =>
    \/ \E q \in Mapped : s \in members[q]
    \/ \E t \in Threads : s \in toClose[t] \/ \E q \in victims[t] : s \in members[q]

\* A pool is only replaced by another one once its browser is gone: two callers
\* that both miss the pool end up sharing one connection.
LivePoolKept ==
  [][\A p \in Profiles :
        pools[p] \in Pools /\ pools'[p] \in Pools /\ connectURL[pools[p]] \in alive
          => pools'[p] = pools[p]]_vars

\* Every call returns: the three kinds of locks are always released, and never
\* waited for in a circle.
CallsReturn == \A t \in Threads : pc[t] # Idle ~> pc[t] = Idle

\* The collector gets every idle page, wherever the session has gone meanwhile.
IdlePagesCollected ==
  \A s \in Sessions : page[s] = "open" /\ idle[s] ~> page[s] # "open" \/ ~idle[s]

\* A page is opened through the pool's connected browser.
NewPageHasBrowser ==
  \A t \in Threads :
    pc[t] = "create" /\ poolMu[pool[t]] = NoThread => browser[pool[t]]

\* A lock that call t waits for, or is about to ask for, is taken.
Waits(t) ==
  \/ pc[t] \in {"ensure", "lock"} /\ spMu # NoThread
  \/ pc[t] = "create" /\ poolMu[pool[t]] # NoThread
  \/ pc[t] = "use" /\ sMu[ses[t]] # NoThread
  \/ pc[t] = "scan" /\ \E s \in todo[t] : sMu[s] # NoThread
  \/ pc[t] = "drain" /\ \E s \in toClose[t] : sMu[s] # NoThread
  \/ pc[t] = "drain" /\ \E q \in victims[t] : poolMu[q] # NoThread

\* sp.mu, pool.mu and s.mu are never waited for in a circle, although the collector asks
\* for s.mu under pool.mu: of the calls in progress one waits for nobody's lock.
NoCircularWait ==
  (\E t \in Threads : pc[t] # Idle) => \E t \in Threads : pc[t] # Idle /\ ~Waits(t)

\* How far each place of a call is from its end.
Place ==
  [idle |-> 0, tool |-> 1, navigate |-> 1, use |-> 2, newPage |-> 3, create |-> 4, closeBrowser |-> 4,
   drain |-> 5, scan |-> 6, connect |-> 6, lock |-> 7, ensure |-> 8]

\* What its loop, over sessions to examine or pages to close, has still to do.
Left(t) == IF pc[t] = "scan" THEN todo[t] ELSE toClose[t]

Shrinks(S, T) == T \subseteq S /\ T # S

\* Call t comes nearer to its end: to a later place, or with fewer pools to empty, or with
\* fewer sessions left in its loop.
Advances(t) ==
  \/ Place[pc'[t]] < Place[pc[t]]
  \/ pc'[t] = pc[t] /\ Shrinks(victims[t], victims'[t])
  \/ pc'[t] = pc[t] /\ victims'[t] = victims[t] /\ Shrinks(Left(t), Left(t)')

\* No call starts over, whatever others do to its pool, browser or page: each of its steps
\* is one of finitely many, and nobody else's step sets it back.
CallsAdvance ==
  [][\A t \in Threads :
        /\ CallStep(t) => Advances(t)
        /\ pc[t] # Idle => Advances(t) \/ UNCHANGED <<pc[t], victims[t], Left(t)>>]_vars

\* Where callers find the page of s, and its life as AgentPages sees it.
Offered(s) == \E q \in Mapped : s \in members[q]
Life == [s \in Sessions |-> IF page[s] # "open" THEN "closed"
                            ELSE IF Offered(s) THEN "offered" ELSE "leaving"]

\* Whatever creation, replacement, collection and the tools do to the pools, each page goes
\* once through the life of AgentPages, and is never closed under a search.
Pages == INSTANCE AgentPages WITH life <- Life, user <- sMu
ImplementsPages == Pages!Spec
=============================================================================
