--------------------------- MODULE RoutingProofs ---------------------------
(***************************************************************************)
(* For any number of callers, profiles, groups and proxies: an outdated    *)
(* browser is announced, and delete_profile leaves no browser behind.      *)
(***************************************************************************)
EXTENDS Routing, TLAPS

\* The launch that holds Manager.mu has closed or found no session of its profile.
LaunchInv == \A t \in Threads : pc[t] \in Launching => sessions[prof[t]] = NoSession

\* A count of sessions that will take place after p's launch.
Counting(p) == \E t \in Threads : pc[t] = "count" /\ label[t] = group[p]

\* A count that has found p's session.
Counted(p) == \E t \in Threads : pc[t] = "answer" /\ label[t] = group[p] /\ p \in todo[t]

Known(p) == p \in excused \cup late \/ Counting(p)

\* What a launch has read is up to date, or will be announced once it is over.
ReadInv ==
  \A t \in Threads :
    prof[t] \in stored =>
      /\ pc[t] = "proxy" /\ seen[t] # PolicyOf(prof[t]) => Known(prof[t])
      /\ pc[t] = "start" /\ route[t] # Effective(prof[t]) => Known(prof[t])

\* The browser of p runs, or comes up with the policy that was read.
Uses(p) ==
  \/ sessions[p] # NoSession
  \/ \E u \in Threads : pc[u] \in {"proxy", "start"} /\ prof[u] = p

\* When a deletion changes what a profile uses, no browser of it was there to be counted.
CountInv ==
  \A t \in Threads, p \in stored :
    Uses(p) =>
      /\ pc[t] = "decide" /\ group[p] = label[t] => p \in excused \cup late \cup todo[t]
      /\ pc[t] \in {"ungroup", "take out"} /\ group[p] = label[t] => p \in excused \cup late
      /\ pc[t] = "take out" /\ prof[t] = p => p \in excused \cup late

StaleInv == \A p \in Profiles : Stale(p) => Known(p) \/ Counted(p)

\* Whoever opens a deleted profile, or one about to be deleted, is known to overtake it.
OpenInv ==
  \A t \in Threads :
    pc[t] \in Launching \cup {"open"} /\ prof[t] \notin stored => prof[t] \in overtaken

DeleteInv ==
  \A t \in Threads :
    pc[t] = "delete" =>
      \/ prof[t] \in overtaken
      \/ /\ sessions[prof[t]] = NoSession
         /\ \A u \in Threads : prof[u] = prof[t] => pc[u] \notin Launching \cup {"open"}

RouteInv == TypeOK /\ LaunchInv /\ ReadInv /\ CountInv /\ StaleInv
CloseInv == TypeOK /\ OpenInv /\ DeleteInv /\ DeletedIsClosed

LEMMA TypeStep == TypeOK /\ [Next]_vars => TypeOK'
  <1> SUFFICES ASSUME TypeOK, [Next]_vars PROVE TypeOK'
    OBVIOUS
  <1>1. ASSUME NEW t \in Threads, NEW p \in Profiles, OpenBrowser(t, p) PROVE TypeOK'
    BY <1>1, RoutingAssumption DEF OpenBrowser, TypeOK, Goto, storeVars, Routes, Policy,
      Launching, RoutingAssumption
  <1>2. ASSUME NEW t \in Threads, UseSession(t) PROVE TypeOK'
    BY <1>2, RoutingAssumption DEF UseSession, TypeOK, Return, storeVars, histVars, Routes,
      Policy, Launching, Goto, RoutingAssumption
  <1>3. ASSUME NEW t \in Threads, LaunchSession(t) PROVE TypeOK'
    BY <1>3, RoutingAssumption DEF LaunchSession, TypeOK, Goto, storeVars, histVars, Routes,
      Policy, Launching, RoutingAssumption
  <1>4. ASSUME NEW t \in Threads, ReadPolicy(t) PROVE TypeOK'
    BY <1>4, RoutingAssumption, ZenonT(60) DEF ReadPolicy, TypeOK, PolicyOf, Goto, storeVars, Routes, Policy,
      Launching, RoutingAssumption
  <1>5. ASSUME NEW t \in Threads, ReadProxy(t) PROVE TypeOK'
    BY <1>5, RoutingAssumption DEF ReadProxy, TypeOK, EffectiveProxy, Goto, storeVars, histVars,
      Routes, Policy, Launching, RoutingAssumption
  <1>6. ASSUME NEW t \in Threads, BrowserStarts(t) PROVE TypeOK'
    BY <1>6, RoutingAssumption DEF BrowserStarts, TypeOK, Return, storeVars, histVars, Routes,
      Policy, Launching, Goto, RoutingAssumption
  <1>7. ASSUME NEW t \in Threads, SafeGpuFallback(t) PROVE TypeOK'
    BY <1>7, RoutingAssumption DEF SafeGpuFallback, TypeOK, DropSessions, storeVars, callVars,
      histVars, Routes, Policy, Launching, RoutingAssumption
  <1>8. ASSUME NEW t \in Threads, RetryLaunch(t) PROVE TypeOK'
    BY <1>8, RoutingAssumption DEF RetryLaunch, TypeOK, DropSessions, Goto, storeVars, histVars,
      Routes, Policy, Launching, RoutingAssumption
  <1>9. ASSUME NEW t \in Threads, LaunchFails(t) PROVE TypeOK'
    BY <1>9, RoutingAssumption DEF LaunchFails, TypeOK, Launching, Return, storeVars, histVars,
      Routes, Policy, Goto, RoutingAssumption
  <1>10. ASSUME NEW t \in Threads, NEW p \in Profiles, DeleteTool(t, p) PROVE TypeOK'
    BY <1>10, RoutingAssumption DEF DeleteTool, TypeOK, Goto, storeVars, Routes, Policy,
      Launching, RoutingAssumption
  <1>11. ASSUME NEW t \in Threads, Deleted(t) PROVE TypeOK'
    BY <1>11, RoutingAssumption DEF Deleted, TypeOK, Return, histVars, Routes, Policy, Launching,
      Goto, RoutingAssumption
  <1>12. ASSUME NEW t \in Threads, NEW g \in Groups, NEW pol \in Policy \cup {NoPolicy},
    ChangePolicy(t, g, pol) PROVE TypeOK'
    BY <1>12, RoutingAssumption DEF ChangePolicy, TypeOK, Goto, histVars, Routes, Policy,
      Launching, RoutingAssumption
  <1>13. ASSUME NEW t \in Threads, ListSessions(t) PROVE TypeOK'
    BY <1>13, RoutingAssumption DEF ListSessions, TypeOK, Goto, storeVars, histVars, Routes,
      Policy, Launching, RoutingAssumption
  <1>14. ASSUME NEW t \in Threads, Answer(t) PROVE TypeOK'
    BY <1>14, RoutingAssumption DEF Answer, TypeOK, Active, Return, storeVars, Routes, Policy,
      Launching, Members, Goto, RoutingAssumption
  <1>15. ASSUME NEW t \in Threads, NEW g \in Groups, DeleteGroup(t, g) PROVE TypeOK'
    BY <1>15, RoutingAssumption DEF DeleteGroup, TypeOK, Goto, storeVars, histVars, Routes,
      Policy, Launching, RoutingAssumption
  <1>16. ASSUME NEW t \in Threads, Refuse(t) PROVE TypeOK'
    BY <1>16, RoutingAssumption DEF Refuse, TypeOK, Active, Return, storeVars, histVars, Routes,
      Policy, Launching, Members, Goto, RoutingAssumption
  <1>17. ASSUME NEW t \in Threads, ListProfiles(t) PROVE TypeOK'
    BY <1>17, RoutingAssumption DEF ListProfiles, TypeOK, Active, Goto, storeVars, histVars,
      Routes, Policy, Launching, Members, RoutingAssumption
  <1>18. ASSUME NEW t \in Threads, NEW p \in Profiles, OtherGroup(t, p) PROVE TypeOK'
    BY <1>18, RoutingAssumption DEF OtherGroup, TypeOK, storeVars, histVars, Routes, Policy,
      Launching, RoutingAssumption
  <1>19. ASSUME NEW t \in Threads, NEW p \in Profiles, SameGroup(t, p) PROVE TypeOK'
    BY <1>19, RoutingAssumption DEF SameGroup, TypeOK, Goto, storeVars, histVars, Routes, Policy,
      Launching, RoutingAssumption
  <1>20. ASSUME NEW t \in Threads, Ungroup(t) PROVE TypeOK'
    <2>1. CASE Goto(t, "ungroup") /\ prof' = [prof EXCEPT ![t] = NoProfile]
              /\ UNCHANGED <<label, seen, route, retried, todo>>
      BY <1>20, <2>1, RoutingAssumption DEF Ungroup, Goto, histVars, TypeOK, Launching, Routes,
        Policy, RoutingAssumption
    <2>2. CASE Return(t)
      BY <1>20, <2>2, RoutingAssumption DEF Ungroup, Goto, Return, histVars, TypeOK, Launching,
        Routes, Policy, RoutingAssumption
    <2> QED
      BY <1>20, <2>1, <2>2 DEF Ungroup
  <1>21. ASSUME NEW t \in Threads, UngroupNotFound(t) PROVE TypeOK'
    BY <1>21, RoutingAssumption DEF UngroupNotFound, TypeOK, Return, storeVars, histVars, Routes,
      Policy, Launching, Goto, RoutingAssumption
  <1>22. ASSUME NEW t \in Threads, ClearGroup(t) PROVE TypeOK'
    BY <1>22, RoutingAssumption DEF ClearGroup, TypeOK, Return, histVars, Routes, Policy,
      Launching, Goto, RoutingAssumption
  <1>23. ASSUME NEW p \in Profiles, CloseSession(p) PROVE TypeOK'
    BY <1>23, RoutingAssumption DEF CloseSession, TypeOK, storeVars, callVars, histVars, Routes,
      Policy, Launching, RoutingAssumption
  <1>24. ASSUME NEW p \in Profiles, DeleteProfile(p) PROVE TypeOK'
    BY <1>24, RoutingAssumption DEF DeleteProfile, TypeOK, callVars, Routes, Policy, Launching,
      RoutingAssumption
  <1>25. ASSUME NEW p \in Profiles, NEW g \in Groups \cup {NoGroup}, NEW x \in Routes,
    CreateProfile(p, g, x) PROVE TypeOK'
    BY <1>25, RoutingAssumption DEF CreateProfile, TypeOK, callVars, Routes, Policy, Launching,
      RoutingAssumption
  <1>26. ASSUME NEW p \in Profiles, NEW g \in Groups \cup {NoGroup}, NEW x \in Routes,
    UpdateProfile(p, g, x) PROVE TypeOK'
    BY <1>26, RoutingAssumption DEF UpdateProfile, TypeOK, callVars, Routes, Policy, Launching,
      RoutingAssumption
  <1>27. ASSUME NEW g \in Groups, NEW pol \in Policy \cup {NoPolicy}, ChangePolicySilently(g, pol)
    PROVE TypeOK'
    BY <1>27, RoutingAssumption DEF ChangePolicySilently, TypeOK, callVars, Routes, Policy,
      Launching, RoutingAssumption
  <1>28. CASE UNCHANGED vars
    BY <1>28 DEF vars, TypeOK, storeVars, callVars, histVars, Routes, Policy, Launching
  <1> QED
    BY <1>1, <1>2, <1>3, <1>4, <1>5, <1>6, <1>7, <1>8, <1>9, <1>10, <1>11, <1>12, <1>13, <1>14,
      <1>15, <1>16, <1>17, <1>18, <1>19, <1>20, <1>21, <1>22, <1>23, <1>24, <1>25, <1>26, <1>27,
      <1>28 DEF Next, LaunchStep, DeleteStep, GroupStep

\* However it ends, the step that takes a profile out of its group touches no other call.
TakesOut(t) ==
  /\ UNCHANGED <<stored, proxy, policy, sessions, mu, histVars>>
  /\ prof[t] \in stored /\ group' = [group EXCEPT ![prof[t]] = NoGroup]
  /\ pc[t] = "take out" /\ pc'[t] \in {"idle", "ungroup"}
  /\ pc'[t] = "ungroup" => label'[t] = label[t]
  /\ \A u \in Threads \ {t} :
       /\ pc'[u] = pc[u] /\ prof'[u] = prof[u] /\ label'[u] = label[u]
       /\ seen'[u] = seen[u] /\ route'[u] = route[u] /\ todo'[u] = todo[u]

LEMMA UngroupTakesOut == ASSUME TypeOK, NEW t \in Threads, Ungroup(t) PROVE TakesOut(t)
  <1>1. CASE Goto(t, "ungroup") /\ prof' = [prof EXCEPT ![t] = NoProfile]
             /\ UNCHANGED <<label, seen, route, retried, todo>>
    BY <1>1 DEF Ungroup, Goto, TypeOK, TakesOut
  <1>2. CASE Return(t)
    BY <1>2 DEF Ungroup, Return, Goto, TypeOK, TakesOut
  <1> QED
    BY <1>1, <1>2 DEF Ungroup

\* While a launch has the lock, nobody else writes the sessions but to drop them.
LEMMA LaunchesStep == TypeOK /\ LaunchInv /\ [Next]_vars => LaunchInv'
  <1> SUFFICES ASSUME TypeOK, LaunchInv, [Next]_vars PROVE LaunchInv'
    OBVIOUS
  <1>1. ASSUME NEW t \in Threads, NEW p \in Profiles, OpenBrowser(t, p) PROVE LaunchInv'
    BY <1>1 DEF OpenBrowser, TypeOK, LaunchInv, Goto, storeVars, Launching
  <1>2. ASSUME NEW t \in Threads, UseSession(t) PROVE LaunchInv'
    BY <1>2 DEF UseSession, TypeOK, LaunchInv, Return, storeVars, histVars, Launching, Goto
  <1>3. ASSUME NEW t \in Threads, LaunchSession(t) PROVE LaunchInv'
    BY <1>3 DEF LaunchSession, TypeOK, LaunchInv, Goto, storeVars, histVars, Launching
  <1>4. ASSUME NEW t \in Threads, ReadPolicy(t) PROVE LaunchInv'
    BY <1>4 DEF ReadPolicy, TypeOK, LaunchInv, PolicyOf, Goto, Deleting, storeVars, Launching
  <1>5. ASSUME NEW t \in Threads, ReadProxy(t) PROVE LaunchInv'
    BY <1>5 DEF ReadProxy, TypeOK, LaunchInv, EffectiveProxy, Goto, storeVars, histVars, Launching
  <1>6. ASSUME NEW t \in Threads, BrowserStarts(t) PROVE LaunchInv'
    BY <1>6 DEF BrowserStarts, TypeOK, LaunchInv, Return, storeVars, histVars, Launching, Goto
  <1>7. ASSUME NEW t \in Threads, SafeGpuFallback(t) PROVE LaunchInv'
    BY <1>7 DEF SafeGpuFallback, TypeOK, LaunchInv, DropSessions, storeVars, callVars, histVars,
      Launching
  <1>8. ASSUME NEW t \in Threads, RetryLaunch(t) PROVE LaunchInv'
    BY <1>8 DEF RetryLaunch, TypeOK, LaunchInv, DropSessions, Goto, storeVars, histVars, Launching
  <1>9. ASSUME NEW t \in Threads, LaunchFails(t) PROVE LaunchInv'
    BY <1>9 DEF LaunchFails, TypeOK, LaunchInv, Launching, Return, storeVars, histVars, Goto
  <1>10. ASSUME NEW t \in Threads, NEW p \in Profiles, DeleteTool(t, p) PROVE LaunchInv'
    BY <1>10 DEF DeleteTool, TypeOK, LaunchInv, Goto, storeVars, Launching
  <1>11. ASSUME NEW t \in Threads, Deleted(t) PROVE LaunchInv'
    BY <1>11 DEF Deleted, TypeOK, LaunchInv, Return, histVars, Launching, Goto
  <1>12. ASSUME NEW t \in Threads, NEW g \in Groups, NEW pol \in Policy \cup {NoPolicy},
    ChangePolicy(t, g, pol) PROVE LaunchInv'
    BY <1>12 DEF ChangePolicy, TypeOK, LaunchInv, Goto, histVars, Launching
  <1>13. ASSUME NEW t \in Threads, ListSessions(t) PROVE LaunchInv'
    BY <1>13 DEF ListSessions, TypeOK, LaunchInv, Goto, storeVars, histVars, Launching
  <1>14. ASSUME NEW t \in Threads, Answer(t) PROVE LaunchInv'
    BY <1>14 DEF Answer, TypeOK, LaunchInv, Active, Return, storeVars, Launching, Members, Goto
  <1>15. ASSUME NEW t \in Threads, NEW g \in Groups, DeleteGroup(t, g) PROVE LaunchInv'
    BY <1>15 DEF DeleteGroup, TypeOK, LaunchInv, Goto, storeVars, histVars, Launching
  <1>16. ASSUME NEW t \in Threads, Refuse(t) PROVE LaunchInv'
    BY <1>16 DEF Refuse, TypeOK, LaunchInv, Active, Return, storeVars, histVars, Launching,
      Members, Goto
  <1>17. ASSUME NEW t \in Threads, ListProfiles(t) PROVE LaunchInv'
    BY <1>17 DEF ListProfiles, TypeOK, LaunchInv, Active, Goto, storeVars, histVars, Launching,
      Members
  <1>18. ASSUME NEW t \in Threads, NEW p \in Profiles, OtherGroup(t, p) PROVE LaunchInv'
    BY <1>18 DEF OtherGroup, TypeOK, LaunchInv, storeVars, histVars, Launching
  <1>19. ASSUME NEW t \in Threads, NEW p \in Profiles, SameGroup(t, p) PROVE LaunchInv'
    BY <1>19 DEF SameGroup, TypeOK, LaunchInv, Goto, storeVars, histVars, Launching
  <1>20. ASSUME NEW t \in Threads, Ungroup(t) PROVE LaunchInv'
    <2>1. TakesOut(t)
      BY <1>20, UngroupTakesOut
    <2>2. \A u \in Threads : pc'[u] \in Launching => pc'[u] = pc[u] /\ prof'[u] = prof[u]
      BY <2>1 DEF TakesOut, histVars, TypeOK, Launching
    <2>3. sessions' = sessions
      BY <2>1 DEF TakesOut, histVars
    <2> QED
      BY <2>2, <2>3 DEF LaunchInv
  <1>21. ASSUME NEW t \in Threads, UngroupNotFound(t) PROVE LaunchInv'
    BY <1>21 DEF UngroupNotFound, TypeOK, LaunchInv, Return, storeVars, histVars, Launching, Goto
  <1>22. ASSUME NEW t \in Threads, ClearGroup(t) PROVE LaunchInv'
    BY <1>22 DEF ClearGroup, TypeOK, LaunchInv, Return, histVars, Launching, Goto
  <1>23. ASSUME NEW p \in Profiles, CloseSession(p) PROVE LaunchInv'
    BY <1>23 DEF CloseSession, TypeOK, LaunchInv, storeVars, callVars, histVars, Launching
  <1>24. ASSUME NEW p \in Profiles, DeleteProfile(p) PROVE LaunchInv'
    BY <1>24 DEF DeleteProfile, TypeOK, LaunchInv, callVars, Launching
  <1>25. ASSUME NEW p \in Profiles, NEW g \in Groups \cup {NoGroup}, NEW x \in Routes,
    CreateProfile(p, g, x) PROVE LaunchInv'
    BY <1>25 DEF CreateProfile, TypeOK, LaunchInv, callVars, Launching
  <1>26. ASSUME NEW p \in Profiles, NEW g \in Groups \cup {NoGroup}, NEW x \in Routes,
    UpdateProfile(p, g, x) PROVE LaunchInv'
    BY <1>26 DEF UpdateProfile, TypeOK, LaunchInv, callVars, Launching
  <1>27. ASSUME NEW g \in Groups, NEW pol \in Policy \cup {NoPolicy}, ChangePolicySilently(g, pol)
    PROVE LaunchInv'
    BY <1>27 DEF ChangePolicySilently, TypeOK, LaunchInv, callVars, Launching
  <1>28. CASE UNCHANGED vars
    BY <1>28 DEF vars, TypeOK, LaunchInv, storeVars, callVars, histVars, Launching
  <1> QED
    BY <1>1, <1>2, <1>3, <1>4, <1>5, <1>6, <1>7, <1>8, <1>9, <1>10, <1>11, <1>12, <1>13, <1>14,
      <1>15, <1>16, <1>17, <1>18, <1>19, <1>20, <1>21, <1>22, <1>23, <1>24, <1>25, <1>26, <1>27,
      <1>28 DEF Next, LaunchStep, DeleteStep, GroupStep

\* Whoever changes what a launch has read counts sessions later, or tells of it otherwise.
LEMMA ReadStep == TypeOK /\ CountInv /\ ReadInv /\ [Next]_vars => ReadInv'
  <1> SUFFICES ASSUME TypeOK, CountInv, ReadInv, [Next]_vars PROVE ReadInv'
    OBVIOUS
  <1>1. ASSUME NEW t \in Threads, NEW p \in Profiles, OpenBrowser(t, p) PROVE ReadInv'
    BY <1>1, ZenonT(60) DEF OpenBrowser, TypeOK, ReadInv, Goto, storeVars, Launching, Known, PolicyOf,
      Effective, Counting, EffectiveProxy
  <1>2. ASSUME NEW t \in Threads, UseSession(t) PROVE ReadInv'
    BY <1>2, ZenonT(60) DEF UseSession, TypeOK, ReadInv, Return, storeVars, histVars, Launching, Known,
      PolicyOf, Effective, Goto, Counting, EffectiveProxy
  <1>3. ASSUME NEW t \in Threads, LaunchSession(t) PROVE ReadInv'
    BY <1>3 DEF LaunchSession, TypeOK, ReadInv, Goto, storeVars, histVars, Launching, Known,
      PolicyOf, Effective, Counting, EffectiveProxy
  <1>4. ASSUME NEW t \in Threads, ReadPolicy(t) PROVE ReadInv'
    BY <1>4, ZenonT(60) DEF ReadPolicy, TypeOK, ReadInv, PolicyOf, Goto, Deleting, storeVars, Launching,
      Known, Effective, Counting, EffectiveProxy
  <1>5. ASSUME NEW t \in Threads, ReadProxy(t) PROVE ReadInv'
    <2>1. \A q \in Profiles : Known(q)' <=> Known(q)
      BY <1>5 DEF ReadProxy, EffectiveProxy, Goto, storeVars, histVars, Known, Counting, TypeOK,
        Launching
    <2>2. prof' = prof /\ seen' = seen /\ stored' = stored /\ pc[t] = "proxy" /\ pc'[t] = "start"
      BY <1>5 DEF ReadProxy, EffectiveProxy, Goto, storeVars, histVars, TypeOK, Launching
    <2>3. \A q \in Profiles : PolicyOf(q)' = PolicyOf(q) /\ Effective(q)' = Effective(q)
      BY <1>5 DEF ReadProxy, EffectiveProxy, Goto, storeVars, histVars, PolicyOf, Effective,
        TypeOK, Launching
    <2>4. seen[t] = PolicyOf(prof[t]) => route'[t] = Effective(prof[t])
      BY <1>5 DEF ReadProxy, EffectiveProxy, Goto, storeVars, histVars, PolicyOf, Effective,
        TypeOK, Launching
    <2>5. prof[t] \in Profiles /\ \A u \in Threads \ {t} : pc'[u] = pc[u] /\ route'[u] = route[u]
           /\ pc[u] \notin {"proxy", "start"}
      BY <1>5 DEF ReadProxy, EffectiveProxy, Goto, storeVars, histVars, TypeOK, Launching
    <2> QED
      BY <2>1, <2>2, <2>3, <2>4, <2>5 DEF ReadInv, TypeOK
  <1>6. ASSUME NEW t \in Threads, BrowserStarts(t) PROVE ReadInv'
    BY <1>6, ZenonT(60) DEF BrowserStarts, TypeOK, ReadInv, Return, storeVars, histVars, Launching, Known,
      PolicyOf, Effective, Goto, Counting, EffectiveProxy
  <1>7. ASSUME NEW t \in Threads, SafeGpuFallback(t) PROVE ReadInv'
    BY <1>7 DEF SafeGpuFallback, TypeOK, ReadInv, DropSessions, storeVars, callVars, histVars,
      Launching, Known, PolicyOf, Effective, Counting, EffectiveProxy
  <1>8. ASSUME NEW t \in Threads, RetryLaunch(t) PROVE ReadInv'
    BY <1>8 DEF RetryLaunch, TypeOK, ReadInv, DropSessions, Goto, storeVars, histVars, Launching,
      Known, PolicyOf, Effective, Counting, EffectiveProxy
  <1>9. ASSUME NEW t \in Threads, LaunchFails(t) PROVE ReadInv'
    BY <1>9, ZenonT(60) DEF LaunchFails, TypeOK, ReadInv, Launching, Return, storeVars, histVars, Known,
      PolicyOf, Effective, Goto, Counting, EffectiveProxy
  <1>10. ASSUME NEW t \in Threads, NEW p \in Profiles, DeleteTool(t, p) PROVE ReadInv'
    BY <1>10, ZenonT(60) DEF DeleteTool, TypeOK, ReadInv, Goto, storeVars, Launching, Known, PolicyOf,
      Effective, Counting, EffectiveProxy
  <1>11. ASSUME NEW t \in Threads, Deleted(t) PROVE ReadInv'
    BY <1>11 DEF Deleted, TypeOK, ReadInv, Return, histVars, Launching, Known, PolicyOf,
      Effective, Goto, Counting, EffectiveProxy
  <1>12. ASSUME NEW t \in Threads, NEW g \in Groups, NEW pol \in Policy \cup {NoPolicy},
    ChangePolicy(t, g, pol) PROVE ReadInv'
    <2>1. \A q \in Profiles : Known(q) => Known(q)'
      BY <1>12 DEF ChangePolicy, Goto, histVars, Known, Counting, TypeOK, Launching
    <2>2. \A q \in Profiles : (PolicyOf(q)' = PolicyOf(q) /\ Effective(q)' = Effective(q)) \/ Known(q)'
      BY <1>12 DEF ChangePolicy, Goto, histVars, PolicyOf, Effective, EffectiveProxy, Known,
        Counting, TypeOK, Launching
    <2>3. stored' = stored /\ \A u \in Threads : pc'[u] \in Launching =>
           pc'[u] = pc[u] /\ prof'[u] = prof[u] /\ seen'[u] = seen[u] /\ route'[u] = route[u]
      BY <1>12 DEF ChangePolicy, Goto, histVars, TypeOK, Launching
    <2> QED
      BY <2>1, <2>2, <2>3 DEF ReadInv, TypeOK, Launching
  <1>13. ASSUME NEW t \in Threads, ListSessions(t) PROVE ReadInv'
    <2>1. \A u \in Threads : pc'[u] \notin Launching
      BY <1>13, RoutingAssumption DEF ListSessions, Goto, TypeOK, Launching, RoutingAssumption
    <2> QED
      BY <2>1 DEF ReadInv, Launching
  <1>14. ASSUME NEW t \in Threads, Answer(t) PROVE ReadInv'
    BY <1>14, ZenonT(60) DEF Answer, TypeOK, ReadInv, Active, Return, storeVars, Launching, Known, PolicyOf,
      Effective, Members, Goto, Counting, EffectiveProxy
  <1>15. ASSUME NEW t \in Threads, NEW g \in Groups, DeleteGroup(t, g) PROVE ReadInv'
    BY <1>15 DEF DeleteGroup, TypeOK, ReadInv, Goto, storeVars, histVars, Launching, Known,
      PolicyOf, Effective, Counting, EffectiveProxy
  <1>16. ASSUME NEW t \in Threads, Refuse(t) PROVE ReadInv'
    BY <1>16, ZenonT(60) DEF Refuse, TypeOK, ReadInv, Active, Return, storeVars, histVars, Launching, Known,
      PolicyOf, Effective, Members, Goto, Counting, EffectiveProxy
  <1>17. ASSUME NEW t \in Threads, ListProfiles(t) PROVE ReadInv'
    BY <1>17 DEF ListProfiles, TypeOK, ReadInv, Active, Goto, storeVars, histVars, Launching,
      Known, PolicyOf, Effective, Members, Counting, EffectiveProxy
  <1>18. ASSUME NEW t \in Threads, NEW p \in Profiles, OtherGroup(t, p) PROVE ReadInv'
    BY <1>18 DEF OtherGroup, TypeOK, ReadInv, storeVars, histVars, Launching, Known, PolicyOf,
      Effective, Counting, EffectiveProxy
  <1>19. ASSUME NEW t \in Threads, NEW p \in Profiles, SameGroup(t, p) PROVE ReadInv'
    BY <1>19, ZenonT(60) DEF SameGroup, TypeOK, ReadInv, Goto, storeVars, histVars, Launching, Known,
      PolicyOf, Effective, Counting, EffectiveProxy
  <1>20. ASSUME NEW t \in Threads, Ungroup(t) PROVE ReadInv'
    <2>1. TakesOut(t)
      BY <1>20, UngroupTakesOut
    <2>2. \A q \in Profiles \ {prof[t]} : Known(q) => Known(q)'
      BY <2>1 DEF TakesOut, histVars, Known, Counting, TypeOK, Launching
    <2>3. \A q \in Profiles : q = prof[t] /\ Uses(q) => Known(q)'
      BY <2>1 DEF TakesOut, histVars, CountInv, Known, TypeOK, Launching
    <2>4. \A q \in Profiles \ {prof[t]} : PolicyOf(q)' = PolicyOf(q) /\ Effective(q)' = Effective(q)
      BY <2>1 DEF TakesOut, histVars, PolicyOf, Effective, EffectiveProxy, TypeOK, Launching
    <2>5. stored' = stored /\ \A u \in Threads : pc'[u] \in Launching =>
           pc'[u] = pc[u] /\ prof'[u] = prof[u] /\ seen'[u] = seen[u] /\ route'[u] = route[u]
      BY <2>1 DEF TakesOut, histVars, TypeOK, Launching
    <2> QED
      BY <2>2, <2>3, <2>4, <2>5, ZenonT(60) DEF ReadInv, TypeOK, Launching, Uses
  <1>21. ASSUME NEW t \in Threads, UngroupNotFound(t) PROVE ReadInv'
    BY <1>21, ZenonT(60) DEF UngroupNotFound, TypeOK, ReadInv, Return, storeVars, histVars, Launching, Known,
      PolicyOf, Effective, Goto, Counting, EffectiveProxy
  <1>22. ASSUME NEW t \in Threads, ClearGroup(t) PROVE ReadInv'
    <2>1. \A q \in Profiles : Known(q) => Known(q)'
      BY <1>22 DEF ClearGroup, Return, histVars, Goto, Known, Counting, TypeOK, Launching
    <2>2. \A q \in stored : Uses(q) => (PolicyOf(q)' = PolicyOf(q) /\ Effective(q)' = Effective(q)) \/ Known(q)
      BY <1>22 DEF ClearGroup, Return, histVars, Goto, PolicyOf, Effective, EffectiveProxy, Known,
        CountInv, TypeOK, Launching
    <2>3. stored' = stored /\ \A u \in Threads : pc'[u] \in Launching =>
           pc'[u] = pc[u] /\ prof'[u] = prof[u] /\ seen'[u] = seen[u] /\ route'[u] = route[u]
      BY <1>22 DEF ClearGroup, Return, histVars, Goto, TypeOK, Launching
    <2> QED
      BY <2>1, <2>2, <2>3 DEF ReadInv, TypeOK, Launching, Uses
  <1>23. ASSUME NEW p \in Profiles, CloseSession(p) PROVE ReadInv'
    BY <1>23 DEF CloseSession, TypeOK, ReadInv, storeVars, callVars, histVars, Launching, Known,
      PolicyOf, Effective, Counting, EffectiveProxy
  <1>24. ASSUME NEW p \in Profiles, DeleteProfile(p) PROVE ReadInv'
    BY <1>24 DEF DeleteProfile, TypeOK, ReadInv, callVars, Launching, Known, PolicyOf, Effective,
      Counting, EffectiveProxy
  <1>25. ASSUME NEW p \in Profiles, NEW g \in Groups \cup {NoGroup}, NEW x \in Routes,
    CreateProfile(p, g, x) PROVE ReadInv'
    BY <1>25 DEF CreateProfile, TypeOK, ReadInv, callVars, Launching, Known, PolicyOf, Effective,
      Counting, EffectiveProxy
  <1>26. ASSUME NEW p \in Profiles, NEW g \in Groups \cup {NoGroup}, NEW x \in Routes,
    UpdateProfile(p, g, x) PROVE ReadInv'
    BY <1>26 DEF UpdateProfile, TypeOK, ReadInv, callVars, Launching, Known, PolicyOf, Effective,
      Counting, EffectiveProxy
  <1>27. ASSUME NEW g \in Groups, NEW pol \in Policy \cup {NoPolicy}, ChangePolicySilently(g, pol)
    PROVE ReadInv'
    <2>1. \A q \in Profiles : Known(q) => Known(q)'
      BY <1>27 DEF ChangePolicySilently, callVars, Known, Counting, TypeOK, Launching
    <2>2. \A q \in Profiles : (PolicyOf(q)' = PolicyOf(q) /\ Effective(q)' = Effective(q)) \/ Known(q)'
      BY <1>27 DEF ChangePolicySilently, callVars, PolicyOf, Effective, EffectiveProxy, Known,
        Counting, TypeOK, Launching
    <2>3. stored' = stored /\ \A u \in Threads : pc'[u] \in Launching =>
           pc'[u] = pc[u] /\ prof'[u] = prof[u] /\ seen'[u] = seen[u] /\ route'[u] = route[u]
      BY <1>27 DEF ChangePolicySilently, callVars, TypeOK, Launching
    <2> QED
      BY <2>1, <2>2, <2>3 DEF ReadInv, TypeOK, Launching
  <1>28. CASE UNCHANGED vars
    BY <1>28 DEF vars, TypeOK, ReadInv, storeVars, callVars, histVars, Launching, Known, PolicyOf,
      Effective, Counting, EffectiveProxy
  <1> QED
    BY <1>1, <1>2, <1>3, <1>4, <1>5, <1>6, <1>7, <1>8, <1>9, <1>10, <1>11, <1>12, <1>13, <1>14,
      <1>15, <1>16, <1>17, <1>18, <1>19, <1>20, <1>21, <1>22, <1>23, <1>24, <1>25, <1>26, <1>27,
      <1>28 DEF Next, LaunchStep, DeleteStep, GroupStep

\* Once a deletion has counted, only launches that it makes late begin to use anything.
LEMMA CountStep == TypeOK /\ CountInv /\ [Next]_vars => CountInv'
  <1> SUFFICES ASSUME TypeOK, CountInv, [Next]_vars PROVE CountInv'
    OBVIOUS
  <1>1. ASSUME NEW t \in Threads, NEW p \in Profiles, OpenBrowser(t, p) PROVE CountInv'
    BY <1>1, ZenonT(60) DEF OpenBrowser, TypeOK, CountInv, Goto, storeVars, Launching, Uses
  <1>2. ASSUME NEW t \in Threads, UseSession(t) PROVE CountInv'
    <2>1. \A q \in Profiles : Uses(q)' => Uses(q)
      BY <1>2 DEF UseSession, Return, storeVars, histVars, Goto, Uses, TypeOK, Launching
    <2>2. \A u \in Threads : pc'[u] \in {"decide", "ungroup", "take out"} =>
           pc'[u] = pc[u] /\ prof'[u] = prof[u] /\ label'[u] = label[u] /\ todo'[u] = todo[u]
      BY <1>2 DEF UseSession, Return, storeVars, histVars, Goto, TypeOK, Launching
    <2>3. stored' \subseteq stored /\ group' = group /\ excused \subseteq excused' /\ late' = late
      BY <1>2 DEF UseSession, Return, storeVars, histVars, Goto, TypeOK, Launching
    <2> QED
      BY <2>1, <2>2, <2>3 DEF CountInv, TypeOK
  <1>3. ASSUME NEW t \in Threads, LaunchSession(t) PROVE CountInv'
    BY <1>3, ZenonT(60) DEF LaunchSession, TypeOK, CountInv, Goto, storeVars, histVars, Launching, Uses
  <1>4. ASSUME NEW t \in Threads, ReadPolicy(t) PROVE CountInv'
    <2>1. \A q \in Profiles \ {prof[t]} : Uses(q)' => Uses(q)
      BY <1>4 DEF ReadPolicy, PolicyOf, Goto, Deleting, storeVars, Uses, TypeOK, Launching
    <2>2. \A q \in Profiles \ {prof[t]} : q \in excused \cup late => q \in excused' \cup late'
      BY <1>4 DEF ReadPolicy, PolicyOf, Goto, Deleting, storeVars, TypeOK, Launching
    <2>3. Deleting(prof[t]) => prof[t] \in late'
      BY <1>4 DEF ReadPolicy, PolicyOf, Goto, Deleting, storeVars, TypeOK, Launching
    <2>4. \A u \in Threads : pc'[u] \in {"decide", "ungroup", "take out"} => pc'[u] = pc[u]
      BY <1>4 DEF ReadPolicy, PolicyOf, Goto, Deleting, storeVars, TypeOK, Launching
    <2>5. UNCHANGED <<stored, group, prof, label, todo>>
      BY <1>4 DEF ReadPolicy, PolicyOf, Goto, Deleting, storeVars, TypeOK, Launching
    <2> QED
      BY <2>1, <2>2, <2>3, <2>4, <2>5 DEF CountInv, Deleting, TypeOK
  <1>5. ASSUME NEW t \in Threads, ReadProxy(t) PROVE CountInv'
    <2>1. \A q \in Profiles : Uses(q)' => Uses(q)
      BY <1>5 DEF ReadProxy, EffectiveProxy, Goto, storeVars, histVars, Uses, TypeOK, Launching
    <2>2. \A u \in Threads : pc'[u] \in {"decide", "ungroup", "take out"} =>
           pc'[u] = pc[u] /\ prof'[u] = prof[u] /\ label'[u] = label[u] /\ todo'[u] = todo[u]
      BY <1>5 DEF ReadProxy, EffectiveProxy, Goto, storeVars, histVars, TypeOK, Launching
    <2>3. stored' \subseteq stored /\ group' = group /\ excused \subseteq excused' /\ late' = late
      BY <1>5 DEF ReadProxy, EffectiveProxy, Goto, storeVars, histVars, TypeOK, Launching
    <2> QED
      BY <2>1, <2>2, <2>3 DEF CountInv, TypeOK
  <1>6. ASSUME NEW t \in Threads, BrowserStarts(t) PROVE CountInv'
    <2>1. \A q \in Profiles : Uses(q)' => Uses(q)
      BY <1>6 DEF BrowserStarts, Return, storeVars, histVars, Goto, Uses, TypeOK, Launching
    <2>2. \A u \in Threads : pc'[u] \in {"decide", "ungroup", "take out"} =>
           pc'[u] = pc[u] /\ prof'[u] = prof[u] /\ label'[u] = label[u] /\ todo'[u] = todo[u]
      BY <1>6 DEF BrowserStarts, Return, storeVars, histVars, Goto, TypeOK, Launching
    <2>3. stored' \subseteq stored /\ group' = group /\ excused \subseteq excused' /\ late' = late
      BY <1>6 DEF BrowserStarts, Return, storeVars, histVars, Goto, TypeOK, Launching
    <2> QED
      BY <2>1, <2>2, <2>3 DEF CountInv, TypeOK
  <1>7. ASSUME NEW t \in Threads, SafeGpuFallback(t) PROVE CountInv'
    BY <1>7 DEF SafeGpuFallback, TypeOK, CountInv, DropSessions, storeVars, callVars, histVars,
      Launching, Uses
  <1>8. ASSUME NEW t \in Threads, RetryLaunch(t) PROVE CountInv'
    BY <1>8, ZenonT(60) DEF RetryLaunch, TypeOK, CountInv, DropSessions, Goto, storeVars, histVars, Launching,
      Uses
  <1>9. ASSUME NEW t \in Threads, LaunchFails(t) PROVE CountInv'
    <2>1. \A q \in Profiles : Uses(q)' => Uses(q)
      BY <1>9 DEF LaunchFails, Launching, Return, storeVars, histVars, Goto, Uses, TypeOK
    <2>2. \A u \in Threads : pc'[u] \in {"decide", "ungroup", "take out"} =>
           pc'[u] = pc[u] /\ prof'[u] = prof[u] /\ label'[u] = label[u] /\ todo'[u] = todo[u]
      BY <1>9 DEF LaunchFails, Launching, Return, storeVars, histVars, Goto, TypeOK
    <2>3. stored' \subseteq stored /\ group' = group /\ excused \subseteq excused' /\ late' = late
      BY <1>9 DEF LaunchFails, Launching, Return, storeVars, histVars, Goto, TypeOK
    <2> QED
      BY <2>1, <2>2, <2>3 DEF CountInv, TypeOK
  <1>10. ASSUME NEW t \in Threads, NEW p \in Profiles, DeleteTool(t, p) PROVE CountInv'
    BY <1>10, ZenonT(60) DEF DeleteTool, TypeOK, CountInv, Goto, storeVars, Launching, Uses
  <1>11. ASSUME NEW t \in Threads, Deleted(t) PROVE CountInv'
    <2>1. \A q \in Profiles : Uses(q)' => Uses(q)
      BY <1>11 DEF Deleted, Return, histVars, Goto, Uses, TypeOK, Launching
    <2>2. \A u \in Threads : pc'[u] \in {"decide", "ungroup", "take out"} =>
           pc'[u] = pc[u] /\ prof'[u] = prof[u] /\ label'[u] = label[u] /\ todo'[u] = todo[u]
      BY <1>11 DEF Deleted, Return, histVars, Goto, TypeOK, Launching
    <2>3. stored' \subseteq stored /\ group' = group /\ excused \subseteq excused' /\ late' = late
      BY <1>11 DEF Deleted, Return, histVars, Goto, storeVars, TypeOK, Launching
    <2> QED
      BY <2>1, <2>2, <2>3 DEF CountInv, TypeOK
  <1>12. ASSUME NEW t \in Threads, NEW g \in Groups, NEW pol \in Policy \cup {NoPolicy},
    ChangePolicy(t, g, pol) PROVE CountInv'
    BY <1>12, ZenonT(60) DEF ChangePolicy, TypeOK, CountInv, Goto, histVars, Launching, Uses
  <1>13. ASSUME NEW t \in Threads, ListSessions(t) PROVE CountInv'
    <2>1. \A q \in Profiles : Uses(q)' => sessions[q] # NoSession
      BY <1>13, RoutingAssumption DEF ListSessions, Goto, TypeOK, Launching, Uses, RoutingAssumption
    <2>2. pc'[t] = "decide" => \A q \in Profiles : sessions[q] # NoSession => q \in todo'[t]
      BY <1>13 DEF ListSessions, Goto, TypeOK, Launching
    <2>3. pc'[t] \notin {"ungroup", "take out"} /\ \A u \in Threads \ {t} : pc'[u] = pc[u] /\ todo'[u] = todo[u]
      BY <1>13 DEF ListSessions, Goto, TypeOK, Launching
    <2>4. UNCHANGED <<stored, group, sessions, prof, label, excused, late>>
      BY <1>13 DEF ListSessions, storeVars, histVars
    <2> QED
      BY <2>1, <2>2, <2>3, <2>4, ZenonT(60) DEF CountInv, Uses, TypeOK
  <1>14. ASSUME NEW t \in Threads, Answer(t) PROVE CountInv'
    <2>1. \A q \in Profiles : Uses(q)' => Uses(q)
      BY <1>14 DEF Answer, Active, Return, storeVars, Members, Goto, Uses, TypeOK, Launching
    <2>2. \A u \in Threads : pc'[u] \in {"decide", "ungroup", "take out"} =>
           pc'[u] = pc[u] /\ prof'[u] = prof[u] /\ label'[u] = label[u] /\ todo'[u] = todo[u]
      BY <1>14 DEF Answer, Active, Return, storeVars, Members, Goto, TypeOK, Launching
    <2>3. stored' \subseteq stored /\ group' = group /\ excused \subseteq excused' /\ late' = late
      BY <1>14 DEF Answer, Active, Return, storeVars, Members, Goto, histVars, TypeOK, Launching
    <2> QED
      BY <2>1, <2>2, <2>3 DEF CountInv, TypeOK
  <1>15. ASSUME NEW t \in Threads, NEW g \in Groups, DeleteGroup(t, g) PROVE CountInv'
    BY <1>15, ZenonT(60) DEF DeleteGroup, TypeOK, CountInv, Goto, storeVars, histVars, Launching, Uses
  <1>16. ASSUME NEW t \in Threads, Refuse(t) PROVE CountInv'
    <2>1. \A q \in Profiles : Uses(q)' => Uses(q)
      BY <1>16 DEF Refuse, Active, Return, storeVars, histVars, Members, Goto, Uses, TypeOK,
        Launching
    <2>2. \A u \in Threads : pc'[u] \in {"decide", "ungroup", "take out"} =>
           pc'[u] = pc[u] /\ prof'[u] = prof[u] /\ label'[u] = label[u] /\ todo'[u] = todo[u]
      BY <1>16 DEF Refuse, Active, Return, storeVars, histVars, Members, Goto, TypeOK, Launching
    <2>3. stored' \subseteq stored /\ group' = group /\ excused \subseteq excused' /\ late' = late
      BY <1>16 DEF Refuse, Active, Return, storeVars, histVars, Members, Goto, TypeOK, Launching
    <2> QED
      BY <2>1, <2>2, <2>3 DEF CountInv, TypeOK
  <1>17. ASSUME NEW t \in Threads, ListProfiles(t) PROVE CountInv'
    BY <1>17, ZenonT(60) DEF ListProfiles, TypeOK, CountInv, Active, Goto, storeVars, histVars, Launching,
      Uses, Members
  <1>18. ASSUME NEW t \in Threads, NEW p \in Profiles, OtherGroup(t, p) PROVE CountInv'
    BY <1>18, ZenonT(60) DEF OtherGroup, TypeOK, CountInv, storeVars, histVars, Launching, Uses
  <1>19. ASSUME NEW t \in Threads, NEW p \in Profiles, SameGroup(t, p) PROVE CountInv'
    <2>1. \A q \in Profiles : Uses(q)' => Uses(q)
      BY <1>19 DEF SameGroup, Goto, storeVars, histVars, Uses, TypeOK, Launching
    <2>2. \A u \in Threads \ {t} : pc'[u] = pc[u] /\ prof'[u] = prof[u] /\ todo'[u] = todo[u]
      BY <1>19 DEF SameGroup, Goto, storeVars, histVars, TypeOK, Launching
    <2>3. pc[t] = "ungroup" /\ pc'[t] = "take out" /\ prof'[t] = p /\ group[p] = label[t]
      BY <1>19 DEF SameGroup, Goto, storeVars, histVars, TypeOK, Launching
    <2>4. UNCHANGED <<stored, group, label, excused, late>>
      BY <1>19 DEF SameGroup, Goto, storeVars, histVars, TypeOK, Launching
    <2> SUFFICES ASSUME NEW u \in Threads, NEW q \in stored', Uses(q)'
                 PROVE  /\ pc'[u] = "decide" /\ group'[q] = label'[u] => q \in excused' \cup late' \cup todo'[u]
                        /\ pc'[u] \in {"ungroup", "take out"} /\ group'[q] = label'[u] => q \in excused' \cup late'
                        /\ pc'[u] = "take out" /\ prof'[u] = q => q \in excused' \cup late'
      BY DEF CountInv
    <2>5. Uses(q) /\ q \in stored /\ q \in Profiles
      BY <2>1, <2>2, <2>3, <2>4 DEF TypeOK
    <2>6. CASE u = t
      BY <2>1, <2>2, <2>3, <2>4, <2>5, <2>6 DEF CountInv
    <2>7. CASE u # t
      BY <2>1, <2>2, <2>3, <2>4, <2>5, <2>7 DEF CountInv
    <2> QED
      BY <2>6, <2>7
  <1>20. ASSUME NEW t \in Threads, Ungroup(t) PROVE CountInv'
    <2>1. TakesOut(t)
      BY <1>20, UngroupTakesOut
    <2>2. \A q \in Profiles : Uses(q)' => Uses(q)
      BY <2>1 DEF TakesOut, histVars, Uses, TypeOK, Launching
    <2>3. /\ pc[t] = "take out" /\ pc'[t] \in {"idle", "ungroup"}
          /\ pc'[t] = "ungroup" => label'[t] = label[t]
          /\ \A u \in Threads \ {t} : pc'[u] = pc[u] /\ prof'[u] = prof[u]
              /\ label'[u] = label[u] /\ todo'[u] = todo[u]
      BY <2>1 DEF TakesOut, histVars
    <2>4. \A u \in Threads : pc[u] \in {"decide", "ungroup", "take out"} => label[u] \in Groups
      BY <2>1 DEF TakesOut, histVars, TypeOK, Launching
    <2>5. \A q \in Profiles, g \in Groups : group'[q] = g => group[q] = g
      BY <2>1, RoutingAssumption DEF TakesOut, histVars, RoutingAssumption, TypeOK, Launching
    <2>6. UNCHANGED <<stored, excused, late>>
      BY <2>1 DEF TakesOut, histVars, TypeOK, Launching
    <2> SUFFICES ASSUME NEW u \in Threads, NEW q \in stored', Uses(q)'
                 PROVE  /\ pc'[u] = "decide" /\ group'[q] = label'[u] => q \in excused' \cup late' \cup todo'[u]
                        /\ pc'[u] \in {"ungroup", "take out"} /\ group'[q] = label'[u] => q \in excused' \cup late'
                        /\ pc'[u] = "take out" /\ prof'[u] = q => q \in excused' \cup late'
      BY DEF CountInv
    <2>7. Uses(q) /\ q \in stored /\ q \in Profiles
      BY <2>1, <2>2, <2>3, <2>4, <2>5, <2>6 DEF TypeOK
    <2>8. pc'[u] \in {"decide", "ungroup", "take out"} /\ group'[q] = label'[u] => group[q] = label[u]
      BY <2>3, <2>4, <2>5, <2>7
    <2>9. CASE u = t
      BY <2>3, <2>6, <2>7, <2>8, <2>9 DEF CountInv
    <2>10. CASE u # t
      BY <2>3, <2>6, <2>7, <2>8, <2>10 DEF CountInv
    <2> QED
      BY <2>9, <2>10
  <1>21. ASSUME NEW t \in Threads, UngroupNotFound(t) PROVE CountInv'
    <2>1. \A q \in Profiles : Uses(q)' => Uses(q)
      BY <1>21 DEF UngroupNotFound, Return, storeVars, histVars, Goto, Uses, TypeOK, Launching
    <2>2. \A u \in Threads : pc'[u] \in {"decide", "ungroup", "take out"} =>
           pc'[u] = pc[u] /\ prof'[u] = prof[u] /\ label'[u] = label[u] /\ todo'[u] = todo[u]
      BY <1>21 DEF UngroupNotFound, Return, storeVars, histVars, Goto, TypeOK, Launching
    <2>3. stored' \subseteq stored /\ group' = group /\ excused \subseteq excused' /\ late' = late
      BY <1>21 DEF UngroupNotFound, Return, storeVars, histVars, Goto, TypeOK, Launching
    <2> QED
      BY <2>1, <2>2, <2>3 DEF CountInv, TypeOK
  <1>22. ASSUME NEW t \in Threads, ClearGroup(t) PROVE CountInv'
    <2>1. \A q \in Profiles : Uses(q)' => Uses(q)
      BY <1>22 DEF ClearGroup, Return, histVars, Goto, Uses, TypeOK, Launching
    <2>2. \A u \in Threads : pc'[u] \in {"decide", "ungroup", "take out"} =>
           pc'[u] = pc[u] /\ prof'[u] = prof[u] /\ label'[u] = label[u] /\ todo'[u] = todo[u]
      BY <1>22 DEF ClearGroup, Return, histVars, Goto, TypeOK, Launching
    <2>3. stored' \subseteq stored /\ group' = group /\ excused \subseteq excused' /\ late' = late
      BY <1>22 DEF ClearGroup, Return, histVars, Goto, storeVars, TypeOK, Launching
    <2> QED
      BY <2>1, <2>2, <2>3 DEF CountInv, TypeOK
  <1>23. ASSUME NEW p \in Profiles, CloseSession(p) PROVE CountInv'
    BY <1>23 DEF CloseSession, TypeOK, CountInv, storeVars, callVars, histVars, Launching, Uses
  <1>24. ASSUME NEW p \in Profiles, DeleteProfile(p) PROVE CountInv'
    BY <1>24 DEF DeleteProfile, TypeOK, CountInv, callVars, Launching, Uses
  <1>25. ASSUME NEW p \in Profiles, NEW g \in Groups \cup {NoGroup}, NEW x \in Routes,
    CreateProfile(p, g, x) PROVE CountInv'
    BY <1>25, ZenonT(60) DEF CreateProfile, TypeOK, CountInv, callVars, Launching, Uses
  <1>26. ASSUME NEW p \in Profiles, NEW g \in Groups \cup {NoGroup}, NEW x \in Routes,
    UpdateProfile(p, g, x) PROVE CountInv'
    BY <1>26, ZenonT(60) DEF UpdateProfile, TypeOK, CountInv, callVars, Launching, Uses
  <1>27. ASSUME NEW g \in Groups, NEW pol \in Policy \cup {NoPolicy}, ChangePolicySilently(g, pol)
    PROVE CountInv'
    BY <1>27 DEF ChangePolicySilently, TypeOK, CountInv, callVars, Launching, Uses
  <1>28. CASE UNCHANGED vars
    BY <1>28 DEF vars, TypeOK, CountInv, storeVars, callVars, histVars, Launching, Uses
  <1> QED
    BY <1>1, <1>2, <1>3, <1>4, <1>5, <1>6, <1>7, <1>8, <1>9, <1>10, <1>11, <1>12, <1>13, <1>14,
      <1>15, <1>16, <1>17, <1>18, <1>19, <1>20, <1>21, <1>22, <1>23, <1>24, <1>25, <1>26, <1>27,
      <1>28 DEF Next, LaunchStep, DeleteStep, GroupStep

\* A browser that comes up, or is counted, has been looked after by then.
LEMMA StaleStep == TypeOK /\ LaunchInv /\ ReadInv /\ CountInv /\ StaleInv /\ [Next]_vars => StaleInv'
  <1> SUFFICES ASSUME TypeOK, LaunchInv, ReadInv, CountInv, StaleInv, [Next]_vars PROVE StaleInv'
    OBVIOUS
  <1>1. ASSUME NEW t \in Threads, NEW p \in Profiles, OpenBrowser(t, p) PROVE StaleInv'
    BY <1>1 DEF OpenBrowser, TypeOK, StaleInv, Goto, storeVars, Launching, Stale, Known, Counted,
      Effective, Counting, EffectiveProxy, PolicyOf
  <1>2. ASSUME NEW t \in Threads, UseSession(t) PROVE StaleInv'
    BY <1>2 DEF UseSession, TypeOK, StaleInv, Return, storeVars, histVars, Launching, Stale,
      Known, Counted, Goto, Effective, Counting, EffectiveProxy, PolicyOf
  <1>3. ASSUME NEW t \in Threads, LaunchSession(t) PROVE StaleInv'
    <2>1. \A q \in Profiles : Known(q) => Known(q)'
      BY <1>3 DEF LaunchSession, Goto, storeVars, histVars, Known, Counting, TypeOK, Launching
    <2>2. \A q \in Profiles : Counted(q) => Counted(q)'
      BY <1>3 DEF LaunchSession, Goto, storeVars, histVars, Counted, TypeOK, Launching
    <2>3. \A q \in Profiles : Stale(q)' => Stale(q) \/ Known(q)'
      BY <1>3 DEF LaunchSession, Goto, storeVars, histVars, Stale, PolicyOf, Effective,
        EffectiveProxy, Known, Counting, TypeOK, Launching
    <2> QED
      BY <2>1, <2>2, <2>3 DEF StaleInv
  <1>4. ASSUME NEW t \in Threads, ReadPolicy(t) PROVE StaleInv'
    <2>1. \A q \in Profiles \ {prof[t]} : Known(q) => Known(q)'
      BY <1>4 DEF ReadPolicy, PolicyOf, Goto, Deleting, storeVars, Known, Counting, TypeOK,
        Launching
    <2>2. \A q \in Profiles : Counted(q) => Counted(q)'
      BY <1>4 DEF ReadPolicy, PolicyOf, Goto, Deleting, storeVars, Counted, TypeOK, Launching
    <2>3. \A q \in Profiles : Stale(q)' => q # prof[t] /\ Stale(q)
      BY <1>4 DEF ReadPolicy, PolicyOf, Goto, Deleting, storeVars, Stale, LaunchInv, Effective,
        EffectiveProxy, TypeOK, Launching
    <2> QED
      BY <2>1, <2>2, <2>3 DEF StaleInv
  <1>5. ASSUME NEW t \in Threads, ReadProxy(t) PROVE StaleInv'
    BY <1>5 DEF ReadProxy, TypeOK, StaleInv, EffectiveProxy, Goto, storeVars, histVars, Launching,
      Stale, Known, Counted, Effective, Counting, PolicyOf
  <1>6. ASSUME NEW t \in Threads, BrowserStarts(t) PROVE StaleInv'
    <2>1. \A q \in Profiles : Known(q) => Known(q)'
      BY <1>6 DEF BrowserStarts, Return, storeVars, histVars, Goto, Known, Counting, TypeOK,
        Launching
    <2>2. \A q \in Profiles : Counted(q) => Counted(q)'
      BY <1>6 DEF BrowserStarts, Return, storeVars, histVars, Goto, Counted, TypeOK, Launching
    <2>3. \A q \in Profiles : Effective(q)' = Effective(q)
      BY <1>6 DEF BrowserStarts, Return, storeVars, histVars, Goto, PolicyOf, Effective,
        EffectiveProxy, TypeOK, Launching
    <2>4. prof[t] \in Profiles /\ pc[t] = "start" /\ stored' = stored
           /\ sessions' = [sessions EXCEPT ![prof[t]] = route[t]]
      BY <1>6 DEF BrowserStarts, Return, storeVars, histVars, Goto, TypeOK, Launching
    <2> QED
      BY <2>1, <2>2, <2>3, <2>4 DEF StaleInv, ReadInv, Stale, TypeOK
  <1>7. ASSUME NEW t \in Threads, SafeGpuFallback(t) PROVE StaleInv'
    BY <1>7 DEF SafeGpuFallback, TypeOK, StaleInv, DropSessions, storeVars, callVars, histVars,
      Launching, Stale, Known, Counted, Effective, Counting, EffectiveProxy, PolicyOf
  <1>8. ASSUME NEW t \in Threads, RetryLaunch(t) PROVE StaleInv'
    BY <1>8 DEF RetryLaunch, TypeOK, StaleInv, DropSessions, Goto, storeVars, histVars, Launching,
      Stale, Known, Counted, Effective, Counting, EffectiveProxy, PolicyOf
  <1>9. ASSUME NEW t \in Threads, LaunchFails(t) PROVE StaleInv'
    BY <1>9 DEF LaunchFails, TypeOK, StaleInv, Launching, Return, storeVars, histVars, Stale,
      Known, Counted, Goto, Effective, Counting, EffectiveProxy, PolicyOf
  <1>10. ASSUME NEW t \in Threads, NEW p \in Profiles, DeleteTool(t, p) PROVE StaleInv'
    <2>1. \A q \in Profiles : Known(q) => Known(q)'
      BY <1>10 DEF DeleteTool, Goto, storeVars, Known, Counting, TypeOK, Launching
    <2>2. \A q \in Profiles : Counted(q) => Counted(q)'
      BY <1>10 DEF DeleteTool, Goto, storeVars, Counted, TypeOK, Launching
    <2>3. \A q \in Profiles : Stale(q)' => Stale(q) \/ Known(q)'
      BY <1>10 DEF DeleteTool, Goto, storeVars, Stale, PolicyOf, Effective, EffectiveProxy, Known,
        Counting, TypeOK, Launching
    <2> QED
      BY <2>1, <2>2, <2>3 DEF StaleInv
  <1>11. ASSUME NEW t \in Threads, Deleted(t) PROVE StaleInv'
    BY <1>11 DEF Deleted, TypeOK, StaleInv, Return, histVars, Launching, Stale, Known, Counted,
      Goto, Effective, Counting, EffectiveProxy, PolicyOf
  <1>12. ASSUME NEW t \in Threads, NEW g \in Groups, NEW pol \in Policy \cup {NoPolicy},
    ChangePolicy(t, g, pol) PROVE StaleInv'
    <2>1. \A q \in Profiles : Known(q) => Known(q)'
      BY <1>12 DEF ChangePolicy, Goto, histVars, Known, Counting, TypeOK, Launching
    <2>2. \A q \in Profiles : Counted(q) => Counted(q)'
      BY <1>12 DEF ChangePolicy, Goto, histVars, Counted, TypeOK, Launching
    <2>3. \A q \in Profiles : Stale(q)' => Stale(q) \/ Known(q)'
      BY <1>12, ZenonT(60) DEF ChangePolicy, Goto, histVars, Stale, PolicyOf, Effective, EffectiveProxy, Known,
        Counting, TypeOK, Launching
    <2> QED
      BY <2>1, <2>2, <2>3 DEF StaleInv
  <1>13. ASSUME NEW t \in Threads, ListSessions(t) PROVE StaleInv'
    BY <1>13 DEF ListSessions, TypeOK, StaleInv, Goto, storeVars, histVars, Launching, Stale,
      Known, Counted, Effective, Counting, EffectiveProxy, PolicyOf
  <1>14. ASSUME NEW t \in Threads, Answer(t) PROVE StaleInv'
    BY <1>14 DEF Answer, TypeOK, StaleInv, Active, Return, storeVars, Launching, Stale, Known,
      Counted, Members, Goto, Effective, Counting, EffectiveProxy, PolicyOf
  <1>15. ASSUME NEW t \in Threads, NEW g \in Groups, DeleteGroup(t, g) PROVE StaleInv'
    BY <1>15 DEF DeleteGroup, TypeOK, StaleInv, Goto, storeVars, histVars, Launching, Stale,
      Known, Counted, Effective, Counting, EffectiveProxy, PolicyOf
  <1>16. ASSUME NEW t \in Threads, Refuse(t) PROVE StaleInv'
    BY <1>16 DEF Refuse, TypeOK, StaleInv, Active, Return, storeVars, histVars, Launching, Stale,
      Known, Counted, Members, Goto, Effective, Counting, EffectiveProxy, PolicyOf
  <1>17. ASSUME NEW t \in Threads, ListProfiles(t) PROVE StaleInv'
    BY <1>17 DEF ListProfiles, TypeOK, StaleInv, Active, Goto, storeVars, histVars, Launching,
      Stale, Known, Counted, Members, Effective, Counting, EffectiveProxy, PolicyOf
  <1>18. ASSUME NEW t \in Threads, NEW p \in Profiles, OtherGroup(t, p) PROVE StaleInv'
    BY <1>18 DEF OtherGroup, TypeOK, StaleInv, storeVars, histVars, Launching, Stale, Known,
      Counted, Effective, Counting, EffectiveProxy, PolicyOf
  <1>19. ASSUME NEW t \in Threads, NEW p \in Profiles, SameGroup(t, p) PROVE StaleInv'
    BY <1>19 DEF SameGroup, TypeOK, StaleInv, Goto, storeVars, histVars, Launching, Stale, Known,
      Counted, Effective, Counting, EffectiveProxy, PolicyOf
  <1>20. ASSUME NEW t \in Threads, Ungroup(t) PROVE StaleInv'
    <2>1. TakesOut(t)
      BY <1>20, UngroupTakesOut
    <2>2. \A q \in Profiles \ {prof[t]} : Known(q) => Known(q)'
      BY <2>1 DEF TakesOut, histVars, Known, Counting, TypeOK, Launching
    <2>3. \A q \in Profiles : q = prof[t] /\ Uses(q) => Known(q)'
      BY <2>1 DEF TakesOut, histVars, CountInv, Known, TypeOK, Launching
    <2>4. \A q \in Profiles \ {prof[t]} : Counted(q) => Counted(q)'
      BY <2>1 DEF TakesOut, histVars, Counted, TypeOK, Launching
    <2>5. \A q \in Profiles \ {prof[t]} : Stale(q)' => Stale(q)
      BY <2>1 DEF TakesOut, histVars, Stale, PolicyOf, Effective, EffectiveProxy, TypeOK,
        Launching
    <2>6. \A q \in Profiles : q = prof[t] /\ Stale(q)' => Uses(q)
      BY <2>1 DEF TakesOut, histVars, Stale, Uses, TypeOK, Launching
    <2> QED
      BY <2>2, <2>3, <2>4, <2>5, <2>6 DEF StaleInv
  <1>21. ASSUME NEW t \in Threads, UngroupNotFound(t) PROVE StaleInv'
    BY <1>21 DEF UngroupNotFound, TypeOK, StaleInv, Return, storeVars, histVars, Launching, Stale,
      Known, Counted, Goto, Effective, Counting, EffectiveProxy, PolicyOf
  <1>22. ASSUME NEW t \in Threads, ClearGroup(t) PROVE StaleInv'
    <2>1. \A q \in Profiles : Known(q) => Known(q)'
      BY <1>22 DEF ClearGroup, Return, histVars, Goto, Known, Counting, TypeOK, Launching
    <2>2. \A q \in Profiles : Counted(q) => Counted(q)'
      BY <1>22 DEF ClearGroup, Return, histVars, Goto, Counted, TypeOK, Launching
    <2>3. \A q \in Profiles : Stale(q)' => Stale(q) \/ Known(q)'
      BY <1>22 DEF ClearGroup, Return, histVars, Goto, Stale, PolicyOf, Effective, EffectiveProxy,
        Known, Counting, CountInv, Uses, TypeOK, Launching
    <2> QED
      BY <2>1, <2>2, <2>3 DEF StaleInv
  <1>23. ASSUME NEW p \in Profiles, CloseSession(p) PROVE StaleInv'
    <2>1. \A q \in Profiles : Known(q) => Known(q)'
      BY <1>23 DEF CloseSession, storeVars, callVars, histVars, Known, Counting, TypeOK, Launching
    <2>2. \A q \in Profiles : Counted(q) => Counted(q)'
      BY <1>23 DEF CloseSession, storeVars, callVars, histVars, Counted, TypeOK, Launching
    <2>3. \A q \in Profiles : Stale(q)' => Stale(q) \/ Known(q)'
      BY <1>23 DEF CloseSession, storeVars, callVars, histVars, Stale, PolicyOf, Effective,
        EffectiveProxy, Known, Counting, TypeOK, Launching
    <2> QED
      BY <2>1, <2>2, <2>3 DEF StaleInv
  <1>24. ASSUME NEW p \in Profiles, DeleteProfile(p) PROVE StaleInv'
    BY <1>24 DEF DeleteProfile, TypeOK, StaleInv, callVars, Launching, Stale, Known, Counted,
      Effective, Counting, EffectiveProxy, PolicyOf
  <1>25. ASSUME NEW p \in Profiles, NEW g \in Groups \cup {NoGroup}, NEW x \in Routes,
    CreateProfile(p, g, x) PROVE StaleInv'
    <2>1. \A q \in Profiles \ {p} : Known(q) => Known(q)'
      BY <1>25 DEF CreateProfile, callVars, Known, Counting, TypeOK, Launching
    <2>2. \A q \in Profiles \ {p} : Counted(q) => Counted(q)'
      BY <1>25 DEF CreateProfile, callVars, Counted, TypeOK, Launching
    <2>3. \A q \in Profiles : Stale(q)' => q # p /\ Stale(q)
      BY <1>25 DEF CreateProfile, callVars, Stale, PolicyOf, Effective, EffectiveProxy, TypeOK,
        Launching
    <2> QED
      BY <2>1, <2>2, <2>3 DEF StaleInv
  <1>26. ASSUME NEW p \in Profiles, NEW g \in Groups \cup {NoGroup}, NEW x \in Routes,
    UpdateProfile(p, g, x) PROVE StaleInv'
    <2>1. \A q \in Profiles : Known(q) => Known(q)'
      BY <1>26 DEF UpdateProfile, callVars, Known, Counting, TypeOK, Launching
    <2>2. \A q \in Profiles : Counted(q) => Counted(q)' \/ Known(q)'
      BY <1>26 DEF UpdateProfile, callVars, Counted, Known, Counting, TypeOK, Launching
    <2>3. \A q \in Profiles : Stale(q)' => Stale(q) \/ Known(q)'
      BY <1>26 DEF UpdateProfile, callVars, Stale, PolicyOf, Effective, EffectiveProxy, Known,
        Counting, TypeOK, Launching
    <2> QED
      BY <2>1, <2>2, <2>3 DEF StaleInv
  <1>27. ASSUME NEW g \in Groups, NEW pol \in Policy \cup {NoPolicy}, ChangePolicySilently(g, pol)
    PROVE StaleInv'
    <2>1. \A q \in Profiles : Known(q) => Known(q)'
      BY <1>27 DEF ChangePolicySilently, callVars, Known, Counting, TypeOK, Launching
    <2>2. \A q \in Profiles : Counted(q) => Counted(q)'
      BY <1>27 DEF ChangePolicySilently, callVars, Counted, TypeOK, Launching
    <2>3. \A q \in Profiles : Stale(q)' => Stale(q) \/ Known(q)'
      BY <1>27 DEF ChangePolicySilently, callVars, Stale, PolicyOf, Effective, EffectiveProxy,
        Known, Counting, TypeOK, Launching
    <2> QED
      BY <2>1, <2>2, <2>3 DEF StaleInv
  <1>28. CASE UNCHANGED vars
    BY <1>28 DEF vars, TypeOK, StaleInv, storeVars, callVars, histVars, Launching, Stale, Known,
      Counted, Effective, Counting, EffectiveProxy, PolicyOf
  <1> QED
    BY <1>1, <1>2, <1>3, <1>4, <1>5, <1>6, <1>7, <1>8, <1>9, <1>10, <1>11, <1>12, <1>13, <1>14,
      <1>15, <1>16, <1>17, <1>18, <1>19, <1>20, <1>21, <1>22, <1>23, <1>24, <1>25, <1>26, <1>27,
      <1>28 DEF Next, LaunchStep, DeleteStep, GroupStep

LEMMA OpenStep == TypeOK /\ OpenInv /\ DeleteInv /\ [Next]_vars => OpenInv'
  <1> SUFFICES ASSUME TypeOK, OpenInv, DeleteInv, [Next]_vars PROVE OpenInv'
    OBVIOUS
  <1>1. ASSUME NEW t \in Threads, NEW p \in Profiles, OpenBrowser(t, p) PROVE OpenInv'
    BY <1>1 DEF OpenBrowser, TypeOK, OpenInv, Goto, storeVars, Launching
  <1>2. ASSUME NEW t \in Threads, UseSession(t) PROVE OpenInv'
    BY <1>2 DEF UseSession, TypeOK, OpenInv, Return, storeVars, histVars, Launching, Goto
  <1>3. ASSUME NEW t \in Threads, LaunchSession(t) PROVE OpenInv'
    BY <1>3 DEF LaunchSession, TypeOK, OpenInv, Goto, storeVars, histVars, Launching
  <1>4. ASSUME NEW t \in Threads, ReadPolicy(t) PROVE OpenInv'
    BY <1>4 DEF ReadPolicy, TypeOK, OpenInv, PolicyOf, Goto, Deleting, storeVars, Launching
  <1>5. ASSUME NEW t \in Threads, ReadProxy(t) PROVE OpenInv'
    BY <1>5 DEF ReadProxy, TypeOK, OpenInv, EffectiveProxy, Goto, storeVars, histVars, Launching
  <1>6. ASSUME NEW t \in Threads, BrowserStarts(t) PROVE OpenInv'
    BY <1>6 DEF BrowserStarts, TypeOK, OpenInv, Return, storeVars, histVars, Launching, Goto
  <1>7. ASSUME NEW t \in Threads, SafeGpuFallback(t) PROVE OpenInv'
    BY <1>7 DEF SafeGpuFallback, TypeOK, OpenInv, DropSessions, storeVars, callVars, histVars,
      Launching
  <1>8. ASSUME NEW t \in Threads, RetryLaunch(t) PROVE OpenInv'
    BY <1>8 DEF RetryLaunch, TypeOK, OpenInv, DropSessions, Goto, storeVars, histVars, Launching
  <1>9. ASSUME NEW t \in Threads, LaunchFails(t) PROVE OpenInv'
    BY <1>9 DEF LaunchFails, TypeOK, OpenInv, Launching, Return, storeVars, histVars, Goto
  <1>10. ASSUME NEW t \in Threads, NEW p \in Profiles, DeleteTool(t, p) PROVE OpenInv'
    BY <1>10 DEF DeleteTool, TypeOK, OpenInv, Goto, storeVars, Launching
  <1>11. ASSUME NEW t \in Threads, Deleted(t) PROVE OpenInv'
    BY <1>11 DEF Deleted, DeleteInv, TypeOK, OpenInv, Return, histVars, Launching, Goto
  <1>12. ASSUME NEW t \in Threads, NEW g \in Groups, NEW pol \in Policy \cup {NoPolicy},
    ChangePolicy(t, g, pol) PROVE OpenInv'
    BY <1>12 DEF ChangePolicy, TypeOK, OpenInv, Goto, histVars, Launching
  <1>13. ASSUME NEW t \in Threads, ListSessions(t) PROVE OpenInv'
    BY <1>13 DEF ListSessions, TypeOK, OpenInv, Goto, storeVars, histVars, Launching
  <1>14. ASSUME NEW t \in Threads, Answer(t) PROVE OpenInv'
    BY <1>14 DEF Answer, TypeOK, OpenInv, Active, Return, storeVars, Launching, Members, Goto
  <1>15. ASSUME NEW t \in Threads, NEW g \in Groups, DeleteGroup(t, g) PROVE OpenInv'
    BY <1>15 DEF DeleteGroup, TypeOK, OpenInv, Goto, storeVars, histVars, Launching
  <1>16. ASSUME NEW t \in Threads, Refuse(t) PROVE OpenInv'
    BY <1>16 DEF Refuse, TypeOK, OpenInv, Active, Return, storeVars, histVars, Launching, Members,
      Goto
  <1>17. ASSUME NEW t \in Threads, ListProfiles(t) PROVE OpenInv'
    BY <1>17 DEF ListProfiles, TypeOK, OpenInv, Active, Goto, storeVars, histVars, Launching,
      Members
  <1>18. ASSUME NEW t \in Threads, NEW p \in Profiles, OtherGroup(t, p) PROVE OpenInv'
    BY <1>18 DEF OtherGroup, TypeOK, OpenInv, storeVars, histVars, Launching
  <1>19. ASSUME NEW t \in Threads, NEW p \in Profiles, SameGroup(t, p) PROVE OpenInv'
    BY <1>19 DEF SameGroup, TypeOK, OpenInv, Goto, storeVars, histVars, Launching
  <1>20. ASSUME NEW t \in Threads, Ungroup(t) PROVE OpenInv'
    <2>1. TakesOut(t)
      BY <1>20, UngroupTakesOut
    <2> QED
      BY <2>1 DEF TakesOut, histVars, OpenInv, TypeOK, Launching
  <1>21. ASSUME NEW t \in Threads, UngroupNotFound(t) PROVE OpenInv'
    BY <1>21 DEF UngroupNotFound, TypeOK, OpenInv, Return, storeVars, histVars, Launching, Goto
  <1>22. ASSUME NEW t \in Threads, ClearGroup(t) PROVE OpenInv'
    BY <1>22 DEF ClearGroup, TypeOK, OpenInv, Return, histVars, Launching, Goto
  <1>23. ASSUME NEW p \in Profiles, CloseSession(p) PROVE OpenInv'
    BY <1>23 DEF CloseSession, TypeOK, OpenInv, storeVars, callVars, histVars, Launching
  <1>24. ASSUME NEW p \in Profiles, DeleteProfile(p) PROVE OpenInv'
    BY <1>24 DEF DeleteProfile, TypeOK, OpenInv, callVars, Launching
  <1>25. ASSUME NEW p \in Profiles, NEW g \in Groups \cup {NoGroup}, NEW x \in Routes,
    CreateProfile(p, g, x) PROVE OpenInv'
    BY <1>25 DEF CreateProfile, TypeOK, OpenInv, callVars, Launching
  <1>26. ASSUME NEW p \in Profiles, NEW g \in Groups \cup {NoGroup}, NEW x \in Routes,
    UpdateProfile(p, g, x) PROVE OpenInv'
    BY <1>26 DEF UpdateProfile, TypeOK, OpenInv, callVars, Launching
  <1>27. ASSUME NEW g \in Groups, NEW pol \in Policy \cup {NoPolicy}, ChangePolicySilently(g, pol)
    PROVE OpenInv'
    BY <1>27 DEF ChangePolicySilently, TypeOK, OpenInv, callVars, Launching
  <1>28. CASE UNCHANGED vars
    BY <1>28 DEF vars, TypeOK, OpenInv, storeVars, callVars, histVars, Launching
  <1> QED
    BY <1>1, <1>2, <1>3, <1>4, <1>5, <1>6, <1>7, <1>8, <1>9, <1>10, <1>11, <1>12, <1>13, <1>14,
      <1>15, <1>16, <1>17, <1>18, <1>19, <1>20, <1>21, <1>22, <1>23, <1>24, <1>25, <1>26, <1>27,
      <1>28 DEF Next, LaunchStep, DeleteStep, GroupStep

LEMMA DeletesStep == TypeOK /\ DeleteInv /\ [Next]_vars => DeleteInv'
  <1> SUFFICES ASSUME TypeOK, DeleteInv, [Next]_vars PROVE DeleteInv'
    OBVIOUS
  <1>1. ASSUME NEW t \in Threads, NEW p \in Profiles, OpenBrowser(t, p) PROVE DeleteInv'
    BY <1>1 DEF OpenBrowser, TypeOK, DeleteInv, Goto, storeVars, Launching
  <1>2. ASSUME NEW t \in Threads, UseSession(t) PROVE DeleteInv'
    BY <1>2 DEF UseSession, TypeOK, DeleteInv, Return, storeVars, histVars, Launching, Goto
  <1>3. ASSUME NEW t \in Threads, LaunchSession(t) PROVE DeleteInv'
    <2>1. \A u \in Threads : pc'[u] = "delete" => pc[u] = "delete"
      BY <1>3 DEF LaunchSession, Goto, storeVars, histVars, TypeOK, Launching
    <2>2. \A u \in Threads : pc'[u] \in Launching \cup {"open"} => pc[u] \in Launching \cup {"open"}
      BY <1>3 DEF LaunchSession, Goto, storeVars, histVars, TypeOK, Launching
    <2>3. \A q \in Profiles : sessions[q] = NoSession => sessions'[q] = NoSession
      BY <1>3 DEF LaunchSession, Goto, storeVars, histVars, TypeOK, Launching
    <2>4. prof' = prof /\ overtaken' = overtaken /\ \A u \in Threads : pc[u] = "delete" => prof[u] \in Profiles
      BY <1>3 DEF LaunchSession, Goto, storeVars, histVars, TypeOK, Launching
    <2> QED
      BY <2>1, <2>2, <2>3, <2>4 DEF DeleteInv
  <1>4. ASSUME NEW t \in Threads, ReadPolicy(t) PROVE DeleteInv'
    BY <1>4 DEF ReadPolicy, TypeOK, DeleteInv, PolicyOf, Goto, Deleting, storeVars, Launching
  <1>5. ASSUME NEW t \in Threads, ReadProxy(t) PROVE DeleteInv'
    BY <1>5 DEF ReadProxy, TypeOK, DeleteInv, EffectiveProxy, Goto, storeVars, histVars, Launching
  <1>6. ASSUME NEW t \in Threads, BrowserStarts(t) PROVE DeleteInv'
    BY <1>6 DEF BrowserStarts, TypeOK, DeleteInv, Return, storeVars, histVars, Launching, Goto
  <1>7. ASSUME NEW t \in Threads, SafeGpuFallback(t) PROVE DeleteInv'
    BY <1>7 DEF SafeGpuFallback, TypeOK, DeleteInv, DropSessions, storeVars, callVars, histVars,
      Launching
  <1>8. ASSUME NEW t \in Threads, RetryLaunch(t) PROVE DeleteInv'
    BY <1>8 DEF RetryLaunch, TypeOK, DeleteInv, DropSessions, Goto, storeVars, histVars, Launching
  <1>9. ASSUME NEW t \in Threads, LaunchFails(t) PROVE DeleteInv'
    BY <1>9 DEF LaunchFails, TypeOK, DeleteInv, Launching, Return, storeVars, histVars, Goto
  <1>10. ASSUME NEW t \in Threads, NEW p \in Profiles, DeleteTool(t, p) PROVE DeleteInv'
    <2>1. \A u \in Threads : pc'[u] \notin Launching
      BY <1>10, RoutingAssumption DEF DeleteTool, Goto, TypeOK, Launching, RoutingAssumption
    <2> QED
      BY <1>10, <2>1 DEF DeleteTool, DeleteInv, Goto, TypeOK
  <1>11. ASSUME NEW t \in Threads, Deleted(t) PROVE DeleteInv'
    BY <1>11 DEF Deleted, TypeOK, DeleteInv, Return, histVars, Launching, Goto
  <1>12. ASSUME NEW t \in Threads, NEW g \in Groups, NEW pol \in Policy \cup {NoPolicy},
    ChangePolicy(t, g, pol) PROVE DeleteInv'
    BY <1>12 DEF ChangePolicy, TypeOK, DeleteInv, Goto, histVars, Launching
  <1>13. ASSUME NEW t \in Threads, ListSessions(t) PROVE DeleteInv'
    BY <1>13 DEF ListSessions, TypeOK, DeleteInv, Goto, storeVars, histVars, Launching
  <1>14. ASSUME NEW t \in Threads, Answer(t) PROVE DeleteInv'
    BY <1>14 DEF Answer, TypeOK, DeleteInv, Active, Return, storeVars, Launching, Members, Goto
  <1>15. ASSUME NEW t \in Threads, NEW g \in Groups, DeleteGroup(t, g) PROVE DeleteInv'
    BY <1>15 DEF DeleteGroup, TypeOK, DeleteInv, Goto, storeVars, histVars, Launching
  <1>16. ASSUME NEW t \in Threads, Refuse(t) PROVE DeleteInv'
    BY <1>16 DEF Refuse, TypeOK, DeleteInv, Active, Return, storeVars, histVars, Launching,
      Members, Goto
  <1>17. ASSUME NEW t \in Threads, ListProfiles(t) PROVE DeleteInv'
    BY <1>17 DEF ListProfiles, TypeOK, DeleteInv, Active, Goto, storeVars, histVars, Launching,
      Members
  <1>18. ASSUME NEW t \in Threads, NEW p \in Profiles, OtherGroup(t, p) PROVE DeleteInv'
    BY <1>18 DEF OtherGroup, TypeOK, DeleteInv, storeVars, histVars, Launching
  <1>19. ASSUME NEW t \in Threads, NEW p \in Profiles, SameGroup(t, p) PROVE DeleteInv'
    BY <1>19 DEF SameGroup, TypeOK, DeleteInv, Goto, storeVars, histVars, Launching
  <1>20. ASSUME NEW t \in Threads, Ungroup(t) PROVE DeleteInv'
    <2>1. TakesOut(t)
      BY <1>20, UngroupTakesOut
    <2>2. \A u \in Threads : pc'[u] = "delete" => pc[u] = "delete" /\ prof'[u] = prof[u]
      BY <2>1 DEF TakesOut, histVars, TypeOK, Launching
    <2>3. \A u \in Threads : pc'[u] \in Launching \cup {"open"} => pc'[u] = pc[u] /\ prof'[u] = prof[u]
      BY <2>1 DEF TakesOut, histVars, TypeOK, Launching
    <2>4. sessions' = sessions /\ overtaken' = overtaken
      BY <2>1 DEF TakesOut, histVars, TypeOK, Launching
    <2> QED
      BY <2>2, <2>3, <2>4 DEF DeleteInv
  <1>21. ASSUME NEW t \in Threads, UngroupNotFound(t) PROVE DeleteInv'
    BY <1>21 DEF UngroupNotFound, TypeOK, DeleteInv, Return, storeVars, histVars, Launching, Goto
  <1>22. ASSUME NEW t \in Threads, ClearGroup(t) PROVE DeleteInv'
    BY <1>22 DEF ClearGroup, TypeOK, DeleteInv, Return, histVars, Launching, Goto
  <1>23. ASSUME NEW p \in Profiles, CloseSession(p) PROVE DeleteInv'
    BY <1>23 DEF CloseSession, TypeOK, DeleteInv, storeVars, callVars, histVars, Launching
  <1>24. ASSUME NEW p \in Profiles, DeleteProfile(p) PROVE DeleteInv'
    BY <1>24 DEF DeleteProfile, TypeOK, DeleteInv, callVars, Launching
  <1>25. ASSUME NEW p \in Profiles, NEW g \in Groups \cup {NoGroup}, NEW x \in Routes,
    CreateProfile(p, g, x) PROVE DeleteInv'
    BY <1>25 DEF CreateProfile, TypeOK, DeleteInv, callVars, Launching
  <1>26. ASSUME NEW p \in Profiles, NEW g \in Groups \cup {NoGroup}, NEW x \in Routes,
    UpdateProfile(p, g, x) PROVE DeleteInv'
    BY <1>26 DEF UpdateProfile, TypeOK, DeleteInv, callVars, Launching
  <1>27. ASSUME NEW g \in Groups, NEW pol \in Policy \cup {NoPolicy}, ChangePolicySilently(g, pol)
    PROVE DeleteInv'
    BY <1>27 DEF ChangePolicySilently, TypeOK, DeleteInv, callVars, Launching
  <1>28. CASE UNCHANGED vars
    BY <1>28 DEF vars, TypeOK, DeleteInv, storeVars, callVars, histVars, Launching
  <1> QED
    BY <1>1, <1>2, <1>3, <1>4, <1>5, <1>6, <1>7, <1>8, <1>9, <1>10, <1>11, <1>12, <1>13, <1>14,
      <1>15, <1>16, <1>17, <1>18, <1>19, <1>20, <1>21, <1>22, <1>23, <1>24, <1>25, <1>26, <1>27,
      <1>28 DEF Next, LaunchStep, DeleteStep, GroupStep

LEMMA ClosedStep == TypeOK /\ OpenInv /\ DeleteInv /\ DeletedIsClosed /\ [Next]_vars => DeletedIsClosed'
  <1> SUFFICES ASSUME TypeOK, OpenInv, DeleteInv, DeletedIsClosed, [Next]_vars PROVE DeletedIsClosed'
    OBVIOUS
  <1>1. ASSUME NEW t \in Threads, NEW p \in Profiles, OpenBrowser(t, p) PROVE DeletedIsClosed'
    BY <1>1 DEF OpenBrowser, TypeOK, DeletedIsClosed, Goto, storeVars, Launching
  <1>2. ASSUME NEW t \in Threads, UseSession(t) PROVE DeletedIsClosed'
    BY <1>2 DEF UseSession, TypeOK, DeletedIsClosed, Return, storeVars, histVars, Launching, Goto
  <1>3. ASSUME NEW t \in Threads, LaunchSession(t) PROVE DeletedIsClosed'
    BY <1>3 DEF LaunchSession, TypeOK, DeletedIsClosed, Goto, storeVars, histVars, Launching
  <1>4. ASSUME NEW t \in Threads, ReadPolicy(t) PROVE DeletedIsClosed'
    BY <1>4 DEF ReadPolicy, TypeOK, DeletedIsClosed, PolicyOf, Goto, Deleting, storeVars,
      Launching
  <1>5. ASSUME NEW t \in Threads, ReadProxy(t) PROVE DeletedIsClosed'
    BY <1>5 DEF ReadProxy, TypeOK, DeletedIsClosed, EffectiveProxy, Goto, storeVars, histVars,
      Launching
  <1>6. ASSUME NEW t \in Threads, BrowserStarts(t) PROVE DeletedIsClosed'
    <2>1. prof[t] \in Profiles /\ (prof[t] \notin stored => prof[t] \in overtaken)
      BY <1>6 DEF BrowserStarts, Return, storeVars, histVars, Goto, OpenInv, TypeOK, Launching
    <2>2. stored' = stored /\ overtaken' = overtaken
           /\ \A q \in Profiles \ {prof[t]} : sessions'[q] = sessions[q]
      BY <1>6 DEF BrowserStarts, Return, storeVars, histVars, Goto, TypeOK, Launching
    <2> QED
      BY <2>1, <2>2 DEF DeletedIsClosed
  <1>7. ASSUME NEW t \in Threads, SafeGpuFallback(t) PROVE DeletedIsClosed'
    BY <1>7 DEF SafeGpuFallback, TypeOK, DeletedIsClosed, DropSessions, storeVars, callVars,
      histVars, Launching
  <1>8. ASSUME NEW t \in Threads, RetryLaunch(t) PROVE DeletedIsClosed'
    BY <1>8 DEF RetryLaunch, TypeOK, DeletedIsClosed, DropSessions, Goto, storeVars, histVars,
      Launching
  <1>9. ASSUME NEW t \in Threads, LaunchFails(t) PROVE DeletedIsClosed'
    BY <1>9 DEF LaunchFails, TypeOK, DeletedIsClosed, Launching, Return, storeVars, histVars, Goto
  <1>10. ASSUME NEW t \in Threads, NEW p \in Profiles, DeleteTool(t, p) PROVE DeletedIsClosed'
    BY <1>10 DEF DeleteTool, TypeOK, DeletedIsClosed, Goto, storeVars, Launching
  <1>11. ASSUME NEW t \in Threads, Deleted(t) PROVE DeletedIsClosed'
    BY <1>11 DEF Deleted, DeleteInv, TypeOK, DeletedIsClosed, Return, histVars, Launching, Goto
  <1>12. ASSUME NEW t \in Threads, NEW g \in Groups, NEW pol \in Policy \cup {NoPolicy},
    ChangePolicy(t, g, pol) PROVE DeletedIsClosed'
    BY <1>12 DEF ChangePolicy, TypeOK, DeletedIsClosed, Goto, histVars, Launching
  <1>13. ASSUME NEW t \in Threads, ListSessions(t) PROVE DeletedIsClosed'
    BY <1>13 DEF ListSessions, TypeOK, DeletedIsClosed, Goto, storeVars, histVars, Launching
  <1>14. ASSUME NEW t \in Threads, Answer(t) PROVE DeletedIsClosed'
    BY <1>14 DEF Answer, TypeOK, DeletedIsClosed, Active, Return, storeVars, Launching, Members,
      Goto
  <1>15. ASSUME NEW t \in Threads, NEW g \in Groups, DeleteGroup(t, g) PROVE DeletedIsClosed'
    BY <1>15 DEF DeleteGroup, TypeOK, DeletedIsClosed, Goto, storeVars, histVars, Launching
  <1>16. ASSUME NEW t \in Threads, Refuse(t) PROVE DeletedIsClosed'
    BY <1>16 DEF Refuse, TypeOK, DeletedIsClosed, Active, Return, storeVars, histVars, Launching,
      Members, Goto
  <1>17. ASSUME NEW t \in Threads, ListProfiles(t) PROVE DeletedIsClosed'
    BY <1>17 DEF ListProfiles, TypeOK, DeletedIsClosed, Active, Goto, storeVars, histVars,
      Launching, Members
  <1>18. ASSUME NEW t \in Threads, NEW p \in Profiles, OtherGroup(t, p) PROVE DeletedIsClosed'
    BY <1>18 DEF OtherGroup, TypeOK, DeletedIsClosed, storeVars, histVars, Launching
  <1>19. ASSUME NEW t \in Threads, NEW p \in Profiles, SameGroup(t, p) PROVE DeletedIsClosed'
    BY <1>19 DEF SameGroup, TypeOK, DeletedIsClosed, Goto, storeVars, histVars, Launching
  <1>20. ASSUME NEW t \in Threads, Ungroup(t) PROVE DeletedIsClosed'
    BY <1>20 DEF Ungroup, TypeOK, DeletedIsClosed, Goto, Return, histVars, Launching
  <1>21. ASSUME NEW t \in Threads, UngroupNotFound(t) PROVE DeletedIsClosed'
    BY <1>21 DEF UngroupNotFound, TypeOK, DeletedIsClosed, Return, storeVars, histVars, Launching,
      Goto
  <1>22. ASSUME NEW t \in Threads, ClearGroup(t) PROVE DeletedIsClosed'
    BY <1>22 DEF ClearGroup, TypeOK, DeletedIsClosed, Return, histVars, Launching, Goto
  <1>23. ASSUME NEW p \in Profiles, CloseSession(p) PROVE DeletedIsClosed'
    BY <1>23 DEF CloseSession, TypeOK, DeletedIsClosed, storeVars, callVars, histVars, Launching
  <1>24. ASSUME NEW p \in Profiles, DeleteProfile(p) PROVE DeletedIsClosed'
    BY <1>24 DEF DeleteProfile, TypeOK, DeletedIsClosed, callVars, Launching
  <1>25. ASSUME NEW p \in Profiles, NEW g \in Groups \cup {NoGroup}, NEW x \in Routes,
    CreateProfile(p, g, x) PROVE DeletedIsClosed'
    BY <1>25 DEF CreateProfile, TypeOK, DeletedIsClosed, callVars, Launching
  <1>26. ASSUME NEW p \in Profiles, NEW g \in Groups \cup {NoGroup}, NEW x \in Routes,
    UpdateProfile(p, g, x) PROVE DeletedIsClosed'
    BY <1>26 DEF UpdateProfile, TypeOK, DeletedIsClosed, callVars, Launching
  <1>27. ASSUME NEW g \in Groups, NEW pol \in Policy \cup {NoPolicy}, ChangePolicySilently(g, pol)
    PROVE DeletedIsClosed'
    BY <1>27 DEF ChangePolicySilently, TypeOK, DeletedIsClosed, callVars, Launching
  <1>28. CASE UNCHANGED vars
    BY <1>28 DEF vars, TypeOK, DeletedIsClosed, storeVars, callVars, histVars, Launching
  <1> QED
    BY <1>1, <1>2, <1>3, <1>4, <1>5, <1>6, <1>7, <1>8, <1>9, <1>10, <1>11, <1>12, <1>13, <1>14,
      <1>15, <1>16, <1>17, <1>18, <1>19, <1>20, <1>21, <1>22, <1>23, <1>24, <1>25, <1>26, <1>27,
      <1>28 DEF Next, LaunchStep, DeleteStep, GroupStep

-----------------------------------------------------------------------------
LEMMA InitHolds == Init => RouteInv /\ CloseInv
  BY RoutingAssumption DEF RoutingAssumption, Init, RouteInv, CloseInv, TypeOK, LaunchInv, ReadInv,
    CountInv, StaleInv, OpenInv, DeleteInv, DeletedIsClosed, Stale, Launching, Routes, Policy

LEMMA Invariance == Spec => [](RouteInv /\ CloseInv)
  <1>1. RouteInv /\ [Next]_vars => RouteInv'
    BY TypeStep, LaunchesStep, ReadStep, CountStep, StaleStep DEF RouteInv
  <1>2. CloseInv /\ [Next]_vars => CloseInv'
    BY TypeStep, OpenStep, DeletesStep, ClosedStep DEF CloseInv
  <1> QED
    BY InitHolds, <1>1, <1>2, PTL DEF Spec

LEMMA StaleIsAnnounced == StaleInv => OutdatedIsAnnounced
  BY DEF StaleInv, OutdatedIsAnnounced, Known, Counting, Counted, Pending

-----------------------------------------------------------------------------
\* The state stays well typed, and only the caller that holds Manager.mu launches.
THEOREM RoutingTypeCorrect == Spec => []TypeOK
  <1>1. RouteInv => TypeOK
    BY DEF RouteInv
  <1> QED
    BY Invariance, <1>1, PTL

\* Whoever changes a group's proxy policy is told of every browser that runs, or comes up,
\* without it, and a browser that was counted keeps its group from being deleted, whatever
\* launches and retries are under way (api/groups.go, manager.go).
THEOREM OutdatedAreAnnounced == Spec => []OutdatedIsAnnounced
  <1>1. RouteInv => OutdatedIsAnnounced
    BY StaleIsAnnounced DEF RouteInv
  <1> QED
    BY Invariance, <1>1, PTL

\* delete_profile leaves a browser behind only where another call has opened the profile
\* meanwhile, or REST has deleted it (mcp/server.go, router.go).
THEOREM DeletedAreClosed == Spec => []DeletedIsClosed
  <1>1. CloseInv => DeletedIsClosed
    BY DEF CloseInv
  <1> QED
    BY Invariance, <1>1, PTL

-----------------------------------------------------------------------------
Listed == {p \in Profiles : sessions[p] # NoSession}
Launched == {prof[t] : t \in {u \in Threads : pc[u] \in Launching}}

\* Nothing begins or ends a launch, and nobody gets a session.
Quiet ==
  /\ \A t \in Threads : pc'[t] \in Launching <=> pc[t] \in Launching
  /\ \A t \in Threads : pc[t] \in Launching => prof'[t] = prof[t]
  /\ \A p \in Profiles : sessions'[p] \in {sessions[p], NoSession}

\* Before and after a step of t, where nobody else can launch.
LEMMA LaunchedIs ==
  ASSUME TypeOK, NEW t \in Threads, mu \in {t, NoThread}, \A u \in Threads \ {t} : pc'[u] = pc[u]
  PROVE  /\ Launched = IF pc[t] \in Launching THEN {prof[t]} ELSE {}
         /\ Launched' = IF pc'[t] \in Launching THEN {prof'[t]} ELSE {}
  <1>1. \A u \in Threads : pc[u] \in Launching <=> mu = u
    BY DEF TypeOK
  <1>2. NoThread \notin Threads
    BY RoutingAssumption DEF RoutingAssumption
  <1>3. \A u \in Threads \ {t} : pc[u] \notin Launching /\ pc'[u] \notin Launching
    BY <1>1, <1>2
  <1> QED
    BY <1>3 DEF Launched

LEMMA QuietWithdraws == ASSUME TypeOK, Quiet PROVE Table!Next
  <1>1. Launched' = Launched
    BY DEF Quiet, Launched
  <1>2. PICK S \in SUBSET Profiles : Listed' = Listed \ S
    <2>1. Listed' = Listed \ (Listed \ Listed') /\ Listed \ Listed' \subseteq Profiles
      BY DEF Quiet, Listed
    <2> QED
      BY <2>1
  <1>3. Table!Withdraw(S)
    BY <1>1, <1>2 DEF Table!Withdraw, Launched, Listed
  <1> QED
    BY <1>2, <1>3 DEF Table!Next

\* Every step but the first and the last of a launch is quiet.
LEMMA OthersAreQuiet ==
  TypeOK /\ [Next]_vars =>
    Quiet \/ \E t \in Threads : LaunchSession(t) \/ BrowserStarts(t) \/ LaunchFails(t)
  <1> SUFFICES ASSUME TypeOK, [Next]_vars,
                      ~\E t \in Threads : LaunchSession(t) \/ BrowserStarts(t) \/ LaunchFails(t)
               PROVE  Quiet
    OBVIOUS
  <1>1. ASSUME NEW t \in Threads, NEW p \in Profiles, OpenBrowser(t, p) PROVE Quiet
    BY <1>1 DEF OpenBrowser, TypeOK, Goto, storeVars, Launching, Quiet
  <1>2. ASSUME NEW t \in Threads, UseSession(t) PROVE Quiet
    BY <1>2 DEF UseSession, TypeOK, Return, storeVars, histVars, Launching, Goto, Quiet
  <1>3. ASSUME NEW t \in Threads, ReadPolicy(t) PROVE Quiet
    BY <1>3 DEF ReadPolicy, TypeOK, Goto, storeVars, Launching, Quiet
  <1>4. ASSUME NEW t \in Threads, ReadProxy(t) PROVE Quiet
    BY <1>4 DEF ReadProxy, TypeOK, Goto, storeVars, histVars, Launching, Quiet
  <1>5. ASSUME NEW t \in Threads, SafeGpuFallback(t) PROVE Quiet
    BY <1>5 DEF SafeGpuFallback, TypeOK, DropSessions, storeVars, callVars, histVars, Launching,
       Quiet
  <1>6. ASSUME NEW t \in Threads, RetryLaunch(t) PROVE Quiet
    BY <1>6 DEF RetryLaunch, TypeOK, DropSessions, Goto, storeVars, histVars, Launching, Quiet
  <1>7. ASSUME NEW t \in Threads, NEW p \in Profiles, DeleteTool(t, p) PROVE Quiet
    BY <1>7 DEF DeleteTool, TypeOK, Goto, storeVars, Launching, Quiet
  <1>8. ASSUME NEW t \in Threads, Deleted(t) PROVE Quiet
    BY <1>8 DEF Deleted, TypeOK, Return, histVars, Launching, Goto, Quiet
  <1>9. ASSUME NEW t \in Threads, NEW g \in Groups, NEW pol \in Policy \cup {NoPolicy},
     ChangePolicy(t, g, pol) PROVE Quiet
    BY <1>9 DEF ChangePolicy, TypeOK, Goto, histVars, Launching, Quiet
  <1>10. ASSUME NEW t \in Threads, ListSessions(t) PROVE Quiet
    BY <1>10 DEF ListSessions, TypeOK, Goto, storeVars, histVars, Launching, Quiet
  <1>11. ASSUME NEW t \in Threads, Answer(t) PROVE Quiet
    BY <1>11 DEF Answer, TypeOK, Return, storeVars, Launching, Goto, Quiet
  <1>12. ASSUME NEW t \in Threads, NEW g \in Groups, DeleteGroup(t, g) PROVE Quiet
    BY <1>12 DEF DeleteGroup, TypeOK, Goto, storeVars, histVars, Launching, Quiet
  <1>13. ASSUME NEW t \in Threads, Refuse(t) PROVE Quiet
    BY <1>13 DEF Refuse, TypeOK, Return, storeVars, histVars, Launching, Goto, Quiet
  <1>14. ASSUME NEW t \in Threads, ListProfiles(t) PROVE Quiet
    BY <1>14 DEF ListProfiles, TypeOK, Goto, storeVars, histVars, Launching, Quiet
  <1>15. ASSUME NEW t \in Threads, NEW p \in Profiles, OtherGroup(t, p) PROVE Quiet
    BY <1>15 DEF OtherGroup, TypeOK, storeVars, histVars, Launching, Quiet
  <1>16. ASSUME NEW t \in Threads, NEW p \in Profiles, SameGroup(t, p) PROVE Quiet
    BY <1>16 DEF SameGroup, TypeOK, Goto, storeVars, histVars, Launching, Quiet
  <1>17. ASSUME NEW t \in Threads, Ungroup(t) PROVE Quiet
    BY <1>17, UngroupTakesOut DEF TakesOut, Quiet, TypeOK, Launching
  <1>18. ASSUME NEW t \in Threads, UngroupNotFound(t) PROVE Quiet
    BY <1>18 DEF UngroupNotFound, TypeOK, Return, storeVars, histVars, Launching, Goto, Quiet
  <1>19. ASSUME NEW t \in Threads, ClearGroup(t) PROVE Quiet
    BY <1>19 DEF ClearGroup, TypeOK, Return, histVars, Launching, Goto, Quiet
  <1>20. ASSUME NEW p \in Profiles, CloseSession(p) PROVE Quiet
    BY <1>20 DEF CloseSession, TypeOK, storeVars, callVars, histVars, Launching, Quiet
  <1>21. ASSUME NEW p \in Profiles, DeleteProfile(p) PROVE Quiet
    BY <1>21 DEF DeleteProfile, TypeOK, callVars, Launching, Quiet
  <1>22. ASSUME NEW p \in Profiles, NEW g \in Groups \cup {NoGroup}, NEW x \in Routes,
     CreateProfile(p, g, x) PROVE Quiet
    BY <1>22 DEF CreateProfile, TypeOK, callVars, Launching, Quiet
  <1>23. ASSUME NEW p \in Profiles, NEW g \in Groups \cup {NoGroup}, NEW x \in Routes,
     UpdateProfile(p, g, x) PROVE Quiet
    BY <1>23 DEF UpdateProfile, TypeOK, callVars, Launching, Quiet
  <1>24. ASSUME NEW g \in Groups, NEW pol \in Policy \cup {NoPolicy}, ChangePolicySilently(g, pol)
     PROVE Quiet
    BY <1>24 DEF ChangePolicySilently, TypeOK, callVars, Launching, Quiet
  <1>25. CASE UNCHANGED vars
    BY <1>25 DEF vars, storeVars, callVars, histVars, Quiet
  <1> QED
    BY <1>1, <1>2, <1>3, <1>4, <1>5, <1>6, <1>7, <1>8, <1>9, <1>10, <1>11, <1>12, <1>13, <1>14,
       <1>15, <1>16, <1>17, <1>18, <1>19, <1>20, <1>21, <1>22, <1>23, <1>24, <1>25 DEF Next,
       LaunchStep, DeleteStep, GroupStep

LEMMA TableInit == Init => Table!Init
  BY DEF Init, Table!Init, Launching

\* Every step of callers, launches and deletions is a step of the table of sessions.
LEMMA TableStep == TypeOK /\ [Next]_vars => Table!Next
  <1> SUFFICES ASSUME TypeOK, [Next]_vars PROVE Table!Next
    OBVIOUS
  <1>1. ASSUME NEW t \in Threads, LaunchSession(t) PROVE Table!Next
    <2>1. PICK p \in Profiles :
            /\ p = prof[t] /\ p = prof'[t] /\ pc[t] \notin Launching /\ pc'[t] \in Launching /\ mu = NoThread
            /\ sessions' = [sessions EXCEPT ![p] = NoSession] /\ \A u \in Threads \ {t} : pc'[u] = pc[u]
      BY <1>1 DEF LaunchSession, Goto, TypeOK, Launching
    <2>2. Launched = {} /\ Launched' = {p}
      BY <2>1, LaunchedIs
    <2>3. Listed' = Listed \ {p}
      BY <2>1 DEF TypeOK, Listed
    <2>4. Table!Begin(p)
      BY <2>2, <2>3 DEF Table!Begin, Launched, Listed
    <2> QED
      BY <2>4 DEF Table!Next
  <1>2. ASSUME NEW t \in Threads, BrowserStarts(t) PROVE Table!Next
    <2>1. /\ pc[t] = "start" /\ pc'[t] = "idle" /\ prof[t] \in Profiles /\ route[t] \in Routes
          /\ sessions' = [sessions EXCEPT ![prof[t]] = route[t]] /\ \A u \in Threads \ {t} : pc'[u] = pc[u]
      BY <1>2 DEF BrowserStarts, Return, Goto, TypeOK, Launching
    <2>2. PICK p \in Profiles : p = prof[t]
      BY <2>1
    <2>3. /\ pc[t] \in Launching /\ pc'[t] \notin Launching /\ mu = t /\ route[t] # NoSession
      BY <2>1, RoutingAssumption DEF TypeOK, Launching, RoutingAssumption
    <2>4. Launched = {p} /\ Launched' = {}
      BY <2>1, <2>2, <2>3, LaunchedIs
    <2>5. Listed' = Listed \cup {p}
      BY <2>1, <2>2, <2>3 DEF TypeOK, Listed
    <2>6. Table!Finish(p)
      BY <2>4, <2>5 DEF Table!Finish, Launched, Listed
    <2> QED
      BY <2>6 DEF Table!Next
  <1>3. ASSUME NEW t \in Threads, LaunchFails(t) PROVE Table!Next
    <2>1. /\ pc[t] \in Launching /\ pc'[t] \notin Launching /\ mu = t
          /\ \A u \in Threads \ {t} : pc'[u] = pc[u]
      BY <1>3 DEF LaunchFails, Return, Goto, TypeOK, Launching
    <2>2. Launched' = {}
      BY <2>1, LaunchedIs
    <2>3. Table!GiveUp
      BY <1>3, <2>2 DEF LaunchFails, Table!GiveUp, Launched
    <2> QED
      BY <2>3 DEF Table!Next
  <1> QED
    BY <1>1, <1>2, <1>3, OthersAreQuiet, QuietWithdraws

\* Routing assumes of browser.Manager no more than SessionTable, which BrowserManager implements
\* too: what is shown of announced and deleted sessions rests on the manager's lock only.
THEOREM RoutingKeepsTheTable == Spec => ImplementsSessionTable
  <1>1. RouteInv => TypeOK
    BY DEF RouteInv
  <1> QED
    BY <1>1, TableInit, TableStep, Invariance, PTL DEF Spec, ImplementsSessionTable, Table!Spec
=============================================================================
