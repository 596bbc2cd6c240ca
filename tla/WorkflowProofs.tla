--------------------------- MODULE WorkflowProofs ---------------------------
(***************************************************************************)
(* What the workflow engine guarantees, for any number of attempts,        *)
(* clients, profiles, pages and variables, and any sequence of steps.      *)
(* The invariants of the tabs come first, whoever takes the steps.         *)
(***************************************************************************)
EXTENDS Workflow, SequenceTheorems, TLAPS

\* What anybody may do to the tabs.
TabNext ==
  \/ \E c \in Clients : TabCall(c) \/ PageCall(c)
  \/ SiteStep
  \/ \E p \in Profiles, x \in Pages : Launch(p, x)
  \/ \E p \in Profiles : CloseBrowser(p)

\* The page objects that calls hold are those of running browsers, ...
HoldInv ==
  \A c \in Clients :
    /\ pc[c] \notin {"idle", "ready"} => prof[c] \in live /\ on[c] \in Pages
    /\ pc[c] = "ready" /\ on[c] # NoPage => prof[c] \in live

TabTypes ==
  /\ live \in SUBSET Profiles /\ lost \in SUBSET Profiles
  /\ page \in [Profiles -> Pages \cup {NoPage}]
  /\ \A p \in live : page[p] # NoPage
  /\ pc \in [Clients -> {"idle", "ready", "switch", "opened", "close", "closed", "replace"}]
  /\ prof \in [Clients -> Profiles \cup {NoProfile}]
  /\ on \in [Clients -> Pages \cup {NoPage}]
  /\ HoldInv

\* ... and no tab is in a browser's list twice.
ListInv ==
  /\ tabs \in [Profiles -> Seq(Pages)]
  /\ \A p \in Profiles : IsInjective(tabs[p]) /\ (p \notin live => tabs[p] = <<>>)

LEMMA TypeParts == TabTypes /\ ListInv => TabTypeOK
  BY DEF TabTypes, ListInv, TabTypeOK, HoldInv

\* A call that is about to make a tab the active one.
Chooses(c, p) == prof[c] = p /\ pc[c] \in {"switch", "opened", "replace"}

\* Unless sites or other tools were in the way, what a call is about to make the active
\* tab is open, and where the active tab is not, somebody is about to replace it.
ActiveInv ==
  \A p \in live \ lost :
    /\ \A c \in Clients : Chooses(c, p) => on[c] \in Range(tabs[p])
    /\ \/ tabs[p] = <<>>
       \/ page[p] \in Range(tabs[p])
       \/ \E c \in Clients : Chooses(c, p) \/ (prof[c] = p /\ pc[c] = "closed" /\ on[c] = page[p])

LEMMA InitLists == TabInit => TabTypes /\ ListInv /\ ActiveInv
  BY TabsAssumption DEF TabsAssumption, TabInit, TabTypes, HoldInv, ListInv, ActiveInv, IsInjective

-----------------------------------------------------------------------------
\* What operations on lists do.

LEMMA WithoutOne ==
  ASSUME NEW s \in Seq(Pages), IsInjective(s), NEW i \in DOMAIN s
  PROVE  LET r == RemoveAt(s, i)
         IN  r \in Seq(Pages) /\ IsInjective(r) /\ Range(r) = Range(s) \ {s[i]}
  <1> DEFINE r == RemoveAt(s, i)
             n == Len(s)
  <1>1. n \in Nat /\ DOMAIN s = 1..n /\ \A j \in 1..n : s[j] \in Pages
    OBVIOUS
  <1>2. i \in 1..n
    BY <1>1
  <1> DEFINE lo == SubSeq(s, 1, i - 1)
             hi == SubSeq(s, i + 1, n)
  <1>3. lo \in Seq(Pages) /\ Len(lo) = i - 1 /\ \A j \in 1..(i-1) : lo[j] = s[j]
    BY <1>1, <1>2, SubSeqProperties
  <1>4. hi \in Seq(Pages) /\ Len(hi) = n - i /\ \A j \in 1..(n-i) : hi[j] = s[i+j]
    BY <1>1, <1>2, SubSeqProperties
  <1>5. r = lo \o hi
    BY DEF RemoveAt
  <1> HIDE DEF lo, hi, n, r
  <1>6. r \in Seq(Pages) /\ Len(r) = n - 1 /\ \A j \in 1..(n-1) : r[j] = IF j <= i - 1 THEN lo[j] ELSE hi[j - (i-1)]
    <2>1. Len(lo) + Len(hi) = n - 1
      BY <1>1, <1>2, <1>3, <1>4
    <2>2. QED
      BY <1>3, <1>4, <1>5, <2>1, ConcatProperties
  <1>7. r \in Seq(Pages) /\ DOMAIN r = 1..(n-1)
    BY <1>6
  <1>8. \A j \in 1..(n-1) : r[j] = IF j < i THEN s[j] ELSE s[j+1]
    <2> TAKE j \in 1..(n-1)
    <2>1. CASE j <= i - 1
      BY <1>1, <1>2, <1>3, <1>6, <2>1
    <2>2. CASE ~(j <= i - 1)
      <3>1. j - (i-1) \in 1..(n-i) /\ i + (j - (i-1)) = j + 1 /\ ~(j < i)
        BY <1>1, <1>2, <2>2
      <3>2. QED
        BY <1>4, <1>6, <2>2, <3>1
    <2>3. QED
      BY <2>1, <2>2
  <1>9. IsInjective(r)
    <2>1. ASSUME NEW j \in 1..(n-1), NEW k \in 1..(n-1), r[j] = r[k] PROVE j = k
      <3> DEFINE skip(m) == IF m < i THEN m ELSE m + 1
      <3>1. skip(j) \in 1..n /\ skip(k) \in 1..n /\ s[skip(j)] = s[skip(k)]
        BY <1>1, <1>2, <1>8, <2>1
      <3>2. skip(j) = skip(k)
        BY <1>1, <3>1, Zenon DEF IsInjective
      <3>3. QED
        BY <1>1, <1>2, <3>2
    <2>2. QED
      BY <1>7, <2>1, Zenon DEF IsInjective
  <1>10. Range(r) = Range(s) \ {s[i]}
    <2>1. ASSUME NEW j \in 1..(n-1) PROVE r[j] \in Range(s) \ {s[i]}
      <3>1. PICK k \in 1..n : k # i /\ r[j] = s[k]
        <4>1. CASE j < i
          BY <1>1, <1>8, <4>1
        <4>2. CASE ~(j < i)
          <5>1. j + 1 \in 1..n /\ j + 1 # i
            BY <1>1, <1>2, <4>2
          <5>2. QED
            BY <1>8, <4>2, <5>1
        <4>3. QED
          BY <4>1, <4>2
      <3>2. s[k] # s[i]
        BY <1>1, <1>2, <3>1, Zenon DEF IsInjective
      <3>3. QED
        BY <1>1, <3>1, <3>2, Zenon DEF Range
    <2>2. ASSUME NEW j \in 1..n, j # i PROVE s[j] \in Range(r)
      <3>1. CASE j < i
        BY <1>1, <1>7, <1>8, <3>1 DEF Range
      <3>2. CASE j > i
        <4>1. j - 1 \in 1..(n-1) /\ r[j-1] = s[j]
          BY <1>1, <1>8, <2>2, <3>2
        <4>2. QED
          BY <1>7, <4>1 DEF Range
      <3>3. QED
        BY <1>1, <2>2, <3>1, <3>2
    <2>3. QED
      BY <1>1, <1>7, <2>1, <2>2, Zenon DEF Range
  <1>11. QED
    BY <1>7, <1>9, <1>10 DEF r

LEMMA WithOneMore ==
  ASSUME NEW s \in Seq(Pages), IsInjective(s), NEW x \in Pages, x \notin Range(s)
  PROVE  LET r == Append(s, x)
         IN  r \in Seq(Pages) /\ r # <<>> /\ IsInjective(r) /\ Range(r) = Range(s) \cup {x}
  <1> DEFINE r == Append(s, x)
             n == Len(s)
  <1>1. n \in Nat /\ DOMAIN s = 1..n
    OBVIOUS
  <1>2. r \in Seq(Pages) /\ DOMAIN r = 1..(n+1) /\ r # <<>> /\ r[n+1] = x /\ \A j \in 1..n : r[j] = s[j]
    BY <1>1
  <1> HIDE DEF r
  <1>3. \A j \in 1..(n+1) : j \in 1..n \/ j = n + 1
    BY <1>1
  <1>4. IsInjective(r)
    BY <1>1, <1>2, <1>3 DEF IsInjective, Range
  <1>5. Range(r) = Range(s) \cup {x}
    BY <1>1, <1>2, <1>3 DEF Range
  <1>6. QED
    BY <1>2, <1>4, <1>5 DEF r

LEMMA OneTab ==
  ASSUME NEW x \in Pages
  PROVE  <<x>> \in Seq(Pages) /\ IsInjective(<<x>>) /\ Range(<<x>>) = {x}
  BY DEF IsInjective, Range

LEMMA NoTabs == <<>> \in Seq(Pages) /\ IsInjective(<<>>) /\ Range(<<>>) = {}
  BY DEF IsInjective, Range

LEMMA TabClosed ==
  ASSUME ListInv, NEW p \in Profiles, NEW x, Closes(p, x)
  PROVE  /\ tabs' \in [Profiles -> Seq(Pages)]
         /\ IsInjective(tabs'[p]) /\ Range(tabs'[p]) = Range(tabs[p]) \ {x}
         /\ tabs[p] = <<>> => tabs'[p] = <<>>
         /\ \A q \in Profiles \ {p} : tabs'[q] = tabs[q]
  <1>1. CASE x \notin Range(tabs[p]) /\ UNCHANGED tabs
    BY <1>1 DEF ListInv
  <1>2. ASSUME NEW i \in DOMAIN tabs[p], tabs[p][i] = x, tabs' = [tabs EXCEPT ![p] = RemoveAt(@, i)]
        PROVE  /\ tabs' \in [Profiles -> Seq(Pages)]
               /\ IsInjective(tabs'[p]) /\ Range(tabs'[p]) = Range(tabs[p]) \ {x}
               /\ tabs[p] = <<>> => tabs'[p] = <<>>
               /\ \A q \in Profiles \ {p} : tabs'[q] = tabs[q]
    <2> DEFINE r == RemoveAt(tabs[p], i)
    <2>1. r \in Seq(Pages) /\ IsInjective(r) /\ Range(r) = Range(tabs[p]) \ {x}
      BY <1>2, WithoutOne DEF ListInv
    <2>2. tabs[p] # <<>>
      BY <1>2
    <2> HIDE DEF r
    <2>3. tabs' = [tabs EXCEPT ![p] = r]
      BY <1>2 DEF r
    <2>4. QED
      BY <2>1, <2>2, <2>3 DEF ListInv
  <1>3. QED
    BY <1>1, <1>2 DEF Closes

LEMMA TabAdded ==
  ASSUME TabTypes, ListInv, NEW p \in Profiles, NEW x \in Pages, Fresh(x), tabs[p] # <<>> \/ p \in live,
         tabs' = [tabs EXCEPT ![p] = Append(@, x)]
  PROVE  /\ p \in live
         /\ tabs' \in [Profiles -> Seq(Pages)]
         /\ IsInjective(tabs'[p]) /\ Range(tabs'[p]) = Range(tabs[p]) \cup {x}
         /\ \A q \in Profiles \ {p} : tabs'[q] = tabs[q]
  <1>1. p \in live
    BY DEF ListInv
  <1>2. x \notin Range(tabs[p])
    BY <1>1 DEF Fresh, Open
  <1> DEFINE r == Append(tabs[p], x)
  <1>3. r \in Seq(Pages) /\ IsInjective(r) /\ Range(r) = Range(tabs[p]) \cup {x}
    BY <1>2, WithOneMore DEF ListInv
  <1> HIDE DEF r
  <1>4. tabs' = [tabs EXCEPT ![p] = r]
    BY DEF r
  <1>5. QED
    BY <1>1, <1>3, <1>4 DEF ListInv

-----------------------------------------------------------------------------
\* The variables keep their types, the lists apart.
LEMMA TypesStep == TabTypes /\ ListInv /\ [TabNext]_allTabVars => TabTypes'
  <1> SUFFICES ASSUME TabTypes /\ ListInv, [TabNext]_allTabVars PROVE TabTypes'
    OBVIOUS
  <1>1. ASSUME NEW p \in Profiles, NEW x \in Pages, Launch(p, x) PROVE TabTypes'
    BY <1>1, TabsAssumption DEF TabsAssumption, Launch, callVars, TabTypes, HoldInv
  <1>2. ASSUME NEW p \in Profiles, CloseBrowser(p) PROVE TabTypes'
    BY <1>2, TabsAssumption DEF TabsAssumption, CloseBrowser, TabTypes, HoldInv
  <1>3. ASSUME NEW p \in Profiles, NEW x \in Pages, SiteOpens(p, x) PROVE TabTypes'
    BY <1>3, TabsAssumption DEF TabsAssumption, SiteOpens, callVars, TabTypes, HoldInv, ListInv
  <1>4. ASSUME NEW p \in Profiles, NEW x \in Pages, SiteCloses(p, x) PROVE TabTypes'
    BY <1>4, TabsAssumption DEF TabsAssumption, SiteCloses, callVars, TabTypes, HoldInv
  <1>5. ASSUME NEW c \in Clients, NEW p \in Profiles, NEW x \in Pages, NewTab(c, p, x) PROVE TabTypes'
    BY <1>5, TabsAssumption DEF TabsAssumption, NewTab, Call, TabTypes, HoldInv
  <1>6. ASSUME NEW c \in Clients, NEW p \in Profiles, NEW i \in DOMAIN tabs[p], SwitchTab(c, p, i) PROVE TabTypes'
    BY <1>6, TabsAssumption DEF TabsAssumption, SwitchTab, Call, tabVars, TabTypes, HoldInv, ListInv
  <1>7. ASSUME NEW c \in Clients, NEW p \in Profiles, NEW i \in DOMAIN tabs[p], PickToClose(c, p, i) PROVE TabTypes'
    BY <1>7, TabsAssumption DEF TabsAssumption, PickToClose, Call, tabVars, TabTypes, HoldInv, ListInv
  <1>8. ASSUME NEW c \in Clients, UseTab(c) PROVE TabTypes'
    BY <1>8, TabsAssumption DEF TabsAssumption, UseTab, Return, Call, TabTypes, HoldInv
  <1>9. ASSUME NEW c \in Clients, CloseTab(c) PROVE TabTypes'
    BY <1>9, TabsAssumption DEF TabsAssumption, CloseTab, TabTypes, HoldInv
  <1>10. ASSUME NEW c \in Clients, Replace(c) PROVE TabTypes'
    BY <1>10, TabsAssumption DEF TabsAssumption, Replace, Call, tabVars, TabTypes, HoldInv, ListInv, Last
  <1>11. ASSUME NEW c \in Clients, NoReplacement(c) PROVE TabTypes'
    BY <1>11, TabsAssumption DEF TabsAssumption, NoReplacement, Return, Call, tabVars, TabTypes, HoldInv
  <1>12. ASSUME NEW c \in Clients, NEW p \in Profiles, TakePage(c, p) PROVE TabTypes'
    BY <1>12, TabsAssumption DEF TabsAssumption, TakePage, Call, tabVars, TabTypes, HoldInv
  <1>13. ASSUME NEW c \in Clients, TakePageAgain(c) PROVE TabTypes'
    BY <1>13, TabsAssumption DEF TabsAssumption, TakePageAgain, Call, tabVars, TabTypes, HoldInv
  <1>14. ASSUME NEW c \in Clients, Operated(c) PROVE TabTypes'
    BY <1>14, TabsAssumption DEF TabsAssumption, Operated, Return, Call, tabVars, TabTypes, HoldInv
  <1>15. CASE UNCHANGED allTabVars
    BY <1>15 DEF allTabVars, tabVars, callVars, TabTypes, HoldInv
  <1>16. QED
    BY <1>1, <1>2, <1>3, <1>4, <1>5, <1>6, <1>7, <1>8, <1>9, <1>10, <1>11, <1>12, <1>13, <1>14, <1>15 DEF TabNext, TabCall, PageCall, SiteStep

\* Opening and closing keeps the lists in order.
LEMMA ListStep == TabTypes /\ ListInv /\ [TabNext]_allTabVars => ListInv'
  <1> SUFFICES ASSUME TabTypes /\ ListInv, [TabNext]_allTabVars PROVE ListInv'
    OBVIOUS
  <1>1. ASSUME NEW p \in Profiles, NEW x \in Pages, Launch(p, x) PROVE ListInv'
    BY <1>1, OneTab DEF Launch, callVars, ListInv
  <1>2. ASSUME NEW p \in Profiles, CloseBrowser(p) PROVE ListInv'
    BY <1>2, NoTabs DEF CloseBrowser, ListInv, TabTypes
  <1>3. ASSUME NEW p \in Profiles, NEW x \in Pages, SiteOpens(p, x) PROVE ListInv'
    BY <1>3, TabAdded DEF SiteOpens, callVars, ListInv
  <1>4. ASSUME NEW p \in Profiles, NEW x \in Pages, SiteCloses(p, x) PROVE ListInv'
    BY <1>4, TabClosed DEF SiteCloses, callVars, ListInv
  <1>5. ASSUME NEW c \in Clients, NEW p \in Profiles, NEW x \in Pages, NewTab(c, p, x) PROVE ListInv'
    BY <1>5, TabAdded DEF NewTab, Call, ListInv
  <1>6. ASSUME NEW c \in Clients, NEW p \in Profiles, NEW i \in DOMAIN tabs[p], SwitchTab(c, p, i) PROVE ListInv'
    BY <1>6 DEF SwitchTab, Call, tabVars, ListInv
  <1>7. ASSUME NEW c \in Clients, NEW p \in Profiles, NEW i \in DOMAIN tabs[p], PickToClose(c, p, i) PROVE ListInv'
    BY <1>7 DEF PickToClose, Call, tabVars, ListInv
  <1>8. ASSUME NEW c \in Clients, UseTab(c) PROVE ListInv'
    BY <1>8 DEF UseTab, Return, Call, ListInv
  <1>9. ASSUME NEW c \in Clients, CloseTab(c) PROVE ListInv'
    BY <1>9, TabClosed DEF CloseTab, ListInv, TabTypes, HoldInv
  <1>10. ASSUME NEW c \in Clients, Replace(c) PROVE ListInv'
    BY <1>10 DEF Replace, Call, tabVars, ListInv
  <1>11. ASSUME NEW c \in Clients, NoReplacement(c) PROVE ListInv'
    BY <1>11 DEF NoReplacement, Return, Call, tabVars, ListInv
  <1>12. ASSUME NEW c \in Clients, NEW p \in Profiles, TakePage(c, p) PROVE ListInv'
    BY <1>12 DEF TakePage, Call, tabVars, ListInv
  <1>13. ASSUME NEW c \in Clients, TakePageAgain(c) PROVE ListInv'
    BY <1>13 DEF TakePageAgain, Call, tabVars, ListInv
  <1>14. ASSUME NEW c \in Clients, Operated(c) PROVE ListInv'
    BY <1>14 DEF Operated, Return, Call, tabVars, ListInv
  <1>15. CASE UNCHANGED allTabVars
    BY <1>15 DEF allTabVars, tabVars, callVars, ListInv
  <1>16. QED
    BY <1>1, <1>2, <1>3, <1>4, <1>5, <1>6, <1>7, <1>8, <1>9, <1>10, <1>11, <1>12, <1>13, <1>14, <1>15 DEF TabNext, TabCall, PageCall, SiteStep

\* The active tab is open, or about to be replaced.
LEMMA ActiveStep == TabTypes /\ ListInv /\ ActiveInv /\ [TabNext]_allTabVars => ActiveInv'
  <1> SUFFICES ASSUME TabTypes /\ ListInv /\ ActiveInv, [TabNext]_allTabVars PROVE ActiveInv'
    OBVIOUS
  <1>1. ASSUME NEW p \in Profiles, NEW x \in Pages, Launch(p, x) PROVE ActiveInv'
    <2>1. p \notin live /\ live' = live \cup {p} /\ page' = [page EXCEPT ![p] = x] /\ UNCHANGED <<pc, prof, on, lost>>
      BY <1>1 DEF Launch, callVars
    <2>2. Range(tabs'[p]) = {x} /\ page'[p] = x /\ \A q \in Profiles \ {p} : tabs'[q] = tabs[q] /\ page'[q] = page[q]
      BY <1>1, OneTab DEF Launch, TabTypes, ListInv
    <2>3. \A c \in Clients : prof[c] = p => pc[c] \in {"idle", "ready"}
      BY <2>1 DEF TabTypes, HoldInv
    <2> SUFFICES ASSUME NEW q \in live' \ lost'
                 PROVE  /\ \A c \in Clients : Chooses(c, q)' => on'[c] \in Range(tabs'[q])
                        /\ \/ tabs'[q] = <<>>
                           \/ page'[q] \in Range(tabs'[q])
                           \/ \E c \in Clients : Chooses(c, q)' \/ (prof'[c] = q /\ pc'[c] = "closed" /\ on'[c] = page'[q])
      BY DEF ActiveInv, Chooses
    <2>4. CASE q = p
      BY <2>1, <2>2, <2>3, <2>4 DEF Chooses
    <2>5. CASE q # p
      BY <2>1, <2>2, <2>5 DEF ActiveInv, Chooses, TabTypes
    <2>6. QED
      BY <2>4, <2>5
  <1>2. ASSUME NEW p \in Profiles, CloseBrowser(p) PROVE ActiveInv'
    BY <1>2, TabsAssumption DEF TabsAssumption, CloseBrowser, TabTypes, HoldInv, ActiveInv, Chooses
  <1>3. ASSUME NEW p \in Profiles, NEW x \in Pages, SiteOpens(p, x) PROVE ActiveInv'
    <2>1. /\ p \in live
          /\ Range(tabs'[p]) = Range(tabs[p]) \cup {x}
          /\ \A q \in Profiles \ {p} : tabs'[q] = tabs[q]
      BY <1>3, TabAdded DEF SiteOpens
    <2>2. tabs[p] # <<>> /\ UNCHANGED <<live, page, pc, prof, on, lost>>
      BY <1>3 DEF SiteOpens, callVars
    <2>3. QED
      BY <2>1, <2>2 DEF ActiveInv, Chooses, TabTypes
  <1>4. ASSUME NEW p \in Profiles, NEW x \in Pages, SiteCloses(p, x) PROVE ActiveInv'
    <2>1. /\ Range(tabs'[p]) = Range(tabs[p]) \ {x}
          /\ tabs[p] = <<>> => tabs'[p] = <<>>
          /\ \A q \in Profiles \ {p} : tabs'[q] = tabs[q]
      BY <1>4, TabsAssumption, TabClosed DEF TabsAssumption, SiteCloses, TabTypes, HoldInv
    <2>2. UNCHANGED <<live, page, pc, prof, on>> /\ lost' = IF x = page[p] \/ Candidate(x) THEN lost \cup {p} ELSE lost
      BY <1>4 DEF SiteCloses, callVars
    <2>3. QED
      BY <2>1, <2>2 DEF ActiveInv, Chooses, Candidate, TabTypes
  <1>5. ASSUME NEW c \in Clients, NEW p \in Profiles, NEW x \in Pages, NewTab(c, p, x) PROVE ActiveInv'
    <2>1. /\ p \in live
          /\ Range(tabs'[p]) = Range(tabs[p]) \cup {x}
          /\ \A q \in Profiles \ {p} : tabs'[q] = tabs[q]
      BY <1>5, TabAdded DEF NewTab
    <2>2. \A d \in Clients \ {c} : pc'[d] = pc[d] /\ prof'[d] = prof[d] /\ on'[d] = on[d]
      BY <1>5 DEF NewTab, Call, TabTypes
    <2>3. pc[c] = "idle" /\ pc'[c] = "opened" /\ prof'[c] = p /\ on'[c] = x /\ UNCHANGED <<live, page, lost>>
      BY <1>5 DEF NewTab, Call, TabTypes
    <2>4. QED
      BY <2>1, <2>2, <2>3 DEF ActiveInv, Chooses, TabTypes
  <1>6. ASSUME NEW c \in Clients, NEW p \in Profiles, NEW i \in DOMAIN tabs[p], SwitchTab(c, p, i) PROVE ActiveInv'
    BY <1>6, TabsAssumption, SMTT(60) DEF TabsAssumption, SwitchTab, Call, tabVars, TabTypes, HoldInv, ActiveInv, Chooses, ListInv, Range
  <1>7. ASSUME NEW c \in Clients, NEW p \in Profiles, NEW i \in DOMAIN tabs[p], PickToClose(c, p, i) PROVE ActiveInv'
    BY <1>7, TabsAssumption DEF TabsAssumption, PickToClose, Call, tabVars, TabTypes, HoldInv, ActiveInv, Chooses, ListInv
  <1>8. ASSUME NEW c \in Clients, UseTab(c) PROVE ActiveInv'
    BY <1>8, TabsAssumption DEF TabsAssumption, UseTab, Return, Call, TabTypes, HoldInv, ActiveInv, Chooses
  <1>9. ASSUME NEW c \in Clients, CloseTab(c) PROVE ActiveInv'
    <2>1. /\ Range(tabs'[prof[c]]) = Range(tabs[prof[c]]) \ {on[c]}
          /\ tabs[prof[c]] = <<>> => tabs'[prof[c]] = <<>>
          /\ \A q \in Profiles \ {prof[c]} : tabs'[q] = tabs[q]
      BY <1>9, TabsAssumption, TabClosed DEF TabsAssumption, CloseTab, TabTypes, HoldInv
    <2>2. UNCHANGED <<live, page, prof, on>> /\ lost' = IF Candidate(on[c]) THEN lost \cup {prof[c]} ELSE lost
      BY <1>9 DEF CloseTab
    <2>3. pc[c] = "close" /\ pc'[c] = "closed" /\ \A d \in Clients \ {c} : pc'[d] = pc[d]
      BY <1>9 DEF CloseTab, TabTypes
    <2>4. QED
      BY <2>1, <2>2, <2>3 DEF ActiveInv, Chooses, Candidate, TabTypes
  <1>10. ASSUME NEW c \in Clients, Replace(c) PROVE ActiveInv'
    BY <1>10, TabsAssumption DEF TabsAssumption, Replace, Call, tabVars, TabTypes, HoldInv, ActiveInv, Chooses, ListInv, Last, Range
  <1>11. ASSUME NEW c \in Clients, NoReplacement(c) PROVE ActiveInv'
    BY <1>11, TabsAssumption DEF TabsAssumption, NoReplacement, Return, Call, tabVars, TabTypes, HoldInv, ActiveInv, Chooses
  <1>12. ASSUME NEW c \in Clients, NEW p \in Profiles, TakePage(c, p) PROVE ActiveInv'
    BY <1>12, TabsAssumption DEF TabsAssumption, TakePage, Call, tabVars, TabTypes, HoldInv, ActiveInv, Chooses
  <1>13. ASSUME NEW c \in Clients, TakePageAgain(c) PROVE ActiveInv'
    BY <1>13, TabsAssumption DEF TabsAssumption, TakePageAgain, Call, tabVars, TabTypes, HoldInv, ActiveInv, Chooses
  <1>14. ASSUME NEW c \in Clients, Operated(c) PROVE ActiveInv'
    BY <1>14, TabsAssumption DEF TabsAssumption, Operated, Return, Call, tabVars, TabTypes, HoldInv, ActiveInv, Chooses
  <1>15. CASE UNCHANGED allTabVars
    BY <1>15 DEF allTabVars, tabVars, callVars, TabTypes, HoldInv, ActiveInv, Chooses
  <1>16. QED
    BY <1>1, <1>2, <1>3, <1>4, <1>5, <1>6, <1>7, <1>8, <1>9, <1>10, <1>11, <1>12, <1>13, <1>14, <1>15 DEF TabNext, TabCall, PageCall, SiteStep
-----------------------------------------------------------------------------
TabInv == TabTypes /\ ListInv /\ ActiveInv

LEMMA TabStep == TabInv /\ [TabNext]_allTabVars => TabInv'
  BY TypesStep, ListStep, ActiveStep DEF TabInv

LEMMA ActiveIsOpen == TabInv => TabTypeOK /\ PageIsOpen
  <1>1. TabInv => TabTypeOK
    BY TypeParts DEF TabInv
  <1>2. TabInv => PageIsOpen
    BY DEF TabInv, TabTypes, ActiveInv, Chooses, PageIsOpen
  <1>3. QED
    BY <1>1, <1>2

-----------------------------------------------------------------------------
\* The handler of the engine's request holds a page only while the engine waits for it.
HandlerInv ==
  /\ pc[Engine] \in {"idle", "ready"}
  /\ pc[Engine] = "ready" => at = "wait" /\ action = "page" /\ answer = "none" /\ prof[Engine] = target

\* There is an answer where one is looked at, and nowhere else.
AnswerInv ==
  /\ at = "served" <=> answer # "none"
  /\ at \in {"wait", "served"} /\ action = "create" =>
       target \in Vars /\ answer \in Profiles \cup {"none", "error"}

\* A name is used as it stands only while it has no value.
NameInv ==
  at \in {"wait", "served"} /\ action # "create" /\ target \in Vars => vars[target] = NoProfile

\* Without an excuse, the browsers the run has opened are there, with their active tab,
\* a page operation in one of them has an open tab, and a failure has its cause.
CauseInv ==
  ~excuse =>
    /\ \A p \in opened : p \in live /\ page[p] \in Range(tabs[p])
    /\ pc[Engine] = "ready" /\ target \in opened => Open(on[Engine])
    /\ at = "served" /\ answer = "error" =>
         \/ action = "open" /\ target \notin exists
         \/ action \in {"page", "close"} /\ target \notin opened

LEMMA RunInit ==
  Init => RunTypeOK /\ HandlerInv /\ AnswerInv /\ NameInv /\ CreatedIsReported /\ CauseInv
  <1> SUFFICES ASSUME Init
               PROVE  RunTypeOK /\ HandlerInv /\ AnswerInv /\ NameInv /\ CreatedIsReported /\ CauseInv
    OBVIOUS
  <1>1. RunTypeOK
    <2>1. vars \in [Vars -> Profiles \cup {NoProfile}] /\ tries \in 0..MaxTries
      BY WorkflowAssumption DEF WorkflowAssumption, Init
    <2>2. exists \in SUBSET Profiles /\ made \in SUBSET Profiles /\ opened \in SUBSET Profiles /\ excuse \in BOOLEAN
      BY DEF Init
    <2>3. QED
      BY <2>1, <2>2 DEF Init, RunTypeOK
  <1>2. HandlerInv
    BY WorkflowAssumption DEF WorkflowAssumption, Init, TabInit, HandlerInv
  <1>3. AnswerInv /\ NameInv /\ CreatedIsReported
    BY DEF Init, AnswerInv, NameInv, CreatedIsReported
  <1>4. CauseInv
    BY <1>2 DEF Init, HandlerInv, CauseInv
  <1>5. QED
    BY <1>1, <1>2, <1>3, <1>4

-----------------------------------------------------------------------------
\* The run and the others do to the tabs what anybody may do.
LEMMA OnlyTabSteps == RunTypeOK /\ TabTypes /\ [Next]_allVars => [TabNext]_allTabVars
  <1> SUFFICES ASSUME RunTypeOK, TabTypes, [Next]_allVars PROVE [TabNext]_allTabVars
    OBVIOUS
  <1>1. ASSUME Execute PROVE [TabNext]_allTabVars
    BY <1>1 DEF Execute
  <1>2. ASSUME EndOfSteps PROVE [TabNext]_allTabVars
    BY <1>2 DEF EndOfSteps
  <1>3. ASSUME NEW a \in Actions, NEW n \in Names, NEW k \in 1..MaxTries, NextStep(a, n, k) PROVE [TabNext]_allTabVars
    BY <1>3 DEF NextStep
  <1>4. ASSUME NEW q \in Profiles, ServeCreate(q) PROVE [TabNext]_allTabVars
    BY <1>4 DEF ServeCreate, CreateProfile
  <1>5. ASSUME ServeOpen PROVE [TabNext]_allTabVars
    BY <1>5 DEF ServeOpen, OpenBrowser, RunTypeOK, TabNext
  <1>6. ASSUME ServeClose PROVE [TabNext]_allTabVars
    BY <1>6 DEF ServeClose, DeleteSession, CloseBrowser, TabTypes, TabNext
  <1>7. ASSUME ServePage PROVE [TabNext]_allTabVars
    BY <1>7, WorkflowAssumption DEF WorkflowAssumption, ServePage, TakePage, TabTypes, TabNext, PageCall
  <1>8. ASSUME PageServed PROVE [TabNext]_allTabVars
    BY <1>8, WorkflowAssumption DEF WorkflowAssumption, PageServed, TabNext, PageCall
  <1>9. ASSUME NotFound PROVE [TabNext]_allTabVars
    BY <1>9 DEF NotFound
  <1>10. ASSUME Refused PROVE [TabNext]_allTabVars
    BY <1>10, WorkflowAssumption DEF WorkflowAssumption, Refused, TabNext, PageCall
  <1>11. ASSUME ConnectionBreaks PROVE [TabNext]_allTabVars
    BY <1>11 DEF ConnectionBreaks
  <1>12. ASSUME AnswerLost PROVE [TabNext]_allTabVars
    BY <1>12 DEF AnswerLost
  <1>13. ASSUME Succeeded PROVE [TabNext]_allTabVars
    BY <1>13 DEF Succeeded
  <1>14. ASSUME TryAgain PROVE [TabNext]_allTabVars
    BY <1>14 DEF TryAgain
  <1>15. ASSUME Failed PROVE [TabNext]_allTabVars
    BY <1>15 DEF Failed
  <1>16. ASSUME Others PROVE [TabNext]_allTabVars
    BY <1>16 DEF Others, CreateProfile, RunTypeOK, TabTypes, TabNext
  <1>17. CASE UNCHANGED allVars
    BY <1>17 DEF allVars
  <1>18. QED
    BY <1>1, <1>2, <1>3, <1>4, <1>5, <1>6, <1>7, <1>8, <1>9, <1>10, <1>11, <1>12, <1>13, <1>14, <1>15, <1>16, <1>17 DEF Next

\* Nobody else touches what the handler of the engine holds, unless its browser is closed.
LEMMA OthersLeaveEngine ==
  ASSUME TabTypes, pc[Engine] \in {"idle", "ready"}, Others
  PROVE  /\ pc'[Engine] = pc[Engine]
         /\ pc[Engine] = "ready" => prof'[Engine] = prof[Engine]
         /\ pc[Engine] = "ready" => on'[Engine] = on[Engine] \/ prof[Engine] \notin live'
  <1>1. Engine \in Clients
    BY WorkflowAssumption DEF WorkflowAssumption
  <1>2. ASSUME UNCHANGED <<pc, prof, on>>
        PROVE  pc'[Engine] = pc[Engine] /\ prof'[Engine] = prof[Engine] /\ on'[Engine] = on[Engine]
    BY <1>2
  <1>3. ASSUME NEW c \in Clients \ {Engine}, TabCall(c)
        PROVE  pc'[Engine] = pc[Engine] /\ prof'[Engine] = prof[Engine] /\ on'[Engine] = on[Engine]
    BY <1>1, <1>3 DEF TabTypes, TabCall, NewTab, SwitchTab, PickToClose, UseTab, CloseTab, Replace, NoReplacement, Return, Call
  <1>4. ASSUME NEW c \in Clients \ {Engine}, PageCall(c)
        PROVE  pc'[Engine] = pc[Engine] /\ prof'[Engine] = prof[Engine] /\ on'[Engine] = on[Engine]
    BY <1>1, <1>4 DEF TabTypes, PageCall, TakePage, TakePageAgain, Operated, Return, Call
  <1>5. ASSUME NEW p \in live, CloseBrowser(p)
        PROVE  /\ pc'[Engine] = pc[Engine]
               /\ pc[Engine] = "ready" => prof'[Engine] = prof[Engine]
               /\ pc[Engine] = "ready" => on'[Engine] = on[Engine] \/ prof[Engine] \notin live'
    BY <1>1, <1>5 DEF CloseBrowser
  <1>6. ASSUME SiteStep \/ (\E p \in exists, x \in Pages : Launch(p, x)) \/ UNCHANGED allTabVars
        PROVE  UNCHANGED <<pc, prof, on>>
    BY <1>6 DEF SiteStep, SiteOpens, SiteCloses, Launch, allTabVars, callVars
  <1>7. QED
    BY <1>2, <1>3, <1>4, <1>5, <1>6 DEF Others, CreateProfile

\* The variables of the run keep their types.
LEMMA RunTypeStep == RunTypeOK /\ AnswerInv /\ [Next]_allVars => RunTypeOK'
  <1> SUFFICES ASSUME RunTypeOK /\ AnswerInv, [Next]_allVars PROVE RunTypeOK'
    OBVIOUS
  <1>1. ASSUME Execute PROVE RunTypeOK'
    BY <1>1, WorkflowAssumption, TabsAssumption DEF WorkflowAssumption, TabsAssumption, Execute, Record, RunTypeOK, AnswerInv, Names
  <1>2. ASSUME EndOfSteps PROVE RunTypeOK'
    BY <1>2, WorkflowAssumption, TabsAssumption DEF WorkflowAssumption, TabsAssumption, EndOfSteps, EndStep, histVars, RunTypeOK, AnswerInv, Names
  <1>3. ASSUME NEW a \in Actions, NEW n \in Names, NEW k \in 1..MaxTries, NextStep(a, n, k) PROVE RunTypeOK'
    BY <1>3, WorkflowAssumption, TabsAssumption DEF WorkflowAssumption, TabsAssumption, NextStep, Resolve, histVars, RunTypeOK, AnswerInv, Names, Actions
  <1>4. ASSUME NEW q \in Profiles, ServeCreate(q) PROVE RunTypeOK'
    BY <1>4, WorkflowAssumption, TabsAssumption DEF WorkflowAssumption, TabsAssumption, ServeCreate, Waiting, CreateProfile, NewProfile, Answer, Record, RunTypeOK, AnswerInv, Names, Actions
  <1>5. ASSUME ServeOpen PROVE RunTypeOK'
    BY <1>5, WorkflowAssumption, TabsAssumption DEF WorkflowAssumption, TabsAssumption, ServeOpen, Waiting, OpenBrowser, Answer, Record, RunTypeOK, AnswerInv, Names
  <1>6. ASSUME ServeClose PROVE RunTypeOK'
    BY <1>6, WorkflowAssumption, TabsAssumption DEF WorkflowAssumption, TabsAssumption, ServeClose, Waiting, DeleteSession, Answer, Record, RunTypeOK, AnswerInv, Names
  <1>7. ASSUME ServePage PROVE RunTypeOK'
    BY <1>7, WorkflowAssumption, TabsAssumption DEF WorkflowAssumption, TabsAssumption, ServePage, Waiting, runVars, stepVars, histVars, RunTypeOK, AnswerInv, Names
  <1>8. ASSUME PageServed PROVE RunTypeOK'
    BY <1>8, WorkflowAssumption, TabsAssumption DEF WorkflowAssumption, TabsAssumption, PageServed, Waiting, Answer, histVars, RunTypeOK, AnswerInv, Names
  <1>9. ASSUME NotFound PROVE RunTypeOK'
    BY <1>9, WorkflowAssumption, TabsAssumption DEF WorkflowAssumption, TabsAssumption, NotFound, Answer, histVars, RunTypeOK, AnswerInv, Names
  <1>10. ASSUME Refused PROVE RunTypeOK'
    BY <1>10, WorkflowAssumption, TabsAssumption DEF WorkflowAssumption, TabsAssumption, Refused, Answer, Record, RunTypeOK, AnswerInv, Names
  <1>11. ASSUME ConnectionBreaks PROVE RunTypeOK'
    BY <1>11, WorkflowAssumption, TabsAssumption DEF WorkflowAssumption, TabsAssumption, ConnectionBreaks, Answer, Record, RunTypeOK, AnswerInv, Names
  <1>12. ASSUME AnswerLost PROVE RunTypeOK'
    BY <1>12, WorkflowAssumption, TabsAssumption DEF WorkflowAssumption, TabsAssumption, AnswerLost, Record, stepVars, RunTypeOK, AnswerInv, Names
  <1>13. ASSUME Succeeded PROVE RunTypeOK'
    BY <1>13, WorkflowAssumption, TabsAssumption DEF WorkflowAssumption, TabsAssumption, Succeeded, EndStep, Record, RunTypeOK, AnswerInv, Names
  <1>14. ASSUME TryAgain PROVE RunTypeOK'
    BY <1>14, WorkflowAssumption, TabsAssumption DEF WorkflowAssumption, TabsAssumption, TryAgain, histVars, RunTypeOK, AnswerInv, Names
  <1>15. ASSUME Failed PROVE RunTypeOK'
    BY <1>15, WorkflowAssumption, TabsAssumption DEF WorkflowAssumption, TabsAssumption, Failed, EndStep, histVars, RunTypeOK, AnswerInv, Names
  <1>16. ASSUME Others PROVE RunTypeOK'
    BY <1>16, WorkflowAssumption, TabsAssumption DEF WorkflowAssumption, TabsAssumption, Others, Record, runVars, stepVars, RunTypeOK, AnswerInv, Names, CreateProfile, Launch, CloseBrowser
  <1>17. CASE UNCHANGED allVars
    BY <1>17 DEF allVars, allTabVars, tabVars, callVars, runVars, stepVars, histVars, RunTypeOK, AnswerInv, Names
  <1>18. QED
    BY <1>1, <1>2, <1>3, <1>4, <1>5, <1>6, <1>7, <1>8, <1>9, <1>10, <1>11, <1>12, <1>13, <1>14, <1>15, <1>16, <1>17 DEF Next

\* The engine's handler takes a page when asked for a page operation, and returns.
LEMMA HandlerStep == RunTypeOK /\ TabTypes /\ HandlerInv /\ [Next]_allVars => HandlerInv'
  <1> SUFFICES ASSUME RunTypeOK /\ TabTypes /\ HandlerInv, [Next]_allVars PROVE HandlerInv'
    OBVIOUS
  <1>1. ASSUME Execute PROVE HandlerInv'
    BY <1>1, WorkflowAssumption DEF WorkflowAssumption, Execute, Record, RunTypeOK, TabTypes, HandlerInv, allTabVars, tabVars, callVars
  <1>2. ASSUME EndOfSteps PROVE HandlerInv'
    BY <1>2, WorkflowAssumption DEF WorkflowAssumption, EndOfSteps, EndStep, histVars, RunTypeOK, TabTypes, HandlerInv, allTabVars, tabVars, callVars
  <1>3. ASSUME NEW a \in Actions, NEW n \in Names, NEW k \in 1..MaxTries, NextStep(a, n, k) PROVE HandlerInv'
    BY <1>3, WorkflowAssumption DEF WorkflowAssumption, NextStep, Resolve, histVars, RunTypeOK, TabTypes, HandlerInv, allTabVars, tabVars, callVars
  <1>4. ASSUME NEW q \in Profiles, ServeCreate(q) PROVE HandlerInv'
    BY <1>4, WorkflowAssumption DEF WorkflowAssumption, ServeCreate, Waiting, CreateProfile, NewProfile, Answer, Record, RunTypeOK, TabTypes, HandlerInv, allTabVars, tabVars, callVars
  <1>5. ASSUME ServeOpen PROVE HandlerInv'
    BY <1>5, WorkflowAssumption DEF WorkflowAssumption, ServeOpen, Waiting, OpenBrowser, Answer, Record, RunTypeOK, TabTypes, HandlerInv, allTabVars, tabVars, callVars, Launch
  <1>6. ASSUME ServeClose PROVE HandlerInv'
    BY <1>6, WorkflowAssumption DEF WorkflowAssumption, ServeClose, Waiting, DeleteSession, Answer, Record, RunTypeOK, TabTypes, HandlerInv, allTabVars, tabVars, callVars, CloseBrowser
  <1>7. ASSUME ServePage PROVE HandlerInv'
    BY <1>7, WorkflowAssumption DEF WorkflowAssumption, ServePage, Waiting, runVars, stepVars, histVars, RunTypeOK, TabTypes, HandlerInv, allTabVars, tabVars, callVars, TakePage, Call
  <1>8. ASSUME PageServed PROVE HandlerInv'
    BY <1>8, WorkflowAssumption DEF WorkflowAssumption, PageServed, Waiting, Answer, histVars, RunTypeOK, TabTypes, HandlerInv, allTabVars, tabVars, callVars, Operated, Return, Call
  <1>9. ASSUME NotFound PROVE HandlerInv'
    BY <1>9, WorkflowAssumption DEF WorkflowAssumption, NotFound, Answer, histVars, RunTypeOK, TabTypes, HandlerInv, allTabVars, tabVars, callVars
  <1>10. ASSUME Refused PROVE HandlerInv'
    BY <1>10, WorkflowAssumption DEF WorkflowAssumption, Refused, Answer, Record, RunTypeOK, TabTypes, HandlerInv, allTabVars, tabVars, callVars, Operated, Return, Call
  <1>11. ASSUME ConnectionBreaks PROVE HandlerInv'
    BY <1>11, WorkflowAssumption DEF WorkflowAssumption, ConnectionBreaks, Answer, Record, RunTypeOK, TabTypes, HandlerInv, allTabVars, tabVars, callVars
  <1>12. ASSUME AnswerLost PROVE HandlerInv'
    BY <1>12, WorkflowAssumption DEF WorkflowAssumption, AnswerLost, Record, stepVars, RunTypeOK, TabTypes, HandlerInv, allTabVars, tabVars, callVars
  <1>13. ASSUME Succeeded PROVE HandlerInv'
    BY <1>13, WorkflowAssumption DEF WorkflowAssumption, Succeeded, EndStep, Record, RunTypeOK, TabTypes, HandlerInv, allTabVars, tabVars, callVars
  <1>14. ASSUME TryAgain PROVE HandlerInv'
    BY <1>14, WorkflowAssumption DEF WorkflowAssumption, TryAgain, histVars, RunTypeOK, TabTypes, HandlerInv, allTabVars, tabVars, callVars
  <1>15. ASSUME Failed PROVE HandlerInv'
    BY <1>15, WorkflowAssumption DEF WorkflowAssumption, Failed, EndStep, histVars, RunTypeOK, TabTypes, HandlerInv, allTabVars, tabVars, callVars
  <1>16. ASSUME Others PROVE HandlerInv'
    <2>1. pc'[Engine] = pc[Engine] /\ (pc[Engine] = "ready" => prof'[Engine] = prof[Engine])
      BY <1>16, OthersLeaveEngine DEF HandlerInv
    <2>2. QED
      BY <1>16, <2>1 DEF Others, runVars, stepVars, HandlerInv
  <1>17. CASE UNCHANGED allVars
    BY <1>17 DEF allVars, allTabVars, tabVars, callVars, runVars, stepVars, histVars, RunTypeOK, TabTypes, HandlerInv, allTabVars, tabVars, callVars
  <1>18. QED
    BY <1>1, <1>2, <1>3, <1>4, <1>5, <1>6, <1>7, <1>8, <1>9, <1>10, <1>11, <1>12, <1>13, <1>14, <1>15, <1>16, <1>17 DEF Next

\* Answers come and go with the steps.
LEMMA AnswerStep == RunTypeOK /\ AnswerInv /\ [Next]_allVars => AnswerInv'
  <1> SUFFICES ASSUME RunTypeOK /\ AnswerInv, [Next]_allVars PROVE AnswerInv'
    OBVIOUS
  <1>1. ASSUME Execute PROVE AnswerInv'
    BY <1>1, WorkflowAssumption DEF WorkflowAssumption, Execute, Record, RunTypeOK, AnswerInv
  <1>2. ASSUME EndOfSteps PROVE AnswerInv'
    BY <1>2, WorkflowAssumption DEF WorkflowAssumption, EndOfSteps, EndStep, histVars, RunTypeOK, AnswerInv
  <1>3. ASSUME NEW a \in Actions, NEW n \in Names, NEW k \in 1..MaxTries, NextStep(a, n, k) PROVE AnswerInv'
    BY <1>3, WorkflowAssumption DEF WorkflowAssumption, NextStep, Resolve, histVars, RunTypeOK, AnswerInv
  <1>4. ASSUME NEW q \in Profiles, ServeCreate(q) PROVE AnswerInv'
    BY <1>4, WorkflowAssumption DEF WorkflowAssumption, ServeCreate, Waiting, CreateProfile, NewProfile, Answer, Record, RunTypeOK, AnswerInv
  <1>5. ASSUME ServeOpen PROVE AnswerInv'
    BY <1>5, WorkflowAssumption DEF WorkflowAssumption, ServeOpen, Waiting, OpenBrowser, Answer, Record, RunTypeOK, AnswerInv
  <1>6. ASSUME ServeClose PROVE AnswerInv'
    BY <1>6, WorkflowAssumption DEF WorkflowAssumption, ServeClose, Waiting, DeleteSession, Answer, Record, RunTypeOK, AnswerInv
  <1>7. ASSUME ServePage PROVE AnswerInv'
    BY <1>7, WorkflowAssumption DEF WorkflowAssumption, ServePage, Waiting, runVars, stepVars, histVars, RunTypeOK, AnswerInv
  <1>8. ASSUME PageServed PROVE AnswerInv'
    BY <1>8, WorkflowAssumption DEF WorkflowAssumption, PageServed, Waiting, Answer, histVars, RunTypeOK, AnswerInv
  <1>9. ASSUME NotFound PROVE AnswerInv'
    BY <1>9, WorkflowAssumption DEF WorkflowAssumption, NotFound, Answer, histVars, RunTypeOK, AnswerInv
  <1>10. ASSUME Refused PROVE AnswerInv'
    BY <1>10, WorkflowAssumption DEF WorkflowAssumption, Refused, Answer, Record, RunTypeOK, AnswerInv
  <1>11. ASSUME ConnectionBreaks PROVE AnswerInv'
    BY <1>11, WorkflowAssumption DEF WorkflowAssumption, ConnectionBreaks, Answer, Record, RunTypeOK, AnswerInv
  <1>12. ASSUME AnswerLost PROVE AnswerInv'
    BY <1>12, WorkflowAssumption DEF WorkflowAssumption, AnswerLost, Record, stepVars, RunTypeOK, AnswerInv
  <1>13. ASSUME Succeeded PROVE AnswerInv'
    BY <1>13, WorkflowAssumption DEF WorkflowAssumption, Succeeded, EndStep, Record, RunTypeOK, AnswerInv
  <1>14. ASSUME TryAgain PROVE AnswerInv'
    BY <1>14, WorkflowAssumption DEF WorkflowAssumption, TryAgain, histVars, RunTypeOK, AnswerInv
  <1>15. ASSUME Failed PROVE AnswerInv'
    BY <1>15, WorkflowAssumption DEF WorkflowAssumption, Failed, EndStep, histVars, RunTypeOK, AnswerInv
  <1>16. ASSUME Others PROVE AnswerInv'
    BY <1>16, WorkflowAssumption DEF WorkflowAssumption, Others, Record, runVars, stepVars, RunTypeOK, AnswerInv
  <1>17. CASE UNCHANGED allVars
    BY <1>17 DEF allVars, allTabVars, tabVars, callVars, runVars, stepVars, histVars, RunTypeOK, AnswerInv
  <1>18. QED
    BY <1>1, <1>2, <1>3, <1>4, <1>5, <1>6, <1>7, <1>8, <1>9, <1>10, <1>11, <1>12, <1>13, <1>14, <1>15, <1>16, <1>17 DEF Next

\* Names are resolved before they are used.
LEMMA NameStep == RunTypeOK /\ NameInv /\ [Next]_allVars => NameInv'
  <1> SUFFICES ASSUME RunTypeOK /\ NameInv, [Next]_allVars PROVE NameInv'
    OBVIOUS
  <1>1. ASSUME Execute PROVE NameInv'
    BY <1>1, WorkflowAssumption DEF WorkflowAssumption, Execute, Record, RunTypeOK, NameInv, Names, Actions
  <1>2. ASSUME EndOfSteps PROVE NameInv'
    BY <1>2, WorkflowAssumption DEF WorkflowAssumption, EndOfSteps, EndStep, histVars, RunTypeOK, NameInv, Names, Actions
  <1>3. ASSUME NEW a \in Actions, NEW n \in Names, NEW k \in 1..MaxTries, NextStep(a, n, k) PROVE NameInv'
    BY <1>3, WorkflowAssumption DEF WorkflowAssumption, NextStep, Resolve, histVars, RunTypeOK, NameInv, Names, Actions
  <1>4. ASSUME NEW q \in Profiles, ServeCreate(q) PROVE NameInv'
    BY <1>4, WorkflowAssumption DEF WorkflowAssumption, ServeCreate, Waiting, CreateProfile, NewProfile, Answer, Record, RunTypeOK, NameInv, Names, Actions
  <1>5. ASSUME ServeOpen PROVE NameInv'
    BY <1>5, WorkflowAssumption DEF WorkflowAssumption, ServeOpen, Waiting, OpenBrowser, Answer, Record, RunTypeOK, NameInv, Names, Actions
  <1>6. ASSUME ServeClose PROVE NameInv'
    BY <1>6, WorkflowAssumption DEF WorkflowAssumption, ServeClose, Waiting, DeleteSession, Answer, Record, RunTypeOK, NameInv, Names, Actions
  <1>7. ASSUME ServePage PROVE NameInv'
    BY <1>7, WorkflowAssumption DEF WorkflowAssumption, ServePage, Waiting, runVars, stepVars, histVars, RunTypeOK, NameInv, Names, Actions
  <1>8. ASSUME PageServed PROVE NameInv'
    BY <1>8, WorkflowAssumption DEF WorkflowAssumption, PageServed, Waiting, Answer, histVars, RunTypeOK, NameInv, Names, Actions
  <1>9. ASSUME NotFound PROVE NameInv'
    BY <1>9, WorkflowAssumption DEF WorkflowAssumption, NotFound, Answer, histVars, RunTypeOK, NameInv, Names, Actions
  <1>10. ASSUME Refused PROVE NameInv'
    BY <1>10, WorkflowAssumption DEF WorkflowAssumption, Refused, Answer, Record, RunTypeOK, NameInv, Names, Actions
  <1>11. ASSUME ConnectionBreaks PROVE NameInv'
    BY <1>11, WorkflowAssumption DEF WorkflowAssumption, ConnectionBreaks, Answer, Record, RunTypeOK, NameInv, Names, Actions
  <1>12. ASSUME AnswerLost PROVE NameInv'
    BY <1>12, WorkflowAssumption DEF WorkflowAssumption, AnswerLost, Record, stepVars, RunTypeOK, NameInv, Names, Actions
  <1>13. ASSUME Succeeded PROVE NameInv'
    BY <1>13, WorkflowAssumption DEF WorkflowAssumption, Succeeded, EndStep, Record, RunTypeOK, NameInv, Names, Actions
  <1>14. ASSUME TryAgain PROVE NameInv'
    BY <1>14, WorkflowAssumption DEF WorkflowAssumption, TryAgain, histVars, RunTypeOK, NameInv, Names, Actions
  <1>15. ASSUME Failed PROVE NameInv'
    BY <1>15, WorkflowAssumption DEF WorkflowAssumption, Failed, EndStep, histVars, RunTypeOK, NameInv, Names, Actions
  <1>16. ASSUME Others PROVE NameInv'
    BY <1>16, WorkflowAssumption DEF WorkflowAssumption, Others, Record, runVars, stepVars, RunTypeOK, NameInv, Names, Actions
  <1>17. CASE UNCHANGED allVars
    BY <1>17 DEF allVars, allTabVars, tabVars, callVars, runVars, stepVars, histVars, RunTypeOK, NameInv, Names, Actions
  <1>18. QED
    BY <1>1, <1>2, <1>3, <1>4, <1>5, <1>6, <1>7, <1>8, <1>9, <1>10, <1>11, <1>12, <1>13, <1>14, <1>15, <1>16, <1>17 DEF Next

\* A profile is created at most once per attempt, and its answer looked at.
LEMMA ReportStep == RunTypeOK /\ AnswerInv /\ CreatedIsReported /\ [Next]_allVars => CreatedIsReported'
  <1> SUFFICES ASSUME RunTypeOK /\ AnswerInv /\ CreatedIsReported, [Next]_allVars PROVE CreatedIsReported'
    OBVIOUS
  <1>1. ASSUME Execute PROVE CreatedIsReported'
    BY <1>1, WorkflowAssumption DEF WorkflowAssumption, Execute, Record, RunTypeOK, AnswerInv, CreatedIsReported
  <1>2. ASSUME EndOfSteps PROVE CreatedIsReported'
    BY <1>2, WorkflowAssumption DEF WorkflowAssumption, EndOfSteps, EndStep, histVars, RunTypeOK, AnswerInv, CreatedIsReported
  <1>3. ASSUME NEW a \in Actions, NEW n \in Names, NEW k \in 1..MaxTries, NextStep(a, n, k) PROVE CreatedIsReported'
    BY <1>3, WorkflowAssumption DEF WorkflowAssumption, NextStep, Resolve, histVars, RunTypeOK, AnswerInv, CreatedIsReported
  <1>4. ASSUME NEW q \in Profiles, ServeCreate(q) PROVE CreatedIsReported'
    BY <1>4, WorkflowAssumption DEF WorkflowAssumption, ServeCreate, Waiting, CreateProfile, NewProfile, Answer, Record, RunTypeOK, AnswerInv, CreatedIsReported
  <1>5. ASSUME ServeOpen PROVE CreatedIsReported'
    BY <1>5, WorkflowAssumption DEF WorkflowAssumption, ServeOpen, Waiting, OpenBrowser, Answer, Record, RunTypeOK, AnswerInv, CreatedIsReported
  <1>6. ASSUME ServeClose PROVE CreatedIsReported'
    BY <1>6, WorkflowAssumption DEF WorkflowAssumption, ServeClose, Waiting, DeleteSession, Answer, Record, RunTypeOK, AnswerInv, CreatedIsReported
  <1>7. ASSUME ServePage PROVE CreatedIsReported'
    BY <1>7, WorkflowAssumption DEF WorkflowAssumption, ServePage, Waiting, runVars, stepVars, histVars, RunTypeOK, AnswerInv, CreatedIsReported
  <1>8. ASSUME PageServed PROVE CreatedIsReported'
    BY <1>8, WorkflowAssumption DEF WorkflowAssumption, PageServed, Waiting, Answer, histVars, RunTypeOK, AnswerInv, CreatedIsReported
  <1>9. ASSUME NotFound PROVE CreatedIsReported'
    BY <1>9, WorkflowAssumption DEF WorkflowAssumption, NotFound, Answer, histVars, RunTypeOK, AnswerInv, CreatedIsReported
  <1>10. ASSUME Refused PROVE CreatedIsReported'
    BY <1>10, WorkflowAssumption DEF WorkflowAssumption, Refused, Answer, Record, RunTypeOK, AnswerInv, CreatedIsReported
  <1>11. ASSUME ConnectionBreaks PROVE CreatedIsReported'
    BY <1>11, WorkflowAssumption DEF WorkflowAssumption, ConnectionBreaks, Answer, Record, RunTypeOK, AnswerInv, CreatedIsReported
  <1>12. ASSUME AnswerLost PROVE CreatedIsReported'
    BY <1>12, WorkflowAssumption DEF WorkflowAssumption, AnswerLost, Record, stepVars, RunTypeOK, AnswerInv, CreatedIsReported
  <1>13. ASSUME Succeeded PROVE CreatedIsReported'
    BY <1>13, WorkflowAssumption DEF WorkflowAssumption, Succeeded, EndStep, Record, RunTypeOK, AnswerInv, CreatedIsReported
  <1>14. ASSUME TryAgain PROVE CreatedIsReported'
    BY <1>14, WorkflowAssumption DEF WorkflowAssumption, TryAgain, histVars, RunTypeOK, AnswerInv, CreatedIsReported
  <1>15. ASSUME Failed PROVE CreatedIsReported'
    BY <1>15, WorkflowAssumption DEF WorkflowAssumption, Failed, EndStep, histVars, RunTypeOK, AnswerInv, CreatedIsReported
  <1>16. ASSUME Others PROVE CreatedIsReported'
    BY <1>16, WorkflowAssumption DEF WorkflowAssumption, Others, Record, runVars, stepVars, RunTypeOK, AnswerInv, CreatedIsReported
  <1>17. CASE UNCHANGED allVars
    BY <1>17 DEF allVars, allTabVars, tabVars, callVars, runVars, stepVars, histVars, RunTypeOK, AnswerInv, CreatedIsReported
  <1>18. QED
    BY <1>1, <1>2, <1>3, <1>4, <1>5, <1>6, <1>7, <1>8, <1>9, <1>10, <1>11, <1>12, <1>13, <1>14, <1>15, <1>16, <1>17 DEF Next

\* What fails without an excuse had to fail.
LEMMA CauseStep == RunTypeOK /\ TabTypes /\ ListInv /\ HandlerInv /\ AnswerInv /\ CauseInv /\ [Next]_allVars => CauseInv'
  <1> SUFFICES ASSUME RunTypeOK /\ TabTypes /\ ListInv /\ HandlerInv /\ AnswerInv /\ CauseInv, [Next]_allVars PROVE CauseInv'
    OBVIOUS
  <1>1. ASSUME Execute PROVE CauseInv'
    BY <1>1, WorkflowAssumption DEF WorkflowAssumption, Execute, Record, RunTypeOK, TabTypes, HandlerInv, AnswerInv, CauseInv, Open, allTabVars, tabVars, callVars
  <1>2. ASSUME EndOfSteps PROVE CauseInv'
    BY <1>2, WorkflowAssumption DEF WorkflowAssumption, EndOfSteps, EndStep, histVars, RunTypeOK, TabTypes, HandlerInv, AnswerInv, CauseInv, Open, allTabVars, tabVars, callVars
  <1>3. ASSUME NEW a \in Actions, NEW n \in Names, NEW k \in 1..MaxTries, NextStep(a, n, k) PROVE CauseInv'
    BY <1>3, WorkflowAssumption DEF WorkflowAssumption, NextStep, Resolve, histVars, RunTypeOK, TabTypes, HandlerInv, AnswerInv, CauseInv, Open, allTabVars, tabVars, callVars
  <1>4. ASSUME NEW q \in Profiles, ServeCreate(q) PROVE CauseInv'
    BY <1>4, WorkflowAssumption DEF WorkflowAssumption, ServeCreate, Waiting, CreateProfile, NewProfile, Answer, Record, RunTypeOK, TabTypes, HandlerInv, AnswerInv, CauseInv, Open, allTabVars, tabVars, callVars
  <1>5. ASSUME ServeOpen PROVE CauseInv'
    <2>1. /\ at = "wait" /\ answer = "none" /\ action = "open" /\ action' = action /\ target' = target
          /\ answer' = "ok" /\ target \in Profiles /\ pc[Engine] # "ready"
      BY <1>5 DEF ServeOpen, Waiting, Answer, OpenBrowser, RunTypeOK, HandlerInv
    <2>2. excuse' = (excuse \/ (target \in live /\ page[target] \notin Range(tabs[target])))
      BY <1>5 DEF ServeOpen, Record
    <2> SUFFICES ASSUME ~excuse'
                 PROVE  (\A p \in opened' : p \in live' /\ page'[p] \in Range(tabs'[p])) /\ pc'[Engine] # "ready"
      BY <2>1 DEF CauseInv
    <2>3. ~excuse /\ opened' = opened \cup {target}
      BY <1>5, <2>2 DEF ServeOpen, Record
    <2>4. CASE target \in live
      <3>1. page[target] \in Range(tabs[target])
        BY <2>2, <2>4
      <3>2. UNCHANGED <<live, tabs, page, pc>>
        BY <1>5, <2>4 DEF ServeOpen, OpenBrowser, allTabVars, tabVars, callVars
      <3>3. QED
        BY <2>1, <2>3, <2>4, <3>1, <3>2 DEF CauseInv
    <2>5. ASSUME NEW x \in Pages, Launch(target, x)
          PROVE  (\A p \in opened' : p \in live' /\ page'[p] \in Range(tabs'[p])) /\ pc'[Engine] # "ready"
      <3>1. target \notin live /\ live' = live \cup {target} /\ UNCHANGED pc
        BY <2>5 DEF Launch, callVars
      <3>2. page'[target] = x /\ tabs'[target] = <<x>> /\ Range(<<x>>) = {x}
        BY <2>1, <2>5, OneTab DEF Launch, TabTypes, ListInv
      <3>3. \A p \in live : page'[p] = page[p] /\ tabs'[p] = tabs[p]
        BY <2>5, <3>1 DEF Launch, TabTypes, ListInv
      <3>4. QED
        BY <2>1, <2>3, <3>1, <3>2, <3>3 DEF CauseInv
    <2>6. QED
      BY <1>5, <2>4, <2>5 DEF ServeOpen, OpenBrowser
  <1>6. ASSUME ServeClose PROVE CauseInv'
    <2>1. /\ at = "wait" /\ answer = "none" /\ action = "close" /\ answer' = "ok"
          /\ target \in live /\ live' = live \ {target} /\ pc[Engine] # "ready"
      BY <1>6 DEF ServeClose, Waiting, Answer, DeleteSession, CloseBrowser, HandlerInv
    <2>2. pc'[Engine] # "ready"
      BY <1>6, <2>1, WorkflowAssumption DEF WorkflowAssumption, ServeClose, DeleteSession, CloseBrowser
    <2>3. \A p \in live \ {target} : page'[p] = page[p] /\ tabs'[p] = tabs[p]
      BY <1>6 DEF ServeClose, DeleteSession, CloseBrowser, TabTypes, ListInv
    <2>4. ~excuse' => ~excuse /\ opened' = opened \ {target}
      BY <1>6 DEF ServeClose, Record
    <2>5. QED
      BY <2>1, <2>2, <2>3, <2>4 DEF CauseInv
  <1>7. ASSUME ServePage PROVE CauseInv'
    BY <1>7, WorkflowAssumption DEF WorkflowAssumption, ServePage, Waiting, runVars, stepVars, histVars, RunTypeOK, TabTypes, HandlerInv, AnswerInv, CauseInv, Open, allTabVars, tabVars, callVars, TakePage, Call
  <1>8. ASSUME PageServed PROVE CauseInv'
    BY <1>8, WorkflowAssumption DEF WorkflowAssumption, PageServed, Waiting, Answer, histVars, RunTypeOK, TabTypes, HandlerInv, AnswerInv, CauseInv, Open, allTabVars, tabVars, callVars, Operated, Return, Call
  <1>9. ASSUME NotFound PROVE CauseInv'
    BY <1>9, WorkflowAssumption DEF WorkflowAssumption, NotFound, Answer, histVars, RunTypeOK, TabTypes, HandlerInv, AnswerInv, CauseInv, Open, allTabVars, tabVars, callVars
  <1>10. ASSUME Refused PROVE CauseInv'
    BY <1>10, WorkflowAssumption DEF WorkflowAssumption, Refused, Answer, Record, RunTypeOK, TabTypes, HandlerInv, AnswerInv, CauseInv, Open, allTabVars, tabVars, callVars, Operated, Return, Call
  <1>11. ASSUME ConnectionBreaks PROVE CauseInv'
    BY <1>11, WorkflowAssumption DEF WorkflowAssumption, ConnectionBreaks, Answer, Record, RunTypeOK, TabTypes, HandlerInv, AnswerInv, CauseInv, Open, allTabVars, tabVars, callVars
  <1>12. ASSUME AnswerLost PROVE CauseInv'
    BY <1>12, WorkflowAssumption DEF WorkflowAssumption, AnswerLost, Record, stepVars, RunTypeOK, TabTypes, HandlerInv, AnswerInv, CauseInv, Open, allTabVars, tabVars, callVars
  <1>13. ASSUME Succeeded PROVE CauseInv'
    BY <1>13, WorkflowAssumption DEF WorkflowAssumption, Succeeded, EndStep, Record, RunTypeOK, TabTypes, HandlerInv, AnswerInv, CauseInv, Open, allTabVars, tabVars, callVars
  <1>14. ASSUME TryAgain PROVE CauseInv'
    BY <1>14, WorkflowAssumption DEF WorkflowAssumption, TryAgain, histVars, RunTypeOK, TabTypes, HandlerInv, AnswerInv, CauseInv, Open, allTabVars, tabVars, callVars
  <1>15. ASSUME Failed PROVE CauseInv'
    BY <1>15, WorkflowAssumption DEF WorkflowAssumption, Failed, EndStep, histVars, RunTypeOK, TabTypes, HandlerInv, AnswerInv, CauseInv, Open, allTabVars, tabVars, callVars
  <1>16. ASSUME Others PROVE CauseInv'
    <2> SUFFICES ASSUME ~excuse' PROVE CauseInv'
      BY DEF CauseInv
    <2>1. ~excuse /\ ~Harmed /\ opened' = opened /\ UNCHANGED <<at, action, target, answer>>
      BY <1>16 DEF Others, Record, runVars, stepVars
    <2>2. \A p \in opened : p \in live' /\ page'[p] \in Range(tabs'[p])
      BY <2>1, Zenon DEF Harmed
    <2>3. /\ pc'[Engine] = pc[Engine]
          /\ pc[Engine] = "ready" /\ target \in opened => on'[Engine] = on[Engine]
      BY <1>16, <2>2, OthersLeaveEngine DEF HandlerInv
    <2>4. pc[Engine] = "ready" => \E p \in live' : on[Engine] \in Range(tabs'[p])
      BY <2>1, Zenon DEF Harmed
    <2>5. target \in exists' => target \in exists
      BY <1>16 DEF Others, CreateProfile, NewProfile
    <2>6. QED
      BY <2>1, <2>2, <2>3, <2>4, <2>5 DEF CauseInv, Open
  <1>17. CASE UNCHANGED allVars
    BY <1>17 DEF allVars, allTabVars, tabVars, callVars, runVars, stepVars, histVars, RunTypeOK, TabTypes, HandlerInv, AnswerInv, CauseInv, Open, allTabVars, tabVars, callVars
  <1>18. QED
    BY <1>1, <1>2, <1>3, <1>4, <1>5, <1>6, <1>7, <1>8, <1>9, <1>10, <1>11, <1>12, <1>13, <1>14, <1>15, <1>16, <1>17 DEF Next
-----------------------------------------------------------------------------
RunInv == RunTypeOK /\ HandlerInv /\ AnswerInv /\ NameInv /\ CreatedIsReported /\ CauseInv

LEMMA Invariance == Spec => [](TabInv /\ RunInv)
  <1>1. Init => TabInv /\ RunInv
    BY RunInit, InitLists DEF Init, TabInv, RunInv
  <1>2. TabInv /\ RunInv /\ [Next]_allVars => TabInv' /\ RunInv'
    BY OnlyTabSteps, TabStep, RunTypeStep, HandlerStep, AnswerStep, NameStep, ReportStep, CauseStep
       DEF TabInv, RunInv
  <1>3. QED
    BY <1>1, <1>2, PTL DEF Spec

\* Tabs and calls are well typed; in particular no tool makes a page active that was
\* not a tab of the session it looked up.
THEOREM TabsTypeCorrect == Spec => []TabTypeOK
  BY Invariance, ActiveIsOpen, PTL

\* The engine's variables are well typed, and a step never makes more attempts than
\* it may.
THEOREM RunTypeCorrect == Spec => []RunTypeOK
  BY Invariance, PTL DEF RunInv

\* However many clients open, switch and close tabs at the same time, the active tab is
\* open afterwards.
THEOREM ActiveTabIsOpen == Spec => []PageIsOpen
  BY Invariance, ActiveIsOpen, PTL

\* Retries never leave a profile behind that no result names, unless an answer was lost.
THEOREM CreatedAreReported == Spec => []CreatedIsReported
  BY Invariance, PTL DEF RunInv

\* A step of a workflow that fails for good, fails for a reason.
THEOREM FailuresHaveCauses == Spec => []FailureHasCause
  <1>1. RunInv => FailureHasCause
    BY DEF RunInv, CauseInv, NameInv, FailureHasCause
  <1>2. QED
    BY Invariance, <1>1, PTL
=============================================================================
