-------------------------------- MODULE Tabs --------------------------------
(***************************************************************************)
(* The tabs of running browsers: Session.Page, which every REST page       *)
(* handler (api/sessions.go) and every profile tool (mcp/server.go,        *)
(* mcp/advanced_tools.go) works on, and Context.Pages(), which new_tab,    *)
(* switch_tab and close_tab pick from.  Nothing here holds a lock, so the  *)
(* calls of several clients interleave between any two steps.              *)
(***************************************************************************)
EXTENDS Naturals, SequencesExt

CONSTANTS Clients, Profiles, Pages, NoPage, NoProfile

ASSUME TabsAssumption == NoPage \notin Pages /\ NoProfile \notin Profiles

VARIABLES
  live,   \* the profiles with a session in the manager
  tabs,   \* Context.Pages() of each
  page,   \* Session.Page of each
  pc,     \* what each client's call does
  prof,   \* the profile it is about
  on,     \* the tab it works on, closes, or is about to make the active one
  lost    \* the profiles whose active tab, or one about to become it, others closed

tabVars  == <<live, tabs, page>>
callVars == <<pc, prof, on>>
allTabVars == <<tabVars, callVars, lost>>

TabTypeOK ==
  /\ live \in SUBSET Profiles /\ lost \in SUBSET Profiles
  /\ tabs \in [Profiles -> Seq(Pages)]
  /\ \A p \in Profiles : IsInjective(tabs[p]) /\ (p \notin live => tabs[p] = <<>>)
  /\ page \in [Profiles -> Pages \cup {NoPage}]
  /\ \A p \in live : page[p] # NoPage
  /\ pc \in [Clients -> {"idle", "ready", "switch", "opened", "close", "closed", "replace"}]
  /\ prof \in [Clients -> Profiles \cup {NoProfile}]
  /\ on \in [Clients -> Pages \cup {NoPage}]
  /\ \A c \in Clients : pc[c] \notin {"idle", "ready"} => prof[c] \in live /\ on[c] \in Pages

TabInit ==
  /\ live = {} /\ lost = {}
  /\ tabs = [p \in Profiles |-> <<>>]
  /\ page = [p \in Profiles |-> NoPage]
  /\ pc = [c \in Clients |-> "idle"]
  /\ prof = [c \in Clients |-> NoProfile]
  /\ on = [c \in Clients |-> NoPage]

-----------------------------------------------------------------------------
Open(x) == \E p \in live : x \in Range(tabs[p])

\* A page object that nothing refers to stands for the next new tab.
Fresh(x) == ~Open(x) /\ (\A p \in live : page[p] # x) /\ (\A c \in Clients : on[c] # x)

Call(c, l, p, x) ==
  /\ pc' = [pc EXCEPT ![c] = l]
  /\ prof' = [prof EXCEPT ![c] = p]
  /\ on' = [on EXCEPT ![c] = x]

Return(c) == Call(c, "idle", NoProfile, NoPage)

Candidate(x) == \E c \in Clients : on[c] = x /\ pc[c] \in {"switch", "opened", "replace"}

\* The launchers end with a session on the first tab of the context.
Launch(p, x) ==
  /\ p \notin live
  /\ Fresh(x)
  /\ live' = live \cup {p}
  /\ tabs' = [tabs EXCEPT ![p] = <<x>>]
  /\ page' = [page EXCEPT ![p] = x]
  /\ UNCHANGED <<callVars, lost>>

\* CloseSession.  The calls that still hold the session write to it in vain, and find
\* its tabs closed.
CloseBrowser(p) ==
  LET holds(c) == prof[c] = p
      ends(c) == holds(c) /\ pc[c] # "ready"
  IN /\ p \in live
     /\ live' = live \ {p}
     /\ tabs' = [tabs EXCEPT ![p] = <<>>]
     /\ page' = [page EXCEPT ![p] = NoPage]
     /\ pc' = [c \in Clients |-> IF ends(c) THEN "idle" ELSE pc[c]]
     /\ prof' = [c \in Clients |-> IF ends(c) THEN NoProfile ELSE prof[c]]
     /\ on' = [c \in Clients |-> IF holds(c) THEN NoPage ELSE on[c]]
     /\ lost' = lost \ {p}

\* A site opens a pop-up, which does not become the active tab.
SiteOpens(p, x) ==
  /\ tabs[p] # <<>>
  /\ Fresh(x)
  /\ tabs' = [tabs EXCEPT ![p] = Append(@, x)]
  /\ UNCHANGED <<live, page, callVars, lost>>

\* Tab x leaves those of p, if it is still one of them.
Closes(p, x) ==
  \/ \E i \in DOMAIN tabs[p] : tabs[p][i] = x /\ tabs' = [tabs EXCEPT ![p] = RemoveAt(@, i)]
  \/ x \notin Range(tabs[p]) /\ UNCHANGED tabs

\* A tab is closed by its site, or by somebody at the window.
SiteCloses(p, x) ==
  /\ x \in Range(tabs[p])
  /\ Closes(p, x)
  /\ lost' = IF x = page[p] \/ Candidate(x) THEN lost \cup {p} ELSE lost
  /\ UNCHANGED <<live, page, callVars>>

-----------------------------------------------------------------------------
\* new_tab: the tab exists before the tool makes it the active one.
NewTab(c, p, x) ==
  /\ pc[c] = "idle"
  /\ p \in live
  /\ Fresh(x)
  /\ tabs' = [tabs EXCEPT ![p] = Append(@, x)]
  /\ Call(c, "opened", p, x)
  /\ UNCHANGED <<live, page, lost>>

\* switch_tab: the tab at an index of what Pages() returns now.
SwitchTab(c, p, i) ==
  /\ pc[c] = "idle"
  /\ p \in live
  /\ i \in DOMAIN tabs[p]
  /\ Call(c, "switch", p, tabs[p][i])
  /\ UNCHANGED <<tabVars, lost>>

\* close_tab picks in the same way.
PickToClose(c, p, i) ==
  /\ pc[c] = "idle"
  /\ p \in live
  /\ i \in DOMAIN tabs[p]
  /\ Call(c, "close", p, tabs[p][i])
  /\ UNCHANGED <<tabVars, lost>>

\* The assignment to Session.Page.
UseTab(c) ==
  /\ pc[c] \in {"opened", "switch", "replace"}
  /\ page' = [page EXCEPT ![prof[c]] = on[c]]
  /\ Return(c)
  /\ UNCHANGED <<live, tabs, lost>>

CloseTab(c) ==
  /\ pc[c] = "close"
  /\ Closes(prof[c], on[c])
  /\ lost' = IF Candidate(on[c]) THEN lost \cup {prof[c]} ELSE lost
  /\ pc' = [pc EXCEPT ![c] = "closed"]
  /\ UNCHANGED <<live, page, prof, on>>

\* Mutant: the replacement is taken from the tabs before the closing.
Replace_Itself(c) ==
  /\ pc[c] = "closed"
  /\ page[prof[c]] = on[c] /\ tabs[prof[c]] # <<>>
  /\ Call(c, "replace", prof[c], on[c])
  /\ UNCHANGED <<tabVars, lost>>

\* The last of the remaining tabs takes the place of the active one.
Replace(c) ==
  /\ pc[c] = "closed"
  /\ page[prof[c]] = on[c] /\ tabs[prof[c]] # <<>>
  /\ Call(c, "replace", prof[c], Last(tabs[prof[c]]))
  /\ UNCHANGED <<tabVars, lost>>

NoReplacement(c) ==
  /\ pc[c] = "closed"
  /\ page[prof[c]] # on[c] \/ tabs[prof[c]] = <<>>
  /\ Return(c)
  /\ UNCHANGED <<tabVars, lost>>

\* Every page operation looks the session up and reads Session.Page.
TakePage(c, p) ==
  /\ pc[c] = "idle"
  /\ p \in live
  /\ Call(c, "ready", p, page[p])
  /\ UNCHANGED <<tabVars, lost>>

\* click with a timeout and type_text with clear read it again after their first part.
TakePageAgain(c) ==
  /\ pc[c] = "ready" /\ on[c] # NoPage
  /\ Call(c, "ready", prof[c], page[prof[c]])
  /\ UNCHANGED <<tabVars, lost>>

\* The operation itself, which succeeds only on an open tab.
Operated(c) ==
  /\ pc[c] = "ready"
  /\ Return(c)
  /\ UNCHANGED <<tabVars, lost>>

TabCall(c) ==
  \/ \E p \in Profiles, x \in Pages : NewTab(c, p, x)
  \/ \E p \in Profiles : \E i \in DOMAIN tabs[p] : SwitchTab(c, p, i) \/ PickToClose(c, p, i)
  \/ UseTab(c) \/ CloseTab(c) \/ Replace(c) \/ NoReplacement(c)

PageCall(c) ==
  \/ \E p \in Profiles : TakePage(c, p)
  \/ TakePageAgain(c) \/ Operated(c)

SiteStep == \E p \in Profiles, x \in Pages : SiteOpens(p, x) \/ SiteCloses(p, x)

-----------------------------------------------------------------------------
\* Between tab tools, the tab that all profile tools and the REST API work on is open as
\* long as any is, unless one was closed by its site or under another tool's feet:
\* overlapping new_tab, switch_tab and close_tab do no other harm.
PageIsOpen ==
  \A p \in live \ lost :
    tabs[p] # <<>> /\ (\A c \in Clients : prof[c] = p => pc[c] \in {"ready", "close"})
      => page[p] \in Range(tabs[p])
=============================================================================
