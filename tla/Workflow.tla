------------------------------ MODULE Workflow ------------------------------
(***************************************************************************)
(* The workflow engine (workflow/engine.go) against the server it calls:   *)
(* Execute takes one step after the other, resolves the profile a step     *)
(* names, and sends requests until one is answered well or its retries are *)
(* used up.  The requests meet the profile store and the browsers, whose   *)
(* tabs (module Tabs) other clients use at the same time.                  *)
(*                                                                         *)
(* A workflow is any sequence of steps.  The engine of the server talks to *)
(* itself; that of the command line may be far away, behind a proxy that   *)
(* gives up on an answer while the handler goes on.                        *)
(***************************************************************************)
EXTENDS Tabs

CONSTANTS
  Vars,     \* the names of workflow variables
  MaxTries,
  Engine    \* the client that stands for the handler of the engine's request

ASSUME WorkflowAssumption ==
  /\ Engine \in Clients
  /\ Vars \cap Profiles = {} /\ NoProfile \notin Vars
  /\ {"none", "ok", "error"} \cap Profiles = {}
  /\ MaxTries \in Nat \ {0}

VARIABLES
  exists,   \* the profiles of the store
  at,       \* where Execute is
  action,   \* the action of the step it executes
  target,   \* its profile_id after substitution, or the variable that create_profile sets
  tries,    \* the attempts that it has left
  vars,     \* the variables of Execute
  answer,   \* what the handler has answered
  made,     \* the profiles whose ID an answer gave Execute, and no result has named yet
  opened,   \* the profiles whose browser its requests opened and did not close
  excuse    \* an answer was lost, the server refused, or others were in the way

stepVars == <<at, action, target, tries>>
runVars  == <<stepVars, vars, answer>>
histVars == <<made, opened, excuse>>
allVars  == <<allTabVars, exists, runVars, histVars>>

Actions == {"create", "open", "page", "close"}
Names == Profiles \cup Vars

RunTypeOK ==
  /\ exists \in SUBSET Profiles
  /\ at \in {"next", "wait", "served", "ended"}
  /\ action \in Actions \cup {"none"}
  /\ target \in Names \cup {NoProfile}
  /\ tries \in 0..MaxTries
  /\ vars \in [Vars -> Profiles \cup {NoProfile}]
  /\ answer \in Profiles \cup {"none", "ok", "error"}
  /\ made \in SUBSET Profiles /\ opened \in SUBSET Profiles
  /\ excuse \in BOOLEAN
  /\ at \in {"wait", "served"} => action # "none" /\ target # NoProfile /\ tries > 0

Init ==
  /\ TabInit
  /\ exists \in SUBSET Profiles
  /\ at = "ended"
  /\ action = "none"
  /\ target = NoProfile
  /\ tries = 0
  /\ vars = [v \in Vars |-> NoProfile]
  /\ answer = "none"
  /\ made = {} /\ opened = {}
  /\ excuse = FALSE

-----------------------------------------------------------------------------
\* Mutant: the variables are looked up with their dollar sign.
Resolve_KeepsName(n) == n

\* A name that is no variable yet is used as it stands.
Resolve(n) == IF n \in Vars /\ vars[n] # NoProfile THEN vars[n] ELSE n

\* After the first excuse no browser is the run's own any more.
Record(m, o, e) ==
  /\ made' = m
  /\ opened' = IF e THEN {} ELSE o
  /\ excuse' = e

\* Execute starts with no variables.
Execute ==
  /\ at = "ended"
  /\ at' = "next"
  /\ vars' = [v \in Vars |-> NoProfile]
  /\ Record({}, {}, FALSE)
  /\ UNCHANGED <<allTabVars, exists, action, target, tries, answer>>

NextStep(a, n, k) ==
  /\ at = "next"
  /\ a = "create" => n \in Vars
  /\ at' = "wait"
  /\ action' = a
  /\ target' = IF a = "create" THEN n ELSE Resolve(n)
  /\ tries' = k
  /\ UNCHANGED <<allTabVars, exists, vars, answer, histVars>>

EndStep(l) ==
  /\ at' = l
  /\ action' = "none"
  /\ target' = NoProfile
  /\ tries' = 0
  /\ answer' = "none"

EndOfSteps ==
  /\ at = "next"
  /\ EndStep("ended")
  /\ UNCHANGED <<allTabVars, exists, vars, histVars>>

-----------------------------------------------------------------------------
\* An ID is random: here, one that nothing refers to.
NewProfile(q) ==
  /\ q \notin exists \cup live \cup Range(vars) \cup made \cup opened \cup {target, answer}

\* What the handlers of the server do to the stores and browsers.
CreateProfile(q) ==
  /\ NewProfile(q)
  /\ exists' = exists \cup {q}
  /\ UNCHANGED allTabVars

OpenBrowser(p) ==
  /\ p \in exists
  /\ p \in live \/ \E x \in Pages : Launch(p, x)
  /\ p \in live => UNCHANGED allTabVars
  /\ UNCHANGED exists

DeleteSession(p) ==
  /\ CloseBrowser(p)
  /\ UNCHANGED exists

Waiting(a) == at = "wait" /\ answer = "none" /\ action = a

Answer(a) ==
  /\ answer' = a
  /\ at' = "served"
  /\ UNCHANGED <<action, target, tries, vars>>

ServeCreate(q) ==
  /\ Waiting("create")
  /\ CreateProfile(q)
  /\ Answer(q)
  /\ Record(made \cup {q}, opened, excuse)

\* A browser that is running is handed out as it is, also without an open active tab.
ServeOpen ==
  /\ Waiting("open")
  /\ OpenBrowser(target)
  /\ Answer("ok")
  /\ Record(made, opened \cup {target}, excuse \/ (target \in live /\ page[target] \notin Range(tabs[target])))

ServeClose ==
  /\ Waiting("close")
  /\ DeleteSession(target)
  /\ Answer("ok")
  /\ Record(made, opened \ {target}, excuse)

\* navigate, click, type, wait, eval and screenshot: a page call of Tabs.
ServePage ==
  /\ Waiting("page")
  /\ TakePage(Engine, target)
  /\ UNCHANGED <<exists, runVars, histVars>>

PageServed ==
  /\ Waiting("page")
  /\ Answer(IF Open(on[Engine]) THEN "ok" ELSE "error")
  /\ Operated(Engine)
  /\ UNCHANGED <<exists, histVars>>

NotFound ==
  /\ at = "wait" /\ answer = "none" /\ pc[Engine] = "idle"
  /\ \/ action = "open" /\ target \notin exists
     \/ action \in {"page", "close"} /\ target \notin live
  /\ Answer("error")
  /\ UNCHANGED <<allTabVars, exists, histVars>>

\* A body that is refused, a launch or a page operation that fails, a full disk.
Refused ==
  /\ at = "wait" /\ answer = "none"
  /\ IF pc[Engine] = "ready" THEN Operated(Engine) ELSE UNCHANGED allTabVars
  /\ Answer("error")
  /\ Record(made, opened, TRUE)
  /\ UNCHANGED exists

\* The connection breaks before the handler has come to anything; what it still does
\* after that it does as one of the Others.
ConnectionBreaks ==
  /\ at = "wait" /\ answer = "none" /\ pc[Engine] = "idle"
  /\ Answer("error")
  /\ Record(made, opened, TRUE)
  /\ UNCHANGED <<allTabVars, exists>>

\* ... or after it is done.
AnswerLost ==
  /\ at = "served" /\ answer # "error"
  /\ answer' = "error"
  /\ Record(made \ {answer}, opened, TRUE)
  /\ UNCHANGED <<allTabVars, exists, stepVars, vars>>

-----------------------------------------------------------------------------
\* Mutant: the loop over the attempts is not left when one has succeeded.
Succeeded_TriesAgain ==
  /\ at = "served" /\ answer # "error"
  /\ vars' = IF action = "create" THEN [vars EXCEPT ![target] = answer] ELSE vars
  /\ IF tries > 1
       THEN /\ at' = "wait" /\ tries' = tries - 1 /\ answer' = "none"
            /\ UNCHANGED <<action, target, histVars>>
       ELSE EndStep("next") /\ Record(made \ {answer}, opened, excuse)
  /\ UNCHANGED <<allTabVars, exists>>

\* A good answer ends the attempts; that of create_profile sets its variable.
Succeeded ==
  /\ at = "served" /\ answer # "error"
  /\ vars' = IF action = "create" THEN [vars EXCEPT ![target] = answer] ELSE vars
  /\ EndStep("next")
  /\ Record(made \ {answer}, opened, excuse)
  /\ UNCHANGED <<allTabVars, exists>>

\* Mutant: one attempt more than the step allows.
TryAgain_OnceMore ==
  /\ at = "served" /\ answer = "error"
  /\ tries > 0
  /\ tries' = tries - 1
  /\ at' = "wait"
  /\ answer' = "none"
  /\ UNCHANGED <<allTabVars, exists, action, target, vars, histVars>>

TryAgain ==
  /\ at = "served" /\ answer = "error"
  /\ tries > 1
  /\ tries' = tries - 1
  /\ at' = "wait"
  /\ answer' = "none"
  /\ UNCHANGED <<allTabVars, exists, action, target, vars, histVars>>

\* The last attempt has failed: the run goes on if the step says on_error: skip.
Failed ==
  /\ at = "served" /\ answer = "error"
  /\ tries = 1
  /\ EndStep("next") \/ EndStep("ended")
  /\ UNCHANGED <<allTabVars, exists, vars, histVars>>

-----------------------------------------------------------------------------
\* Whether a browser that the run has opened, or its tab, is taken from it.
Harmed ==
  \/ \E p \in opened : p \notin live' \/ page'[p] \notin Range(tabs'[p])
  \/ target \in exists \ exists'
  \/ pc[Engine] = "ready" /\ \A p \in live' : on[Engine] \notin Range(tabs'[p])

\* Other clients: tab and page tools, launches, closings, creations, deletions; the browser itself;
\* and the handlers of requests whose answer the engine does not wait for any more.
Others ==
  /\ \/ SiteStep /\ UNCHANGED exists
     \/ (\E c \in Clients \ {Engine} : TabCall(c) \/ PageCall(c)) /\ UNCHANGED exists
     \/ (\E p \in exists, x \in Pages : Launch(p, x)) /\ UNCHANGED exists
     \/ (\E p \in live : CloseBrowser(p)) /\ UNCHANGED exists
     \/ \E q \in Profiles : CreateProfile(q)
     \/ (\E p \in exists : exists' = exists \ {p}) /\ UNCHANGED allTabVars
  /\ Record(made, opened, excuse \/ Harmed)
  /\ UNCHANGED runVars

Next ==
  \/ Execute \/ EndOfSteps
  \/ \E a \in Actions, n \in Names, k \in 1..MaxTries : NextStep(a, n, k)
  \/ \E q \in Profiles : ServeCreate(q)
  \/ ServeOpen \/ ServeClose \/ ServePage \/ PageServed
  \/ NotFound \/ Refused \/ ConnectionBreaks \/ AnswerLost
  \/ Succeeded \/ TryAgain \/ Failed
  \/ Others

Spec == Init /\ [][Next]_allVars

-----------------------------------------------------------------------------
\* Every profile that a run created is named in its results, so that somebody can find
\* it, unless an answer was lost: retries create nothing that is not accounted for.
CreatedIsReported == made \subseteq {answer}

\* A step that fails for good has a cause outside the engine, or asks for the impossible:
\* to open a profile that is not there, or to use a browser the run has not opened, by a
\* name that no step has given a value.
FailureHasCause ==
  at = "served" /\ answer = "error" /\ tries = 1 /\ ~excuse =>
    /\ \/ action = "open" /\ target \notin exists
       \/ action \in {"page", "close"} /\ target \notin opened
    /\ target \in Vars => vars[target] = NoProfile
=============================================================================
