------------------------------- MODULE Wizard -------------------------------
(***************************************************************************)
(* The setup wizard of os-desktop: the persisted store                     *)
(* (wizard-store.ts), the shell that moves through its steps               *)
(* (WizardShell.tsx), and the steps that fill it: AssessmentStep,          *)
(* ProfileStep, PlaybookStrategyStep, PlaybookReviewStep, FinalReviewStep, *)
(* ExecutionStep and RebootResumeStep.  A step's own state is lost when it *)
(* is left; the store survives a relaunch, except for demoMode.            *)
(*                                                                         *)
(* The shell moves at once, the steps follow: WizardPage.tsx mounts them   *)
(* under AnimatePresence mode="wait", so that a step with an exit stays    *)
(* until it has ended, while the bar already acts on the next step with    *)
(* the readiness that is stored for it.                                    *)
(*                                                                         *)
(* The service is asked through lib/service.ts, which turns every failure  *)
(* into an answer (ServiceBridge: every call is answered); what it does is *)
(* a choice here.  It refuses ledger.createPlan, whose fields the renderer *)
(* sends in camelCase and ledger.rs reads in snake_case: no plan is        *)
(* stored, ledger.query and journal.resume find none.                      *)
(***************************************************************************)
EXTENDS Naturals, Sequences, FiniteSets

CONSTANTS
  Answers,     \* what the questionnaire can be answered with
  Profiles,    \* profiles of machines the service may find
  DemoProfile, \* DEMO_PROFILE of AssessmentStep
  Preset,      \* derivePlaybookPreset of each answer
  Actions,     \* the actions of a plan
  Rebooting,   \* answers whose plan needs a reboot
  Risky,       \* answers whose plan must be acknowledged
  None,
  MaxLaunches  \* bound: relaunches

ASSUME PresetAssumption == DOMAIN Preset = Answers
ASSUME PlansAssumption == Rebooting \subseteq Answers /\ Risky \subseteq Answers
ASSUME ProfilesAssumption == DemoProfile \notin Profiles
Plans == [profile : Profiles \cup {DemoProfile}, answer : Answers, mock : BOOLEAN]
ASSUME NoneAssumption == None \notin {"applied", "skipped", "failed"} /\ None \notin Plans

STEP_ORDER ==
  <<"welcome", "assessment", "profile", "playbook-strategy", "playbook-review", "personalization",
    "final-review", "execution", "reboot-resume", "report", "handoff">>
Steps == {STEP_ORDER[i] : i \in DOMAIN STEP_ORDER}
Index(s) == CHOOSE i \in DOMAIN STEP_ORDER : STEP_ORDER[i] = s

VARIABLES
  current, status, ready, demo, profile, answer, plan, result, \* the stores
  page,     \* the step that is mounted, and its own state
  stale,    \* an assessment whose step was left has not ended
  resuming, \* journal.resume was sent and not answered
  applied,  \* history: how often the service applied an action
  seen,     \* history: the plan last acknowledged
  hurried,  \* history: the final review was passed before it was mounted
  launches

store == <<current, status, ready, demo, profile, answer, plan, result>>
vars == <<store, page, stale, resuming, applied, seen, hurried, launches>>

\* A resolved playbook, or the mock of demo mode.
PlanFor(mock) == [profile |-> profile, answer |-> answer, mock |-> mock]
needsReboot == plan # None /\ plan.answer \in Rebooting
requiresAck(p) == p.answer \in Risky
NoJournal == [a \in Actions |-> None]
Result(journal, personalized) == [journal |-> journal, personalized |-> personalized, demo |-> demo]

-----------------------------------------------------------------------------
(* Moving through the steps.                                               *)

\* What a step does to its readiness when it is mounted.
ReadyWhenShown(s) ==
  CASE s \in {"assessment", "playbook-review"} -> FALSE
    [] s = "profile" -> profile' # None
    [] s = "final-review" -> profile' # None /\ plan' # None /\ ~requiresAck(plan')
    [] OTHER -> s \in {"welcome", "personalization", "report", "donation"}

Work(s) == CASE s = "assessment" -> "scan" [] s = "playbook-review" -> "load"
             [] s = "execution" -> "prepare" [] OTHER -> "shown"

Mount(s) ==
  /\ page' = [step |-> s, pc |-> Work(s), action |-> None, journal |-> NoJournal]
  /\ ready' = [ready EXCEPT ![s] = ReadyWhenShown(s)]

\* The step that is mounted has an exit, which takes its time.
Exits ==
  \/ page.step = "playbook-review" /\ ready["playbook-review"]
  \/ page.step \in {"execution", "report"}
  \/ page.step = "reboot-resume" /\ needsReboot /\ ~demo

\* The store moves to step s.  It is mounted at once, unless it is still there
\* or the step that is left has an exit.
Show(s) ==
  /\ current' = s
  /\ IF s = page.step \/ Exits
     THEN UNCHANGED <<page, ready, stale>>
     ELSE Mount(s) /\ stale' = (stale \/ page.pc = "scan")

After(s) == STEP_ORDER[IF Index(s) = Len(STEP_ORDER) THEN Index(s) ELSE Index(s) + 1]

\* Mutant: the step that is done is marked, the next one stays locked.
FinishOnly(s, how) ==
  /\ status' = [status EXCEPT ![s] = how]
  /\ Show(After(s))

\* completeStep and skipStep.
Finish(s, how) ==
  /\ status' = [x \in Steps |-> CASE x = s -> how
                                  [] x = After(s) /\ x # s /\ status[x] = "locked" -> "current"
                                  [] OTHER -> status[x]]
  /\ Show(After(s))
completeStep(s) == Finish(s, "completed")
skipStep(s) == Finish(s, "skipped")

NO_BAR == {"playbook-strategy", "execution", "reboot-resume", "donation", "handoff"}
NO_BACK == {"reboot-resume", "report", "handoff"}

Data == UNCHANGED <<demo, profile, answer, plan, result>>
History == UNCHANGED <<applied, seen, hurried, launches>>
Moving == Data /\ History

\* The exit has ended: the step the store is at by now is mounted.
Entered ==
  /\ page.step # current
  /\ Moving /\ UNCHANGED <<current, status, stale, resuming>>
  /\ Mount(current)

\* The bar's Next.
goNext ==
  /\ current \notin NO_BAR /\ current # "assessment" /\ ready[current]
  /\ hurried' = IF current = "final-review" THEN page.step # current ELSE hurried
  /\ Data /\ UNCHANGED <<applied, seen, launches, resuming>>
  /\ completeStep(current)

\* Mutant: Back from every step that has one before it.
BackAnywhere ==
  /\ current \in Steps \ {"playbook-strategy", "execution", "handoff"} /\ Index(current) > 1
  /\ Moving /\ UNCHANGED resuming
  /\ LET s == STEP_ORDER[Index(current) - 1] IN
     /\ status' = [status EXCEPT ![current] = "completed", ![s] = "current"]
     /\ Show(s)

\* The bar's Back, and that of the first question.
goBack ==
  /\ current \in Steps \ (NO_BAR \cup NO_BACK) \/ (current = "playbook-strategy" /\ page.step = current)
  /\ Index(current) > 1
  /\ Moving /\ UNCHANGED resuming
  /\ LET s == STEP_ORDER[Index(current) - 1] IN
     /\ status' = [status EXCEPT ![current] = "completed", ![s] = "current"]
     /\ Show(s)

gotoDonation ==
  /\ page.step = "report"
  /\ Moving /\ UNCHANGED resuming
  /\ status' = [x \in Steps |-> IF x = current THEN "completed" ELSE status[x]]
  /\ Show("donation")

completeDonation ==
  /\ page.step = "donation"
  /\ Moving /\ UNCHANGED resuming
  /\ status' = [status EXCEPT !["handoff"] = IF @ = "locked" THEN "current" ELSE @]
  /\ Show("handoff")

-----------------------------------------------------------------------------
(* The steps before the execution.                                         *)

Stay == UNCHANGED <<current, status, stale>>

\* AssessmentStep: a profile from the service, or the demo's ...
Assessed(ok) ==
  /\ page.pc = "scan" /\ ~stale
  /\ profile' \in IF ok THEN Profiles ELSE {DemoProfile}
  /\ demo' = ~ok
  /\ page' = [page EXCEPT !.pc = "assessed"]
  /\ Stay /\ UNCHANGED <<ready, answer, plan, result, resuming>> /\ History

\* ... which goes on by itself (or a little sooner, with the demo's Continue).
AssessmentDone ==
  /\ page.pc = "assessed"
  /\ Moving /\ UNCHANGED resuming
  /\ completeStep("assessment")

\* An assessment that was left ends without effect, or falls back to the demo.
\* The bridge answers it before the next one.
StaleAssessment ==
  /\ stale /\ stale' = FALSE
  /\ \/ UNCHANGED <<demo, profile>>
     \/ demo' = TRUE /\ profile' = DemoProfile
  /\ UNCHANGED <<current, status, ready, answer, plan, result, page, resuming>> /\ History

\* ProfileStep: the user overrides the profile.
OverrideProfile(p) ==
  /\ page.step = "profile" /\ profile # None /\ p # profile
  /\ profile' = p
  /\ Stay /\ UNCHANGED <<ready, demo, answer, plan, result, page, resuming>> /\ History

\* PlaybookStrategyStep: an answer, from which the preset follows; the last
\* answer goes on.  setPlaybookPreset drops the plan.
Choose(a) ==
  /\ page.step = "playbook-strategy"
  /\ answer' = a
  /\ plan' = IF answer = None \/ Preset[answer] # Preset[a] THEN None ELSE plan
  /\ UNCHANGED <<demo, profile, result, resuming>> /\ History
  /\ completeStep("playbook-strategy")

\* Mutant: the plan is taken over without being asked for when there is one.
KeepPlan(ok) ==
  /\ page.pc = "load"
  /\ plan' = IF plan # None THEN plan ELSE IF ok \/ demo THEN PlanFor(~ok) ELSE None
  /\ ready' = [ready EXCEPT !["playbook-review"] = plan' # None]
  /\ page' = [page EXCEPT !.pc = "loaded"]
  /\ Stay /\ UNCHANGED <<demo, profile, answer, result, resuming>> /\ History

\* PlaybookReviewStep: the plan for the profile and the answers is loaded.
LoadPlan(ok) ==
  /\ page.pc = "load"
  /\ plan' = IF ok \/ demo THEN PlanFor(~ok) ELSE plan
  /\ ready' = [ready EXCEPT !["playbook-review"] = ok \/ demo]
  /\ page' = [page EXCEPT !.pc = "loaded"]
  /\ Stay /\ UNCHANGED <<demo, profile, answer, result, resuming>> /\ History

\* FinalReviewStep: the checkbox.
Acknowledge ==
  /\ page.step = "final-review" /\ plan # None /\ requiresAck(plan)
  /\ seen' = plan /\ ready' = [ready EXCEPT !["final-review"] = profile # None]
  /\ Stay /\ UNCHANGED <<demo, profile, answer, plan, result, page, resuming, applied, hurried, launches>>

-----------------------------------------------------------------------------
(* ExecutionStep.                                                          *)

Here(pc) == current = "execution" /\ page.step = "execution" /\ page.pc = pc
Executing == Stay /\ UNCHANGED <<ready, demo, profile, answer, resuming, seen, hurried, launches>>

\* createPlan is refused and the restore point is tried; neither stops the run.
Prepare ==
  /\ Here("prepare") /\ plan # None
  /\ page' = [page EXCEPT !.pc = "apply"]
  /\ Executing /\ UNCHANGED <<plan, result, applied>>

Todo == {a \in Actions : page.journal[a] = None}

\* The next action of the queue goes to the service; after the last one, the
\* personalization.
Dispatch ==
  /\ Here("apply")
  /\ \/ Todo = {} /\ page' = [page EXCEPT !.pc = "personalize"]
     \/ \E a \in Todo :
          /\ page' = [page EXCEPT !.pc = "sent", !.action = a]
  /\ Executing /\ UNCHANGED <<plan, result, applied>>

\* What the service may have done when it answers so: a failure or a timeout
\* leaves it open.
Effects(reply) == CASE reply = "success" -> {1} [] reply = "skipped" -> {0}
                    [] reply \in {"failed", "error"} -> {0, 1}
Replies == {"success", "skipped", "failed", "error"}

\* Mutant: whatever the service answers is an applied action.
AnsweredIsApplied(reply) == IF reply = "error" /\ ~demo THEN "failed" ELSE "applied"

\* A skipped action is neither applied nor failed; a demo takes no answer for success.
StatusOf(reply) ==
  CASE reply = "success" -> "applied"
    [] reply = "skipped" -> "skipped"
    [] reply = "failed" -> "failed"
    [] reply = "error" -> IF demo THEN "applied" ELSE "failed"

Answered(reply) ==
  /\ Here("sent")
  /\ \E n \in Effects(reply) : applied' = [applied EXCEPT ![page.action] = @ + n]
  /\ page' = [page EXCEPT !.pc = "apply", !.action = None, !.journal[page.action] = StatusOf(reply)]
  /\ Executing /\ UNCHANGED <<plan, result>>

\* The ledger knows no plan: the renderer's own journal becomes the result.
Finished(personalized) ==
  /\ Here("personalize")
  /\ result' = Result(page.journal, personalized)
  /\ page' = [page EXCEPT !.pc = "finished"]
  /\ Executing /\ UNCHANGED <<plan, applied>>

\* An exception of the loop: everything counts as failed.
Unexpected ==
  /\ \E pc \in {"prepare", "sent", "personalize"} : Here(pc)
  /\ \E n \in 0 .. 1 :
       applied' = IF page.action = None THEN applied ELSE [applied EXCEPT ![page.action] = @ + n]
  /\ result' = Result(NoJournal, FALSE)
  /\ page' = [page EXCEPT !.pc = "finished", !.action = None]
  /\ Executing /\ UNCHANGED plan

\* Mutant: the timer is only set after the regular end.
LeaveRegularly ==
  /\ Here("finished") /\ result.journal # NoJournal
  /\ Moving /\ UNCHANGED resuming
  /\ completeStep("execution")

LeaveExecution ==
  /\ Here("finished")
  /\ Moving /\ UNCHANGED resuming
  /\ completeStep("execution")

ExecutionRuns ==
  \/ Prepare \/ Dispatch \/ (\E reply \in Replies : Answered(reply))
  \/ (\E ok \in BOOLEAN : Finished(ok)) \/ Unexpected \/ LeaveExecution

-----------------------------------------------------------------------------
(* RebootResumeStep.                                                       *)

AutoSkip ==
  /\ page.step = "reboot-resume" /\ (~needsReboot \/ demo)
  /\ Moving /\ UNCHANGED resuming
  /\ skipStep("reboot-resume")

SkipReboot ==
  /\ page.step = "reboot-resume" /\ needsReboot /\ ~demo
  /\ Moving /\ UNCHANGED resuming
  /\ completeStep("reboot-resume")

Resume ==
  /\ page.step = "reboot-resume" /\ needsReboot /\ ~demo /\ page.pc = "shown"
  /\ resuming' = TRUE /\ page' = [page EXCEPT !.pc = "resuming"]
  /\ Stay /\ Data /\ History /\ UNCHANGED ready

\* The service has no plan to resume: the step is complete, wherever the user is.
Resumed ==
  /\ resuming /\ resuming' = FALSE
  /\ Moving
  /\ completeStep("reboot-resume")

-----------------------------------------------------------------------------
(* The application is closed, or the machine restarted, and started again. *)

\* What is persisted, with onRehydrateStorage: an interrupted execution is over.
Relaunch ==
  LET left == current = "execution"
      s == IF left THEN "reboot-resume" ELSE current
  IN
  /\ launches < MaxLaunches /\ launches' = launches + 1
  /\ \E n \in 0 .. 1 : applied' = IF page.pc = "sent" THEN [applied EXCEPT ![page.action] = @ + n] ELSE applied
  /\ current' = s
  /\ status' = IF left THEN [status EXCEPT !["execution"] = "completed", !["reboot-resume"] = "current"] ELSE status
  /\ UNCHANGED <<profile, answer, plan, result, seen, hurried>>
  /\ demo' = FALSE /\ Mount(s)
  /\ stale' = FALSE /\ resuming' = FALSE

-----------------------------------------------------------------------------
Init ==
  /\ current = "welcome"
  /\ status = [s \in Steps |-> IF s = "welcome" THEN "current" ELSE "locked"]
  /\ ready = [s \in Steps \cup {"donation"} |-> s \in {"welcome", "personalization", "report", "donation"}]
  /\ demo = FALSE /\ profile = None /\ answer = None /\ plan = None /\ result = None
  /\ page = [step |-> "welcome", pc |-> "shown", action |-> None, journal |-> NoJournal]
  /\ stale = FALSE /\ resuming = FALSE
  /\ applied = [a \in Actions |-> 0] /\ seen = None /\ hurried = FALSE /\ launches = 0

User ==
  \/ goNext \/ goBack \/ gotoDonation \/ completeDonation
  \/ (\E p \in Profiles : OverrideProfile(p)) \/ (\E a \in Answers : Choose(a))
  \/ Acknowledge \/ SkipReboot \/ Resume

Next ==
  \/ User
  \/ (\E ok \in BOOLEAN : Assessed(ok) \/ LoadPlan(ok)) \/ AssessmentDone \/ StaleAssessment
  \/ ExecutionRuns \/ AutoSkip \/ Resumed \/ Entered
  \/ Relaunch

\* Every call is answered, every timer fires and every exit ends; the user may
\* do nothing.
Fairness == WF_vars(ExecutionRuns) /\ WF_vars(AutoSkip) /\ WF_vars(Resumed) /\ WF_vars(Entered)

Spec == Init /\ [][Next]_vars /\ Fairness

-----------------------------------------------------------------------------
(* Properties.                                                             *)

\* The stores hold what their types say, the step shown is never locked, and a
\* step's own state is that of the step mounted.
TypeOK ==
  /\ current \in Steps \cup {"donation"}
  /\ status \in [Steps -> {"locked", "current", "completed", "skipped"}]
  /\ current # "donation" => status[current] # "locked"
  /\ ready \in [Steps \cup {"donation"} -> BOOLEAN]
  /\ demo \in BOOLEAN /\ profile \in Profiles \cup {DemoProfile, None} /\ answer \in Answers \cup {None}
  /\ plan \in Plans \cup {None}
  /\ page.step \in Steps \cup {"donation"} /\ hurried \in BOOLEAN
  /\ page.pc \in {"scan", "assessed"} => page.step = "assessment"
  /\ page.pc \in {"load", "loaded"} => page.step = "playbook-review"
  /\ page.pc \in {"prepare", "apply", "sent", "personalize", "finished"} <=> page.step = "execution"
  /\ page.journal \in [Actions -> {"applied", "skipped", "failed", None}]
  /\ stale \in BOOLEAN /\ resuming \in BOOLEAN
  /\ applied \in [Actions -> Nat]

\* Back, Resume, a relaunch or a late answer never run an action again
\* (the comment of WizardShell.tsx:21).
AppliedOnce == \A a \in Actions : applied[a] <= 1

\* What runs is what the user saw: the plan made for the profile and the answers
\* that are in force, and acknowledged if it must be, unless the user was ahead
\* of the final review, which then could not take its old readiness back.
RunsWhatWasReviewed ==
  current = "execution" =>
    /\ plan # None /\ plan.profile = profile /\ plan.answer = answer
    /\ requiresAck(plan) => (seen = plan \/ hurried)

\* Outside a demo, the result says of each action what the service did, and it
\* leaves out none unless the run was cut short by an exception.
ResultIsTrue ==
  (result # None /\ ~result.demo /\ result.journal # NoJournal) =>
    \A a \in Actions :
      /\ result.journal[a] # None
      /\ result.journal[a] = "applied" => applied[a] = 1
      /\ result.journal[a] = "skipped" => applied[a] = 0

\* The execution ends, whatever the service answers, and a reboot that nobody
\* needs is skipped: the wizard is never stuck there.
ExecutionEnds == current = "execution" ~> current # "execution"
=============================================================================
