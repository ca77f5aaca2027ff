----------------------------- MODULE WizardProofs -----------------------------
(***************************************************************************)
(* The wizard runs what was reviewed, runs it once, and reports it truly:  *)
(* the invariants of Wizard for every set of answers, profiles and actions *)
(* and any number of relaunches.                                           *)
(*                                                                         *)
(* The steps of the specification are of three kinds: those that move to   *)
(* another step of the wizard, which Moves describes once for all of them, *)
(* the end of an exit, after which that step is mounted, and those that    *)
(* stay.                                                                   *)
(***************************************************************************)
EXTENDS Wizard, TLAPS

-----------------------------------------------------------------------------
(* The inductive invariant.                                                *)

BeforeRun == {"welcome", "assessment", "profile", "playbook-strategy", "playbook-review",
              "personalization", "final-review"}
AfterRun == {"reboot-resume", "report", "donation", "handoff"}
RunStates == {"prepare", "apply", "sent", "personalize", "finished"}
Known == Profiles \cup {DemoProfile}

\* The state of the step shown is a record of its own.
PageOK ==
  page \in [step : Steps \cup {"donation"},
            pc : {"shown", "scan", "assessed", "load", "loaded", "resuming"} \cup RunStates,
            action : Actions \cup {None},
            journal : [Actions -> {"applied", "skipped", "failed", None}]]

\* Where the shell may be while a step that was left is still mounted.
Outlived ==
  page.step # current =>
    /\ Exits
    /\ \/ /\ page.step = "playbook-review"
          /\ current \in {"playbook-strategy", "personalization", "final-review", "execution"}
       \/ /\ page.step # "playbook-review" /\ current \in AfterRun
          /\ page.step = "execution" => page.pc = "finished"
LoadFirst == page.pc = "load" => ~ready["playbook-review"]

\* The first pass: nobody gets past the assessment while an older one runs,
\* nor without a profile, nor past the questions without an answer.
ScanFirst == stale => current \in {"welcome", "assessment"} /\ page.pc # "assessed"
ProfileKnown == current \notin {"welcome", "assessment"} \/ page.pc = "assessed" => profile \in Known
AnswerGiven ==
  current \in {"playbook-review", "personalization", "final-review", "execution"} => answer \in Answers

\* From a review that is ready to the execution, the plan stays that of the
\* profile and the answers ...
PlanCurrent ==
  (page.step = "playbook-review" /\ ready["playbook-review"])
    \/ current \in {"personalization", "final-review", "execution"}
  => plan \in [profile : {profile}, answer : {answer}, mock : BOOLEAN]

\* ... and the final review, once mounted, lets no plan pass that it should not.
Acknowledged ==
  /\ page.step = "final-review" /\ ready["final-review"] =>
       plan # None /\ (requiresAck(plan) => seen = plan)
  /\ current = "execution" => plan # None /\ (requiresAck(plan) => (seen = plan \/ hurried))

\* A resumption is only asked for when the execution is over, and nothing
\* leads back from there.
ResumedLate == resuming => current \in AfterRun

\* Nothing ran before the execution.
NotYetRun ==
  current \in BeforeRun \/ (current = "execution" /\ page.step # "execution") =>
    result = None /\ \A a \in Actions : applied[a] = 0

\* While it runs, the journal covers exactly what was answered, the action at
\* the service is not in it yet, and outside a demo it is true.
JournalCovers ==
  page.step = "execution" /\ page.pc # "finished" =>
    /\ result = None
    /\ page.action # None \/ page.pc = "sent" => page.pc = "sent" /\ page.action \in Todo
    /\ page.pc = "personalize" => Todo = {}
    /\ \A a \in Todo : applied[a] = 0
JournalIsTrue ==
  page.step = "execution" /\ page.pc # "finished" /\ ~demo =>
    \A a \in Actions \ Todo : /\ page.journal[a] = "applied" => applied[a] = 1
                              /\ page.journal[a] = "skipped" => applied[a] = 0

IInv ==
  /\ TypeOK /\ PageOK /\ Outlived /\ LoadFirst
  /\ ScanFirst /\ ProfileKnown /\ AnswerGiven /\ PlanCurrent /\ Acknowledged
  /\ ResumedLate /\ NotYetRun /\ JournalCovers /\ JournalIsTrue
  /\ AppliedOnce /\ ResultIsTrue

-----------------------------------------------------------------------------
(* The order of the steps.                                                 *)

\* Index is the position of a step.
LEMMA IndexIs == ASSUME NEW i \in 1 .. 11 PROVE STEP_ORDER[i] \in Steps /\ Index(STEP_ORDER[i]) = i
<1>1. DOMAIN STEP_ORDER = 1 .. 11
  BY DEF STEP_ORDER
<1>2. \A j, k \in 1 .. 11 : STEP_ORDER[j] = STEP_ORDER[k] => j = k
  BY SMTT(30) DEF STEP_ORDER
<1>3. STEP_ORDER[i] \in Steps
  BY <1>1 DEF Steps
<1>4. Index(STEP_ORDER[i]) \in 1 .. 11 /\ STEP_ORDER[Index(STEP_ORDER[i])] = STEP_ORDER[i]
  BY <1>1 DEF Index
<1> QED BY <1>2, <1>3, <1>4

LEMMA StepsAre ==
  Steps = {"welcome", "assessment", "profile", "playbook-strategy", "playbook-review",
           "personalization", "final-review", "execution", "reboot-resume", "report", "handoff"}
<1>1. DOMAIN STEP_ORDER = 1 .. 11
  BY DEF STEP_ORDER
<1> QED BY <1>1 DEF Steps, STEP_ORDER

\* What follows a step, and what precedes it.
LEMMA Neighbours ==
  ASSUME NEW i \in 1 .. 10
  PROVE  /\ After(STEP_ORDER[i]) = STEP_ORDER[i + 1]
         /\ STEP_ORDER[Index(STEP_ORDER[i + 1]) - 1] = STEP_ORDER[i] /\ Index(STEP_ORDER[i + 1]) > 1
<1>1. Len(STEP_ORDER) = 11
  BY DEF STEP_ORDER
<1>2. Index(STEP_ORDER[i]) = i /\ Index(STEP_ORDER[i + 1]) = i + 1
  BY IndexIs
<1> QED BY <1>1, <1>2 DEF After

LEMMA AfterIs ==
  /\ After("welcome") = "assessment" /\ After("assessment") = "profile"
  /\ After("profile") = "playbook-strategy" /\ After("playbook-strategy") = "playbook-review"
  /\ After("playbook-review") = "personalization" /\ After("personalization") = "final-review"
  /\ After("final-review") = "execution" /\ After("execution") = "reboot-resume"
  /\ After("reboot-resume") = "report" /\ After("report") = "handoff"
<1>1. \A i \in 1 .. 10 : After(STEP_ORDER[i]) = STEP_ORDER[i + 1]
  BY Neighbours
<1>2. /\ STEP_ORDER[1] = "welcome" /\ STEP_ORDER[2] = "assessment" /\ STEP_ORDER[3] = "profile"
      /\ STEP_ORDER[4] = "playbook-strategy" /\ STEP_ORDER[5] = "playbook-review"
      /\ STEP_ORDER[6] = "personalization" /\ STEP_ORDER[7] = "final-review"
      /\ STEP_ORDER[8] = "execution" /\ STEP_ORDER[9] = "reboot-resume"
      /\ STEP_ORDER[10] = "report" /\ STEP_ORDER[11] = "handoff"
  BY DEF STEP_ORDER
<1>3. /\ After(STEP_ORDER[1]) = STEP_ORDER[2] /\ After(STEP_ORDER[2]) = STEP_ORDER[3]
      /\ After(STEP_ORDER[3]) = STEP_ORDER[4] /\ After(STEP_ORDER[4]) = STEP_ORDER[5]
      /\ After(STEP_ORDER[5]) = STEP_ORDER[6] /\ After(STEP_ORDER[6]) = STEP_ORDER[7]
      /\ After(STEP_ORDER[7]) = STEP_ORDER[8] /\ After(STEP_ORDER[8]) = STEP_ORDER[9]
      /\ After(STEP_ORDER[9]) = STEP_ORDER[10] /\ After(STEP_ORDER[10]) = STEP_ORDER[11]
  BY <1>1
<1> QED BY <1>2, <1>3

LEMMA BeforeIs ==
  LET Before(s) == STEP_ORDER[Index(s) - 1] IN
  /\ Before("assessment") = "welcome" /\ Before("profile") = "assessment"
  /\ Before("playbook-strategy") = "profile" /\ Before("playbook-review") = "playbook-strategy"
  /\ Before("personalization") = "playbook-review" /\ Before("final-review") = "personalization"
<1>1. \A i \in 1 .. 10 : STEP_ORDER[Index(STEP_ORDER[i + 1]) - 1] = STEP_ORDER[i]
  BY Neighbours
<1>2. /\ STEP_ORDER[1] = "welcome" /\ STEP_ORDER[2] = "assessment" /\ STEP_ORDER[3] = "profile"
      /\ STEP_ORDER[4] = "playbook-strategy" /\ STEP_ORDER[5] = "playbook-review"
      /\ STEP_ORDER[6] = "personalization" /\ STEP_ORDER[7] = "final-review"
  BY DEF STEP_ORDER
<1>3. /\ STEP_ORDER[Index(STEP_ORDER[2]) - 1] = STEP_ORDER[1]
      /\ STEP_ORDER[Index(STEP_ORDER[3]) - 1] = STEP_ORDER[2]
      /\ STEP_ORDER[Index(STEP_ORDER[4]) - 1] = STEP_ORDER[3]
      /\ STEP_ORDER[Index(STEP_ORDER[5]) - 1] = STEP_ORDER[4]
      /\ STEP_ORDER[Index(STEP_ORDER[6]) - 1] = STEP_ORDER[5]
      /\ STEP_ORDER[Index(STEP_ORDER[7]) - 1] = STEP_ORDER[6]
  BY <1>1
<1> QED BY <1>2, <1>3

-----------------------------------------------------------------------------
(* The steps of the specification that move to another step of the wizard. *)

\* Apart from those that have an exit, the step mounted is the one shown.
LEMMA Places ==
  ASSUME TypeOK, PageOK, Outlived, LoadFirst
  PROVE  /\ page.step \in {"welcome", "assessment", "profile", "playbook-strategy", "personalization",
                          "final-review", "donation", "handoff"} => current = page.step
         /\ page.step \in {"reboot-resume", "report"} => current \in AfterRun
         /\ page.pc \in {"scan", "assessed"} => current = "assessment" /\ page.step = "assessment"
         /\ page.pc = "load" => current = "playbook-review" /\ page.step = "playbook-review"
         /\ current = "execution" => page.step \in {"execution", "playbook-review"}
         /\ current = "playbook-review" => page.step = "playbook-review"
         /\ current = "final-review" => page.step \in {"final-review", "playbook-review"}
         /\ page.step = "execution" /\ page.pc # "finished" => current = "execution"
BY DEF TypeOK, PageOK, Outlived, LoadFirst, Exits, AfterRun

\* The shell moves to step s, which is mounted now or later; the service has no
\* part in it.
Pending(s) == (s = page.step \/ Exits) /\ UNCHANGED <<page, ready, stale>>
AtOnce(s) == s # page.step /\ ~Exits /\ Mount(s) /\ stale' = (stale \/ page.pc = "scan")
Moved(s) ==
  /\ current' = s /\ s # current
  /\ Pending(s) \/ AtOnce(s)
  /\ hurried' \in BOOLEAN /\ (s = "execution" => hurried' = (page.step # "final-review"))
  /\ UNCHANGED <<demo, profile, result, applied, seen, launches>>

Onward ==
  /\ ready[current] /\ UNCHANGED <<answer, plan, resuming>>
  /\ \/ current = "welcome" /\ current' = "assessment"
     \/ current = "profile" /\ current' = "playbook-strategy"
     \/ current = "playbook-review" /\ current' = "personalization"
     \/ current = "personalization" /\ current' = "final-review"
     \/ current = "final-review" /\ current' = "execution"
     \/ current = "report" /\ current' = "handoff"

Backward ==
  /\ UNCHANGED <<answer, plan, resuming>>
  /\ \/ current = "assessment" /\ current' = "welcome"
     \/ current = "profile" /\ current' = "assessment"
     \/ current = "playbook-strategy" /\ page.step = current /\ current' = "profile"
     \/ current = "playbook-review" /\ current' = "playbook-strategy"
     \/ current = "personalization" /\ current' = "playbook-review"
     \/ current = "final-review" /\ current' = "personalization"

AssessmentLeft ==
  /\ page.pc = "assessed" /\ page.step = "assessment"
  /\ current = "assessment" /\ current' = "profile" /\ UNCHANGED <<answer, plan, resuming>>

Chosen ==
  /\ page.step = "playbook-strategy"
  /\ current = "playbook-strategy" /\ current' = "playbook-review"
  /\ answer' \in Answers /\ plan' \in {plan, None} /\ UNCHANGED resuming

ExecutionLeft ==
  /\ page.step = "execution" /\ page.pc = "finished"
  /\ current = "execution" /\ current' = "reboot-resume" /\ UNCHANGED <<answer, plan, resuming>>

Late ==
  /\ current \in AfterRun /\ current' \in AfterRun /\ UNCHANGED <<answer, plan>>
  /\ resuming' \in {resuming, FALSE}

Turn == Onward \/ Backward \/ AssessmentLeft \/ Chosen \/ ExecutionLeft \/ Late

Move ==
  \/ goNext \/ goBack \/ gotoDonation \/ completeDonation \/ AssessmentDone
  \/ (\E a \in Answers : Choose(a))
  \/ LeaveExecution \/ AutoSkip \/ SkipReboot \/ Resumed

\* A late answer, or a button of a step on its way out, when the shell is
\* already where it would go.
Unmoved ==
  /\ current \in AfterRun /\ resuming' \in {resuming, FALSE}
  /\ UNCHANGED <<current, ready, demo, profile, answer, plan, result, page, stale,
                 applied, seen, hurried, launches>>

StatusTypes == status \in [Steps -> {"locked", "current", "completed", "skipped"}]

LEMMA Shown ==
  ASSUME NEW s, Show(s), s # current, s # "execution", TypeOK, UNCHANGED <<demo, profile, result>>, History
  PROVE  Moved(s)
BY DEF Show, Moved, Pending, AtOnce, History, TypeOK

\* After the execution a step may show what is shown already.
LEMMA ShownLate ==
  ASSUME NEW s \in AfterRun, Show(s), TypeOK, Outlived, current \in AfterRun, Moving,
         resuming' \in {resuming, FALSE}
  PROVE  Unmoved \/ (Moved(s) /\ Late)
<1>1. UNCHANGED <<demo, profile, answer, plan, result>> /\ History /\ current' = s
  BY DEF Moving, Data, Show
<1>2. CASE s = current
  <2>1. UNCHANGED <<page, ready, stale>>
    BY <1>2 DEF Show, Outlived
  <2> QED BY <1>1, <1>2, <2>1 DEF Unmoved, History
<1>3. CASE s # current
  <2>1. s # "execution"
    BY DEF AfterRun
  <2>2. Moved(s)
    BY <1>1, <1>3, <2>1, Shown
  <2> QED BY <1>1, <2>2 DEF Late
<1> QED BY <1>2, <1>3

\* completeStep and skipStep open the step that follows.
LEMMA Finishes ==
  ASSUME TypeOK, NEW s \in Steps, NEW how \in {"completed", "skipped"}, Finish(s, how)
  PROVE  StatusTypes' /\ current' = After(s) /\ Show(After(s)) /\
         (After(s) \in Steps => status'[After(s)] # "locked")
<1>1. /\ status' = [x \in Steps |-> CASE x = s -> how
                                      [] x = After(s) /\ x # s /\ status[x] = "locked" -> "current"
                                      [] OTHER -> status[x]]
      /\ Show(After(s))
  BY DEF Finish
<1>2. \A x \in Steps : status'[x] \in {"locked", "current", "completed", "skipped"}
  BY <1>1 DEF TypeOK
<1>3. StatusTypes'
  BY <1>1, <1>2 DEF StatusTypes
<1>4. After(s) \in Steps => status'[After(s)] # "locked"
  BY <1>1 DEF TypeOK
<1> QED BY <1>1, <1>3, <1>4 DEF Show

LEMMA Moves ==
  ASSUME TypeOK, PageOK, Outlived, LoadFirst, ResumedLate, Move
  PROVE  /\ StatusTypes' /\ (current' # "donation" => status'[current'] # "locked")
         /\ Unmoved \/ (Moved(current') /\ Turn)
<1> USE StepsAre
<1>1. CASE goNext
  <2>1. /\ current \in Steps /\ completeStep(current) /\ ready[current]
        /\ current \in {"welcome", "profile", "playbook-review", "personalization", "final-review",
                        "report"}
    BY <1>1 DEF goNext, TypeOK, NO_BAR
  <2>2. StatusTypes' /\ current' = After(current) /\ Show(After(current)) /\
        (After(current) \in Steps => status'[After(current)] # "locked")
    BY <2>1, Finishes DEF completeStep
  <2>3. Onward /\ current' # current /\ current' \in Steps
    BY <1>1, <2>1, <2>2, AfterIs DEF Onward, goNext, Data
  <2>4. hurried' \in BOOLEAN /\ (current' = "execution" => hurried' = (page.step # "final-review"))
    BY <1>1, <2>3 DEF goNext, Onward, TypeOK
  <2>5. Moved(current')
    BY <1>1, <2>2, <2>3, <2>4 DEF goNext, Data, Show, Moved, Pending, AtOnce
  <2> QED BY <2>2, <2>3, <2>5 DEF Turn
<1>2. CASE goBack
  <2>1. /\ current \in {"assessment", "profile", "playbook-strategy", "playbook-review",
                        "personalization", "final-review"}
        /\ current = "playbook-strategy" => page.step = current
        /\ Show(STEP_ORDER[Index(current) - 1])
        /\ status' = [status EXCEPT ![current] = "completed",
                                    ![STEP_ORDER[Index(current) - 1]] = "current"]
    <3>1. Index("welcome") = 1
      BY IndexIs DEF STEP_ORDER
    <3> QED BY <1>2, <3>1 DEF goBack, NO_BAR, NO_BACK
  <2>2. current' = STEP_ORDER[Index(current) - 1]
    BY <2>1 DEF Show
  <2>3. Backward /\ current' # current /\ current' \in Steps /\ current' # "execution"
    BY <1>2, <2>1, <2>2, BeforeIs DEF Backward, goBack, Moving, Data
  <2>4. Moved(current')
    BY <1>2, <2>1, <2>2, <2>3, Shown DEF goBack, Moving, Data
  <2>5. StatusTypes' /\ status'[current'] # "locked"
    BY <2>1, <2>2, <2>3 DEF TypeOK, StatusTypes
  <2> QED BY <2>3, <2>4, <2>5 DEF Turn
<1>3. CASE gotoDonation
  <2>1. page.step = "report" /\ current' = "donation" /\ Show("donation") /\ Moving
        /\ resuming' \in {resuming, FALSE}
    BY <1>3 DEF gotoDonation, Show
  <2>2. Unmoved \/ (Moved(current') /\ Late)
    BY <2>1, Places, ShownLate DEF AfterRun
  <2>3. StatusTypes'
    BY <1>3 DEF gotoDonation, TypeOK, StatusTypes
  <2> QED BY <2>1, <2>2, <2>3 DEF Turn
<1>4. CASE completeDonation
  <2>1. current = "donation" /\ current' = "handoff" /\ Show("handoff") /\ Moving
        /\ resuming' \in {resuming, FALSE}
    BY <1>4, Places DEF completeDonation, Show
  <2>2. Unmoved \/ (Moved(current') /\ Late)
    BY <2>1, ShownLate DEF AfterRun
  <2>3. StatusTypes' /\ status'["handoff"] # "locked"
    BY <1>4 DEF completeDonation, TypeOK, StatusTypes
  <2> QED BY <2>1, <2>2, <2>3 DEF Turn
<1>5. CASE AssessmentDone
  <2>1. /\ current = "assessment" /\ page.step = "assessment" /\ page.pc = "assessed"
        /\ completeStep("assessment")
    BY <1>5, Places DEF AssessmentDone
  <2>2. StatusTypes' /\ current' = "profile" /\ Show("profile") /\ status'["profile"] # "locked"
    BY <2>1, Finishes, AfterIs DEF completeStep
  <2>3. Moved(current') /\ AssessmentLeft
    BY <1>5, <2>1, <2>2, Shown DEF AssessmentDone, Moving, Data, AssessmentLeft
  <2> QED BY <2>2, <2>3 DEF Turn
<1>6. ASSUME NEW a \in Answers, Choose(a)
      PROVE  StatusTypes' /\ status'[current'] # "locked" /\ Moved(current') /\ Chosen
  <2>1. /\ current = "playbook-strategy" /\ page.step = "playbook-strategy"
        /\ completeStep("playbook-strategy")
    BY <1>6, Places DEF Choose
  <2>2. /\ StatusTypes' /\ current' = "playbook-review" /\ Show("playbook-review")
        /\ status'["playbook-review"] # "locked"
    BY <2>1, Finishes, AfterIs DEF completeStep
  <2>3. Moved(current') /\ Chosen
    BY <1>6, <2>1, <2>2, Shown DEF Choose, Chosen
  <2> QED BY <2>2, <2>3
<1>7. CASE LeaveExecution
  <2>1. /\ current = "execution" /\ page.step = "execution" /\ page.pc = "finished"
        /\ completeStep("execution")
    BY <1>7 DEF LeaveExecution, Here
  <2>2. /\ StatusTypes' /\ current' = "reboot-resume" /\ Show("reboot-resume")
        /\ status'["reboot-resume"] # "locked"
    BY <2>1, Finishes, AfterIs DEF completeStep
  <2>3. Moved(current') /\ ExecutionLeft
    BY <1>7, <2>1, <2>2, Shown DEF LeaveExecution, Moving, Data, ExecutionLeft
  <2> QED BY <2>2, <2>3 DEF Turn
<1>8. CASE AutoSkip \/ SkipReboot \/ Resumed
  <2>1. /\ \E how \in {"completed", "skipped"} : Finish("reboot-resume", how)
        /\ Moving /\ resuming' \in {resuming, FALSE} /\ current \in AfterRun
    BY <1>8, Places DEF AutoSkip, SkipReboot, Resumed, ResumedLate, completeStep, skipStep
  <2>2. StatusTypes' /\ current' = "report" /\ Show("report") /\ status'["report"] # "locked"
    BY <2>1, Finishes, AfterIs
  <2>3. Unmoved \/ (Moved(current') /\ Late)
    BY <2>1, <2>2, ShownLate DEF AfterRun
  <2> QED BY <2>2, <2>3 DEF Turn
<1> QED BY <1>1, <1>2, <1>3, <1>4, <1>5, <1>6, <1>7, <1>8 DEF Move, Turn

\* What a step finds when it is mounted.
LEMMA Mounted ==
  ASSUME NEW s, Mount(s)
  PROVE  /\ page'.step = s /\ page'.pc = Work(s) /\ page'.action = None /\ page'.journal = NoJournal
         /\ ready' = [ready EXCEPT ![s] = ReadyWhenShown(s)]
BY DEF Mount

LEMMA WorkIs ==
  ASSUME NEW s
  PROVE  /\ Work(s) \in {"scan", "load", "prepare", "shown"}
         /\ Work(s) = "scan" <=> s = "assessment"
         /\ Work(s) = "load" <=> s = "playbook-review"
         /\ Work(s) = "prepare" <=> s = "execution"
BY DEF Work

\* A step's own state is that of the step mounted.
PageFits ==
  /\ PageOK
  /\ page.pc \in {"scan", "assessed"} => page.step = "assessment"
  /\ page.pc \in {"load", "loaded"} => page.step = "playbook-review"
  /\ page.pc \in {"prepare", "apply", "sent", "personalize", "finished"} <=> page.step = "execution"
  /\ LoadFirst

LEMMA MountedOK ==
  ASSUME TypeOK, PageOK, NEW s \in Steps \cup {"donation"}, Mount(s)
  PROVE  /\ PageFits' /\ ready' \in [Steps \cup {"donation"} -> BOOLEAN] /\ ready'[s] = ReadyWhenShown(s)
         /\ s = "final-review" /\ ready'[s] =>
              profile' # None /\ plan' # None /\ ~requiresAck(plan')
         /\ s = "playbook-review" => ~ready'[s]
<1>1. page' = [step |-> s, pc |-> Work(s), action |-> None, journal |-> NoJournal]
  BY DEF Mount
<1>2. PageOK'
  BY <1>1, WorkIs DEF PageOK, NoJournal, RunStates
<1>3. ReadyWhenShown(s) \in BOOLEAN
  <2>1. CASE s \in {"assessment", "playbook-review", "profile", "final-review"}
    BY <2>1, Zenon DEF ReadyWhenShown
  <2>2. CASE s \notin {"assessment", "playbook-review", "profile", "final-review"}
    <3>1. ReadyWhenShown(s) = (s \in {"welcome", "personalization", "report", "donation"})
      BY <2>2 DEF ReadyWhenShown
    <3> QED BY <3>1
  <2> QED BY <2>1, <2>2
<1>4. ready' \in [Steps \cup {"donation"} -> BOOLEAN] /\ ready'[s] = ReadyWhenShown(s)
  BY <1>3, Mounted DEF TypeOK
<1>5. s = "final-review" => ReadyWhenShown(s) = (profile' # None /\ plan' # None /\ ~requiresAck(plan'))
  BY DEF ReadyWhenShown
<1>6. s = "playbook-review" => ~ReadyWhenShown(s)
  BY DEF ReadyWhenShown
<1>7. page'.pc = Work(s) /\ page'.step = s
  BY <1>1
<1>8. LoadFirst'
  BY <1>4, <1>6, <1>7, WorkIs DEF LoadFirst
<1> QED BY <1>2, <1>4, <1>5, <1>6, <1>7, <1>8, WorkIs DEF PageFits

-----------------------------------------------------------------------------
(* Type correctness.                                                       *)

Quiet ==
  \/ (\E ok \in BOOLEAN : Assessed(ok) \/ LoadPlan(ok) \/ Finished(ok))
  \/ StaleAssessment \/ (\E p \in Profiles : OverrideProfile(p))
  \/ Acknowledge \/ Resume
  \/ Prepare \/ Dispatch \/ (\E reply \in Replies : Answered(reply)) \/ Unexpected

LEMMA NextIs == ASSUME Next PROVE Move \/ Entered \/ Quiet \/ Relaunch
BY DEF Next, User, ExecutionRuns, Move, Quiet

\* None of the steps that stay touches what moving is about.
LEMMA QuietStays ==
  ASSUME Quiet
  PROVE  /\ UNCHANGED <<current, status, answer, hurried>>
         /\ resuming' = resuming \/ page.step = "reboot-resume"
<1>1. ASSUME NEW ok \in BOOLEAN, Assessed(ok) \/ LoadPlan(ok) \/ Finished(ok)
      PROVE  UNCHANGED <<current, status, answer, resuming, hurried>>
  BY <1>1 DEF Assessed, LoadPlan, Finished, Stay, Executing, History
<1>2. CASE StaleAssessment \/ Acknowledge \/ \E p \in Profiles : OverrideProfile(p)
  BY <1>2 DEF StaleAssessment, OverrideProfile, Acknowledge, Stay, History
<1>3. CASE Resume
  BY <1>3 DEF Resume, Stay, Data, History
<1>4. CASE Prepare \/ Dispatch \/ Unexpected \/ \E reply \in Replies : Answered(reply)
  BY <1>4 DEF Prepare, Dispatch, Answered, Unexpected, Stay, Executing, History
<1> QED BY <1>1, <1>2, <1>3, <1>4 DEF Quiet

\* Where the page is while a step stays.
LEMMA PageStays ==
  ASSUME TypeOK, PageOK, LoadFirst, Quiet
  PROVE  PageFits' /\ page'.step = page.step
<1> DEFINE Pcs == {"shown", "scan", "assessed", "load", "loaded", "resuming"} \cup RunStates
<1>1. ASSUME NEW n \in Pcs, page' = [page EXCEPT !.pc = n]
      PROVE  PageOK' /\ page'.pc = n /\ page'.step = page.step
  BY <1>1 DEF PageOK
<1>2. ASSUME NEW n \in Pcs, page' = [page EXCEPT !.pc = n], n # "load",
             (n \in {"scan", "assessed"} => page.step = "assessment"),
             (n \in {"load", "loaded"} => page.step = "playbook-review"),
             (n \in {"prepare", "apply", "sent", "personalize", "finished"} <=> page.step = "execution")
      PROVE  PageFits' /\ page'.step = page.step
  BY <1>1, <1>2 DEF PageFits, LoadFirst
<1>3. ASSUME UNCHANGED page, ready'["playbook-review"] = ready["playbook-review"]
      PROVE  PageFits' /\ page'.step = page.step
  BY <1>3 DEF PageFits, PageOK, TypeOK, LoadFirst
<1>4. ASSUME NEW ok \in BOOLEAN, Assessed(ok) PROVE PageFits' /\ page'.step = page.step
  BY <1>2, <1>4 DEF Assessed, TypeOK
<1>5. ASSUME NEW ok \in BOOLEAN, LoadPlan(ok) PROVE PageFits' /\ page'.step = page.step
  BY <1>2, <1>5 DEF LoadPlan, TypeOK
<1>6. ASSUME NEW ok \in BOOLEAN, Finished(ok) PROVE PageFits' /\ page'.step = page.step
  BY <1>2, <1>6 DEF Finished, Here, RunStates
<1>7. CASE StaleAssessment \/ Acknowledge \/ \E p \in Profiles : OverrideProfile(p)
  <2>1. UNCHANGED page /\ ready'["playbook-review"] = ready["playbook-review"]
    BY <1>7, StepsAre DEF StaleAssessment, Acknowledge, OverrideProfile, TypeOK
  <2> QED BY <1>3, <2>1
<1>8. CASE Resume
  BY <1>2, <1>8 DEF Resume, RunStates
<1>9. CASE Prepare
  BY <1>2, <1>9 DEF Prepare, Here, RunStates
<1>10. CASE Dispatch
  <2>1. CASE page' = [page EXCEPT !.pc = "personalize"]
    BY <1>2, <1>10, <2>1 DEF Dispatch, Here, RunStates
  <2>2. ASSUME NEW a \in Todo, page' = [page EXCEPT !.pc = "sent", !.action = a]
        PROVE  PageOK' /\ page'.pc = "sent" /\ page'.step = page.step
    BY <2>2 DEF PageOK, RunStates, Todo
  <2>3. page.step = "execution"
    BY <1>10 DEF Dispatch, Here
  <2> QED BY <1>10, <2>1, <2>2, <2>3 DEF Dispatch, PageFits, LoadFirst
<1>11. ASSUME NEW reply \in Replies, Answered(reply) PROVE PageFits' /\ page'.step = page.step
  <2>1. StatusOf(reply) \in {"applied", "skipped", "failed"}
    BY DEF Replies, StatusOf
  <2>2. page' = [page EXCEPT !.pc = "apply", !.action = None, !.journal[page.action] = StatusOf(reply)]
    BY <1>11 DEF Answered
  <2>3. [page.journal EXCEPT ![page.action] = StatusOf(reply)] \in
          [Actions -> {"applied", "skipped", "failed", None}]
    BY <2>1 DEF PageOK
  <2>4. PageOK' /\ page'.pc = "apply" /\ page'.step = page.step
    BY <2>2, <2>3 DEF PageOK, RunStates
  <2>5. page.step = "execution"
    BY <1>11 DEF Answered, Here
  <2> QED BY <2>4, <2>5 DEF PageFits, LoadFirst
<1>12. CASE Unexpected
  <2>1. PageOK' /\ page'.pc = "finished" /\ page'.step = page.step /\ page.step = "execution"
    BY <1>12 DEF Unexpected, Here, PageOK, RunStates
  <2> QED BY <2>1 DEF PageFits, LoadFirst
<1> QED BY <1>4, <1>5, <1>6, <1>7, <1>8, <1>9, <1>10, <1>11, <1>12 DEF Quiet

LEMMA OneMore ==
  ASSUME applied \in [Actions -> Nat], NEW x, NEW n \in 0 .. 1
  PROVE  /\ [applied EXCEPT ![x] = @ + n] \in [Actions -> Nat]
         /\ \A a \in Actions : /\ a # x => [applied EXCEPT ![x] = @ + n][a] = applied[a]
                               /\ a = x => [applied EXCEPT ![x] = @ + n][a] = applied[a] + n
<1>1. CASE x \in Actions
  BY <1>1
<1>2. CASE x \notin Actions
  <2>1. [applied EXCEPT ![x] = @ + n] = applied
    BY <1>2
  <2> QED BY <1>2, <2>1
<1> QED BY <1>1, <1>2

\* What a relaunch leaves of the wizard.
LEMMA Relaunched ==
  ASSUME Relaunch
  PROVE  /\ current' = (IF current = "execution" THEN "reboot-resume" ELSE current)
         /\ Mount(current') /\ demo' = FALSE /\ stale' = FALSE /\ resuming' = FALSE
         /\ UNCHANGED <<profile, answer, plan, result, seen, hurried>>
         /\ \E n \in 0 .. 1 : applied' = IF page.pc = "sent" THEN [applied EXCEPT ![page.action] = @ + n]
                                         ELSE applied
BY DEF Relaunch

LEMMA PlansAre ==
  ASSUME ProfileKnown, AnswerGiven, TypeOK, PageOK, Outlived, LoadFirst, page.pc = "load", NEW mock \in BOOLEAN
  PROVE  /\ PlanFor(mock) \in Plans
         /\ PlanFor(mock) \in [profile : {profile}, answer : {answer}, mock : BOOLEAN]
<1>1. current = "playbook-review"
  BY Places
<1>2. profile \in Known /\ answer \in Answers
  BY <1>1 DEF ProfileKnown, AnswerGiven
<1> QED BY <1>2 DEF PlanFor, Known, Plans

\* What a move does to the page: nothing while the step that is left has its
\* exit, or the new step is mounted.
LEMMA MovePages ==
  ASSUME TypeOK, PageOK, Outlived, LoadFirst, Moved(current'), Turn
  PROVE  /\ current' \in Steps \cup {"donation"}
         /\ PageFits' /\ Outlived' /\ ready' \in [Steps \cup {"donation"} -> BOOLEAN]
         /\ page'.pc # "assessed"
         /\ page'.step = "playbook-review" /\ ready'["playbook-review"] =>
              page.step = "playbook-review" /\ ready["playbook-review"] /\ UNCHANGED <<plan, answer>>
         /\ page'.step = "final-review" /\ ready'["final-review"] => plan' # None /\ ~requiresAck(plan')
         /\ page'.step = "execution" /\ page'.pc # "finished" =>
              /\ current' = "execution" /\ page'.pc = "prepare" /\ page'.action = None
              /\ page'.journal = NoJournal
<1>1. current' \in Steps \cup {"donation"}
  BY StepsAre DEF Turn, Onward, Backward, AssessmentLeft, Chosen, ExecutionLeft, Late, AfterRun
<1>2. CASE AtOnce(current')
  <2>1. Mount(current')
    BY <1>2 DEF AtOnce
  <2>2. /\ page'.step = current' /\ page'.pc = Work(current') /\ page'.action = None
        /\ page'.journal = NoJournal
    BY <2>1, Mounted
  <2> QED BY <1>1, <2>1, <2>2, MountedOK, WorkIs DEF Outlived
<1>3. CASE Pending(current')
  <2>1. UNCHANGED <<page, ready, stale, demo>> /\ (current' = page.step \/ Exits)
    BY <1>3 DEF Pending, Moved
  <2>2. Exits
    BY <2>1 DEF Outlived, Moved
  <2>3. UNCHANGED <<plan, answer>>
    BY <2>2 DEF Turn, Onward, Backward, AssessmentLeft, Chosen, ExecutionLeft, Late, Exits
  <2>4. Exits'
    BY <2>1, <2>2, <2>3 DEF Exits, needsReboot
  <2>5. page.step \in {"playbook-review", "execution", "report", "reboot-resume"}
    BY <2>2 DEF Exits
  <2>6. page.step = "execution" => page.pc = "finished"
    BY DEF Moved, Turn, Onward, Backward, AssessmentLeft, Chosen, ExecutionLeft, Late, AfterRun, Outlived
  <2>7. Outlived'
    <3>1. CASE page.step = "playbook-review"
      <4>1. current \in {"playbook-review", "playbook-strategy", "personalization", "final-review", "execution"}
        BY <3>1 DEF Outlived
      <4>2. current' \in {"playbook-review", "playbook-strategy", "personalization", "final-review", "execution"}
        BY <3>1, <4>1 DEF Turn, Onward, Backward, AssessmentLeft, Chosen, ExecutionLeft, Late, AfterRun
      <4> QED BY <2>1, <2>4, <3>1, <4>2 DEF Outlived
    <3>2. CASE page.step # "playbook-review"
      <4>1. current \in AfterRun \cup {"execution"}
        BY <2>5, <3>2 DEF Outlived, AfterRun
      <4>2. current' \in AfterRun
        BY <4>1 DEF Turn, Onward, Backward, AssessmentLeft, Chosen, ExecutionLeft, Late, AfterRun
      <4> QED BY <2>1, <2>4, <2>6, <3>2, <4>2 DEF Outlived
    <3> QED BY <3>1, <3>2
  <2>8. PageFits' /\ ready' \in [Steps \cup {"donation"} -> BOOLEAN] /\ page'.pc # "assessed"
    BY <2>1, <2>5 DEF PageFits, TypeOK, PageOK, LoadFirst
  <2> QED BY <1>1, <2>1, <2>3, <2>5, <2>6, <2>7, <2>8
<1> QED BY <1>2, <1>3 DEF Moved

LEMMA OutlivedNext ==
  ASSUME TypeOK, PageOK, Outlived, LoadFirst, ResumedLate, ScanFirst, [Next]_vars
  PROVE  Outlived'
<1>1. CASE Move
  <2>1. CASE Unmoved
    BY <2>1 DEF Unmoved, Outlived, Exits, needsReboot
  <2>2. CASE Moved(current') /\ Turn
    BY <2>2, MovePages
  <2> QED BY <1>1, <2>1, <2>2, Moves
<1>2. CASE Entered \/ Relaunch
  <2>1. Mount(current')
    BY <1>2, Relaunched DEF Entered
  <2> QED BY <2>1, Mounted DEF Outlived
<1>3. CASE Quiet
  <2>1. current' = current /\ page'.step = page.step
    BY <1>3, QuietStays, PageStays
  <2> SUFFICES ASSUME page.step # current
                  PROVE  /\ UNCHANGED <<plan, demo>>
                         /\ ready'["playbook-review"] = ready["playbook-review"]
                         /\ page'.pc = page.pc \/ page.step = "reboot-resume"
                                               \/ page'.pc = "finished"
    BY <2>1 DEF Outlived, Exits, needsReboot
  <2>2. page.step \in {"playbook-review", "execution", "report", "reboot-resume"} /\ ~stale
        /\ page.pc \notin {"load", "scan"}
    BY Places DEF Outlived, Exits, ScanFirst, AfterRun, TypeOK
  <2>3. CASE Resume
    BY <2>3 DEF Resume, Data
  <2>4. ASSUME NEW ok \in BOOLEAN, Assessed(ok) \/ LoadPlan(ok) \/ Finished(ok) PROVE FALSE
    BY <2>2, <2>4 DEF Assessed, LoadPlan, Finished, Here
  <2>5. CASE StaleAssessment
    BY <2>2, <2>5 DEF StaleAssessment
  <2>6. CASE Acknowledge \/ \E p \in Profiles : OverrideProfile(p)
    BY <2>2, <2>6 DEF Acknowledge, OverrideProfile
  <2>7. CASE Prepare \/ Dispatch \/ Unexpected \/ \E reply \in Replies : Answered(reply)
    BY <2>7 DEF Prepare, Dispatch, Unexpected, Answered, Here
  <2> QED BY <1>3, <2>3, <2>4, <2>5, <2>6, <2>7 DEF Quiet
<1>4. CASE UNCHANGED vars
  BY <1>4 DEF vars, store, Outlived, Exits, needsReboot
<1> QED BY <1>1, <1>2, <1>3, <1>4, NextIs

LEMMA TypeOKNext ==
  ASSUME TypeOK, PageOK, Outlived, LoadFirst, ResumedLate, ProfileKnown, AnswerGiven, [Next]_vars
  PROVE  TypeOK' /\ PageOK' /\ LoadFirst'
<1> USE StepsAre
<1>0. ASSUME PageFits' PROVE page'.step \in Steps \cup {"donation"} /\
                             page'.journal \in [Actions -> {"applied", "skipped", "failed", None}]
  BY <1>0 DEF PageFits, PageOK
<1>1. CASE Move
  <2>1. StatusTypes' /\ (current' # "donation" => status'[current'] # "locked")
    BY <1>1, Moves
  <2>2. CASE Unmoved
    <3>1. resuming' \in BOOLEAN
      BY <2>2 DEF Unmoved, TypeOK
    <3>2. UNCHANGED <<current, ready, demo, profile, answer, plan, page, stale, hurried, applied>>
      BY <2>2 DEF Unmoved
    <3> QED BY <2>1, <3>1, <3>2 DEF TypeOK, PageOK, LoadFirst, StatusTypes
  <2>3. CASE Moved(current') /\ Turn
    <3>1. current' \in Steps \cup {"donation"} /\ PageFits' /\ ready' \in [Steps \cup {"donation"} -> BOOLEAN]
      BY <2>3, MovePages
    <3>2. answer' \in Answers \cup {None} /\ resuming' \in BOOLEAN /\
          plan' \in Plans \cup {None}
      BY <2>3 DEF TypeOK, Turn, Onward, Backward, AssessmentLeft, Chosen, ExecutionLeft, Late
    <3>3. demo' \in BOOLEAN /\ profile' \in Profiles \cup {DemoProfile, None} /\ stale' \in BOOLEAN
          /\ applied' \in [Actions -> Nat] /\ hurried' \in BOOLEAN
      BY <2>3 DEF TypeOK, Moved, Pending, AtOnce
    <3> QED BY <1>0, <2>1, <3>1, <3>2, <3>3 DEF TypeOK, StatusTypes, PageFits
  <2> QED BY <1>1, <2>2, <2>3, Moves
<1>5. CASE Entered
  <2>1. Mount(current) /\ UNCHANGED <<current, status, demo, profile, answer, plan, stale, resuming,
                                      hurried, applied>>
    BY <1>5 DEF Entered, Moving, Data, History
  <2>2. PageFits' /\ ready' \in [Steps \cup {"donation"} -> BOOLEAN]
    BY <2>1, MountedOK DEF TypeOK
  <2> QED BY <1>0, <2>1, <2>2 DEF TypeOK, PageFits
<1>2. CASE Quiet
  <2>1. UNCHANGED <<current, status, answer, hurried>> /\ PageFits'
    BY <1>2, QuietStays, PageStays
  <2>2. /\ ready' \in [Steps \cup {"donation"} -> BOOLEAN] /\ demo' \in BOOLEAN
        /\ profile' \in Profiles \cup {DemoProfile, None}
        /\ plan' \in Plans \cup {None}
        /\ stale' \in BOOLEAN /\ resuming' \in BOOLEAN /\ applied' \in [Actions -> Nat]
    <3>1. ASSUME NEW ok \in BOOLEAN, Assessed(ok)
          PROVE  /\ UNCHANGED <<ready, plan, stale, resuming, applied>>
                 /\ demo' \in BOOLEAN /\ profile' \in Profiles \cup {DemoProfile, None}
      BY <3>1 DEF Assessed, Stay, History
    <3>2. ASSUME NEW ok \in BOOLEAN, LoadPlan(ok)
          PROVE  /\ UNCHANGED <<demo, profile, stale, resuming, applied>>
                 /\ ready' \in [Steps \cup {"donation"} -> BOOLEAN]
                 /\ plan' \in Plans \cup {None}
      <4>1. /\ UNCHANGED <<demo, profile, stale, resuming, applied>> /\ page.pc = "load"
            /\ ready' = [ready EXCEPT !["playbook-review"] = ok \/ demo]
            /\ plan' = IF ok \/ demo THEN PlanFor(~ok) ELSE plan
        BY <3>2 DEF LoadPlan, Stay, History
      <4>2. (ok \/ demo) \in BOOLEAN /\ (~ok) \in BOOLEAN
        OBVIOUS
      <4>3. ready' \in [Steps \cup {"donation"} -> BOOLEAN]
        BY <4>1, <4>2 DEF TypeOK
      <4>4. PlanFor(~ok) \in Plans
        BY <4>1, <4>2, PlansAre
      <4> QED BY <4>1, <4>3, <4>4 DEF TypeOK
    <3>3. ASSUME NEW ok \in BOOLEAN, Finished(ok)
          PROVE  UNCHANGED <<ready, demo, profile, plan, stale, resuming, applied>>
      BY <3>3 DEF Finished, Executing, Stay
    <3>4. CASE StaleAssessment
      BY <3>4 DEF StaleAssessment, TypeOK, History
    <3>5. ASSUME NEW p \in Profiles, OverrideProfile(p)
          PROVE  UNCHANGED <<ready, demo, plan, stale, resuming, applied>> /\ profile' \in Profiles
      BY <3>5 DEF OverrideProfile, Stay, History
    <3>6. CASE Acknowledge
      <4>1. /\ UNCHANGED <<demo, profile, plan, stale, resuming, applied>>
            /\ ready' = [ready EXCEPT !["final-review"] = (profile # None)]
        BY <3>6 DEF Acknowledge, Stay
      <4>2. (profile # None) \in BOOLEAN
        OBVIOUS
      <4>3. ready' \in [Steps \cup {"donation"} -> BOOLEAN]
        BY <4>1, <4>2 DEF TypeOK
      <4> QED BY <4>1, <4>3 DEF TypeOK
    <3>7. CASE Resume
      BY <3>7 DEF Resume, Stay, Data, History, TypeOK
    <3>8. CASE Prepare \/ Dispatch
      BY <3>8 DEF Prepare, Dispatch, Executing, Stay, TypeOK
    <3>9. ASSUME NEW reply \in Replies, Answered(reply)
          PROVE  /\ UNCHANGED <<ready, demo, profile, plan, stale, resuming>>
                 /\ applied' \in [Actions -> Nat]
      <4>1. PICK n \in Effects(reply) : applied' = [applied EXCEPT ![page.action] = @ + n]
        BY <3>9 DEF Answered
      <4>2. n \in 0 .. 1
        BY DEF Effects, Replies
      <4> QED BY <3>9, <4>1, <4>2, OneMore DEF Answered, Executing, Stay, TypeOK
    <3>10. CASE Unexpected
      <4>1. PICK n \in 0 .. 1 : applied' = IF page.action = None THEN applied
                                           ELSE [applied EXCEPT ![page.action] = @ + n]
        BY <3>10 DEF Unexpected
      <4> QED BY <3>10, <4>1, OneMore DEF Unexpected, Executing, Stay, TypeOK
    <3> QED BY <1>2, <3>1, <3>2, <3>3, <3>4, <3>5, <3>6, <3>7, <3>8, <3>9, <3>10 DEF Quiet, TypeOK
  <2> QED BY <1>0, <2>1, <2>2 DEF TypeOK, PageFits
<1>3. CASE Relaunch
  <2>1. /\ current' = (IF current = "execution" THEN "reboot-resume" ELSE current) /\ Mount(current')
        /\ demo' = FALSE /\ stale' = FALSE /\ resuming' = FALSE
        /\ UNCHANGED <<profile, answer, plan, hurried>>
    BY <1>3, Relaunched
  <2>2. current' \in Steps \cup {"donation"}
    BY <2>1 DEF TypeOK
  <2>3. PageFits' /\ ready' \in [Steps \cup {"donation"} -> BOOLEAN]
    BY <2>1, <2>2, MountedOK
  <2>4. /\ status' \in [Steps -> {"locked", "current", "completed", "skipped"}]
        /\ current' # "donation" => status'[current'] # "locked"
    <3>1. status' = IF current = "execution"
                    THEN [status EXCEPT !["execution"] = "completed", !["reboot-resume"] = "current"]
                    ELSE status
      BY <1>3 DEF Relaunch
    <3> QED BY <2>1, <3>1 DEF TypeOK
  <2>5. applied' \in [Actions -> Nat]
    <3>1. PICK n \in 0 .. 1 : applied' = IF page.pc = "sent" THEN [applied EXCEPT ![page.action] = @ + n]
                                         ELSE applied
      BY <1>3, Relaunched
    <3> QED BY <3>1, OneMore DEF TypeOK
  <2> QED BY <1>0, <2>1, <2>2, <2>3, <2>4, <2>5 DEF TypeOK, PageFits
<1>4. CASE UNCHANGED vars
  BY <1>4 DEF vars, store, TypeOK, PageOK, LoadFirst, Todo
<1> QED BY <1>1, <1>2, <1>3, <1>4, <1>5, NextIs

-----------------------------------------------------------------------------
(* What the steps that stay leave alone.                                   *)

Runs ==
  \/ Prepare \/ Dispatch \/ (\E reply \in Replies : Answered(reply))
  \/ (\E ok \in BOOLEAN : Finished(ok)) \/ Unexpected

Calm ==
  \/ (\E ok \in BOOLEAN : Assessed(ok) \/ LoadPlan(ok))
  \/ StaleAssessment \/ (\E p \in Profiles : OverrideProfile(p))
  \/ Acknowledge \/ Resume

LEMMA QuietIs == ASSUME Quiet PROVE Runs \/ Calm
BY DEF Quiet, Runs, Calm

LEMMA RunsQuiet == ASSUME Runs PROVE Quiet
BY DEF Quiet, Runs

LEMMA CalmQuiet == ASSUME Calm PROVE Quiet
BY DEF Quiet, Calm

LEMMA RunsStay ==
  ASSUME Runs
  PROVE  /\ current = "execution" /\ page.step = "execution"
         /\ UNCHANGED <<current, ready, demo, profile, answer, plan, stale, resuming, seen, hurried>>
<1>1. ASSUME NEW ok \in BOOLEAN, Finished(ok)
      PROVE  /\ current = "execution" /\ page.step = "execution"
             /\ UNCHANGED <<current, ready, demo, profile, answer, plan, stale, resuming, seen, hurried>>
  BY <1>1 DEF Finished, Here, Executing, Stay
<1>2. ASSUME NEW reply \in Replies, Answered(reply)
      PROVE  /\ current = "execution" /\ page.step = "execution"
             /\ UNCHANGED <<current, ready, demo, profile, answer, plan, stale, resuming, seen, hurried>>
  BY <1>2 DEF Answered, Here, Executing, Stay
<1>3. CASE Prepare \/ Dispatch \/ Unexpected
  BY <1>3 DEF Prepare, Dispatch, Unexpected, Here, Executing, Stay
<1> QED BY <1>1, <1>2, <1>3 DEF Runs

LEMMA CalmStays ==
  ASSUME TypeOK, PageOK, Outlived, LoadFirst, ScanFirst, Calm
  PROVE  page.step # "execution" /\ UNCHANGED <<current, answer, result, applied, hurried>>
<1>1. ASSUME NEW ok \in BOOLEAN, Assessed(ok) \/ LoadPlan(ok)
      PROVE  page.step # "execution" /\ UNCHANGED <<current, answer, result, applied, hurried>>
  BY <1>1, Places DEF Assessed, LoadPlan, Stay, History
<1>2. CASE StaleAssessment
  <2>1. page.step # "execution"
    BY <1>2 DEF StaleAssessment, ScanFirst, Outlived, AfterRun
  <2> QED BY <1>2, <2>1 DEF StaleAssessment, History
<1>3. ASSUME NEW p \in Profiles, OverrideProfile(p)
      PROVE  page.step # "execution" /\ UNCHANGED <<current, answer, result, applied, hurried>>
  BY <1>3 DEF OverrideProfile, Stay, History
<1>4. CASE Acknowledge \/ Resume
  BY <1>4 DEF Acknowledge, Resume, Stay, Data, History
<1> QED BY <1>1, <1>2, <1>3, <1>4 DEF Calm

-----------------------------------------------------------------------------
(* The way to the execution.                                               *)

LEMMA ScanFirstNext ==
  ASSUME TypeOK, PageOK, Outlived, LoadFirst, ResumedLate, ScanFirst, [Next]_vars
  PROVE  ScanFirst'
<1> USE DEF ScanFirst
<1>1. CASE Move
  <2>1. CASE Unmoved
    BY <2>1 DEF Unmoved
  <2>2. CASE Moved(current') /\ Turn
    <3>1. page'.pc # "assessed"
      BY <2>2, MovePages
    <3>2. ASSUME stale' PROVE current' \in {"welcome", "assessment"}
      <4>1. current \in {"welcome", "assessment"} /\ page.pc # "assessed"
        BY <2>2, <3>2, Places DEF Moved, Pending, AtOnce
      <4> QED BY <2>2, <4>1 DEF Turn, Onward, Backward, AssessmentLeft, Chosen, ExecutionLeft, Late, AfterRun
    <3> QED BY <3>1, <3>2
  <2> QED BY <1>1, <2>1, <2>2, Moves
<1>2. CASE Runs
  <2>1. current' = "execution" /\ stale' = stale
    BY <1>2, RunsStay
  <2>2. ~stale
    BY <1>2, RunsStay
  <2> QED BY <2>1, <2>2
<1>3. CASE Calm
  <2>1. ASSUME NEW ok \in BOOLEAN, Assessed(ok) PROVE ~stale'
    BY <2>1 DEF Assessed, Stay
  <2>2. ASSUME NEW ok \in BOOLEAN, LoadPlan(ok) PROVE ~stale'
    BY <2>2, Places DEF LoadPlan, Stay
  <2>3. CASE StaleAssessment
    BY <2>3 DEF StaleAssessment
  <2>4. ASSUME NEW p \in Profiles, OverrideProfile(p) PROVE UNCHANGED <<current, stale, page>>
    BY <2>4 DEF OverrideProfile, Stay
  <2>5. CASE Acknowledge
    BY <2>5 DEF Acknowledge, Stay
  <2>6. CASE Resume
    BY <2>6 DEF Resume, Stay
  <2> QED BY <1>3, <2>1, <2>2, <2>3, <2>4, <2>5, <2>6 DEF Calm
<1>4. CASE Relaunch
  BY <1>4, Relaunched
<1>5. CASE UNCHANGED vars
  BY <1>5 DEF vars, store
<1>6. CASE Entered
  <2>1. Mount(current) /\ Moving /\ UNCHANGED <<current, stale, resuming>>
    BY <1>6 DEF Entered
  <2>2. page'.step = current /\ page'.pc # "assessed"
    BY <2>1, Mounted, WorkIs
  <2> QED BY <2>1, <2>2
<1> QED BY <1>1, <1>2, <1>3, <1>4, <1>5, <1>6, NextIs, QuietIs

LEMMA ProfileKnownNext ==
  ASSUME TypeOK, PageOK, Outlived, LoadFirst, ResumedLate, ScanFirst, ProfileKnown, [Next]_vars
  PROVE  ProfileKnown'
<1> USE DEF ProfileKnown, Known
<1>1. CASE Move
  <2>1. CASE Unmoved
    BY <2>1 DEF Unmoved
  <2>2. CASE Moved(current') /\ Turn
    <3>1. page'.pc # "assessed" /\ profile' = profile
      BY <2>2, MovePages DEF Moved
    <3>2. current' \notin {"welcome", "assessment"} =>
            current \notin {"welcome", "assessment"} \/ page.pc = "assessed"
      BY <2>2 DEF Turn, Onward, Backward, AssessmentLeft, Chosen, ExecutionLeft, Late, AfterRun
    <3> QED BY <3>1, <3>2
  <2> QED BY <1>1, <2>1, <2>2, Moves
<1>2. CASE Runs
  BY <1>2, RunsStay, PageStays, RunsQuiet
<1>3. CASE Calm
  <2>1. ASSUME NEW ok \in BOOLEAN, Assessed(ok) PROVE profile' \in Known
    BY <2>1 DEF Assessed
  <2>2. ASSUME NEW ok \in BOOLEAN, LoadPlan(ok) PROVE profile' \in Known
    BY <2>2, Places DEF LoadPlan
  <2>3. CASE StaleAssessment
    BY <2>3 DEF StaleAssessment
  <2>4. ASSUME NEW p \in Profiles, OverrideProfile(p) PROVE profile' \in Known
    BY <2>4 DEF OverrideProfile
  <2>5. CASE Acknowledge
    BY <2>5 DEF Acknowledge, Stay
  <2>6. CASE Resume
    BY <2>6 DEF Resume, Stay, Data
  <2> QED BY <1>3, <2>1, <2>2, <2>3, <2>4, <2>5, <2>6 DEF Calm
<1>4. CASE Relaunch
  <2>1. Mount(current') /\ profile' = profile
    BY <1>4, Relaunched
  <2>2. page'.pc # "assessed"
    BY <2>1, Mounted, WorkIs
  <2>3. current' \notin {"welcome", "assessment"} => current \notin {"welcome", "assessment"}
    BY <1>4, Relaunched
  <2> QED BY <2>1, <2>2, <2>3
<1>5. CASE UNCHANGED vars
  BY <1>5 DEF vars, store
<1>6. CASE Entered
  <2>1. Mount(current) /\ Moving /\ UNCHANGED <<current, stale, resuming>>
    BY <1>6 DEF Entered
  <2>2. page'.step = current /\ page'.pc # "assessed"
    BY <2>1, Mounted, WorkIs
  <2> QED BY <2>1, <2>2 DEF Moving, Data
<1> QED BY <1>1, <1>2, <1>3, <1>4, <1>5, <1>6, NextIs, QuietIs

LEMMA AnswerGivenNext ==
  ASSUME TypeOK, PageOK, Outlived, LoadFirst, ResumedLate, AnswerGiven, [Next]_vars
  PROVE  AnswerGiven'
<1> USE DEF AnswerGiven
<1>1. CASE Move
  <2>1. CASE Unmoved
    BY <2>1 DEF Unmoved
  <2>2. CASE Chosen
    BY <2>2 DEF Chosen
  <2>3. CASE Onward \/ Backward \/ AssessmentLeft \/ ExecutionLeft \/ Late
    BY <2>3 DEF Onward, Backward, AssessmentLeft, ExecutionLeft, Late, AfterRun
  <2> QED BY <1>1, <2>1, <2>2, <2>3, Moves DEF Turn
<1>2. CASE Quiet
  BY <1>2, QuietStays
<1>3. CASE Relaunch
  BY <1>3, Relaunched
<1>4. CASE UNCHANGED vars
  BY <1>4 DEF vars, store
<1>6. CASE Entered
  BY <1>6 DEF Entered, Moving, Data
<1> QED BY <1>1, <1>2, <1>3, <1>4, <1>6, NextIs

LEMMA PlanCurrentNext ==
  ASSUME TypeOK, PageOK, Outlived, LoadFirst, ResumedLate, ScanFirst, ProfileKnown, AnswerGiven, PlanCurrent, [Next]_vars
  PROVE  PlanCurrent'
<1> USE DEF PlanCurrent
<1>1. CASE Move
  <2>1. CASE Unmoved
    BY <2>1 DEF Unmoved
  <2>2. CASE Moved(current') /\ Turn
    <3>1. page'.step = "playbook-review" /\ ready'["playbook-review"] =>
            page.step = "playbook-review" /\ ready["playbook-review"] /\ UNCHANGED <<plan, answer>>
      BY <2>2, MovePages
    <3>2. profile' = profile
      BY <2>2 DEF Moved
    <3>3. ASSUME current' \in {"personalization", "final-review", "execution"}
          PROVE  /\ UNCHANGED <<plan, answer>>
                 /\ \/ page.step = "playbook-review" /\ ready["playbook-review"]
                    \/ current \in {"personalization", "final-review", "execution"}
      BY <2>2, <3>3, Places DEF Turn, Onward, Backward, AssessmentLeft, Chosen, ExecutionLeft, Late, AfterRun
    <3> QED BY <3>1, <3>2, <3>3
  <2> QED BY <1>1, <2>1, <2>2, Moves
<1>2. CASE Runs
  BY <1>2, RunsStay, PageStays, RunsQuiet
<1>3. CASE Calm
  <2>1. ASSUME NEW ok \in BOOLEAN, Assessed(ok) PROVE current' = "assessment" /\ page'.step = "assessment"
    BY <2>1, Places, <1>3, PageStays, CalmQuiet DEF Assessed, Stay
  <2>2. ASSUME NEW ok \in BOOLEAN, LoadPlan(ok) PROVE PlanCurrent'
    <3>1. /\ current' = "playbook-review" /\ page'.step = "playbook-review" /\ UNCHANGED <<profile, answer>> /\ page.pc = "load"
          /\ ready' = [ready EXCEPT !["playbook-review"] = ok \/ demo]
          /\ plan' = IF ok \/ demo THEN PlanFor(~ok) ELSE plan
      BY <2>2, Places, <1>3, PageStays, CalmQuiet DEF LoadPlan, Stay
    <3>2. ready'["playbook-review"] => ok \/ demo
      BY <3>1, StepsAre DEF TypeOK
    <3>3. (~ok) \in BOOLEAN
      OBVIOUS
    <3>4. PlanFor(~ok) \in [profile : {profile}, answer : {answer}, mock : BOOLEAN]
      BY <3>1, <3>3, PlansAre
    <3> QED BY <3>1, <3>2, <3>4
  <2>3. CASE StaleAssessment
    BY <2>3, Places DEF StaleAssessment, ScanFirst, TypeOK, Outlived, AfterRun
  <2>4. ASSUME NEW p \in Profiles, OverrideProfile(p)
        PROVE  current' = "profile" /\ page'.step = "profile"
    BY <2>4, Places DEF OverrideProfile, Stay
  <2>5. CASE Acknowledge
    BY <2>5, StepsAre DEF Acknowledge, Stay, TypeOK
  <2>6. CASE Resume
    BY <2>6 DEF Resume, Stay, Data, PageOK
  <2> QED BY <1>3, <2>1, <2>2, <2>3, <2>4, <2>5, <2>6 DEF Calm
<1>4. CASE Relaunch
  <2>1. /\ current' = (IF current = "execution" THEN "reboot-resume" ELSE current) /\ Mount(current')
        /\ UNCHANGED <<profile, answer, plan>>
    BY <1>4, Relaunched
  <2>2. current' \in Steps \cup {"donation"}
    BY <2>1, StepsAre DEF TypeOK
  <2>3. page'.step = current' /\ (current' = "playbook-review" => ~ready'["playbook-review"])
    BY <2>1, <2>2, Mounted, MountedOK
  <2> QED BY <2>1, <2>3
<1>5. CASE UNCHANGED vars
  BY <1>5 DEF vars, store
<1>6. CASE Entered
  <2>1. Mount(current) /\ Moving /\ UNCHANGED <<current, stale, resuming>>
    BY <1>6 DEF Entered
  <2>2. page'.step = current /\ page'.pc # "assessed"
    BY <2>1, Mounted, WorkIs
  <2>3. current = "playbook-review" => ~ready'["playbook-review"]
    BY <2>1, MountedOK DEF TypeOK
  <2> QED BY <2>1, <2>2, <2>3 DEF Moving, Data
<1> QED BY <1>1, <1>2, <1>3, <1>4, <1>5, <1>6, NextIs, QuietIs

LEMMA AcknowledgedNext ==
  ASSUME TypeOK, PageOK, Outlived, LoadFirst, ResumedLate, ScanFirst, ProfileKnown, AnswerGiven,
         PlanCurrent, Acknowledged, [Next]_vars
  PROVE  Acknowledged'
<1> USE DEF Acknowledged, requiresAck
<1>1. CASE Move
  <2>1. CASE Unmoved
    BY <2>1 DEF Unmoved, AfterRun
  <2>2. CASE Moved(current') /\ Turn
    <3>1. page'.step = "final-review" /\ ready'["final-review"] => plan' # None /\ ~requiresAck(plan')
      BY <2>2, MovePages
    <3>2. ASSUME current' = "execution"
          PROVE  /\ current = "final-review" /\ ready["final-review"] /\ UNCHANGED <<plan, seen>>
                 /\ hurried' = (page.step # "final-review")
      BY <2>2, <3>2 DEF Turn, Onward, Backward, AssessmentLeft, Chosen, ExecutionLeft, Late, AfterRun, Moved
    <3>3. current = "final-review" => plan # None
      BY NoneAssumption DEF PlanCurrent, ProfileKnown, AnswerGiven, Known, Plans
    <3> QED BY <3>1, <3>2, <3>3
  <2> QED BY <1>1, <2>1, <2>2, Moves
<1>2. CASE Runs
  BY <1>2, RunsStay, PageStays, RunsQuiet
<1>3. CASE Calm
  <2>1. ASSUME NEW ok \in BOOLEAN, Assessed(ok) \/ LoadPlan(ok)
        PROVE  current' \in {"assessment", "playbook-review"} /\ page'.step = current'
    BY <2>1, Places, <1>3, PageStays, CalmQuiet DEF Assessed, LoadPlan, Stay
  <2>2. CASE StaleAssessment
    BY <2>2 DEF StaleAssessment, ScanFirst, Outlived, AfterRun
  <2>3. ASSUME NEW p \in Profiles, OverrideProfile(p) PROVE current' = "profile" /\ page'.step = "profile"
    BY <2>3, Places DEF OverrideProfile, Stay
  <2>4. CASE Acknowledge
    BY <2>4, Places DEF Acknowledge, Stay
  <2>5. CASE Resume
    BY <2>5 DEF Resume, Stay, Data, History, PageOK
  <2> QED BY <1>3, <2>1, <2>2, <2>3, <2>4, <2>5 DEF Calm
<1>4. CASE Relaunch
  <2>1. /\ current' = (IF current = "execution" THEN "reboot-resume" ELSE current) /\ Mount(current')
    BY <1>4, Relaunched
  <2>2. current' \in Steps \cup {"donation"}
    BY <2>1, StepsAre DEF TypeOK
  <2>3. page'.step = current' /\
        (current' = "final-review" /\ ready'["final-review"] => plan' # None /\ ~requiresAck(plan'))
    BY <2>1, <2>2, Mounted, MountedOK
  <2> QED BY <2>1, <2>3
<1>5. CASE UNCHANGED vars
  BY <1>5 DEF vars, store
<1>6. CASE Entered
  <2>1. Mount(current) /\ Moving /\ UNCHANGED <<current, stale, resuming>>
    BY <1>6 DEF Entered
  <2>2. page'.step = current /\ page'.pc # "assessed"
    BY <2>1, Mounted, WorkIs
  <2>3. current = "final-review" /\ ready'["final-review"] => plan' # None /\ ~requiresAck(plan')
    BY <2>1, MountedOK DEF TypeOK
  <2> QED BY <2>1, <2>2, <2>3 DEF Moving, Data, History
<1> QED BY <1>1, <1>2, <1>3, <1>4, <1>5, <1>6, NextIs, QuietIs

LEMMA ResumedLateNext ==
  ASSUME TypeOK, PageOK, Outlived, LoadFirst, ResumedLate, [Next]_vars
  PROVE  ResumedLate'
<1> USE DEF ResumedLate, AfterRun
<1>1. CASE Move
  <2>1. CASE Unmoved
    BY <2>1 DEF Unmoved
  <2>2. CASE Late
    BY <2>2 DEF Late
  <2>3. CASE Onward \/ Backward \/ AssessmentLeft \/ Chosen \/ ExecutionLeft
    <3>1. resuming' = resuming
      BY <2>3 DEF Onward, Backward, AssessmentLeft, Chosen, ExecutionLeft
    <3>2. AssessmentLeft => current = "assessment"
      BY DEF AssessmentLeft
    <3>3. current' \in AfterRun \/ current \notin AfterRun
      BY <2>3, <3>2 DEF Onward, Backward, Chosen, ExecutionLeft
    <3> QED BY <2>3, <3>1, <3>2, <3>3 DEF Onward, Backward, AssessmentLeft, Chosen, ExecutionLeft
  <2> QED BY <1>1, <2>1, <2>2, <2>3, Moves DEF Turn
<1>2. CASE Quiet
  <2>1. current' = current /\ (resuming' = resuming \/ page.step = "reboot-resume")
    BY <1>2, QuietStays
  <2>2. page.step = "reboot-resume" => current \in AfterRun
    BY Places
  <2> QED BY <2>1, <2>2
<1>3. CASE Relaunch
  BY <1>3, Relaunched
<1>4. CASE UNCHANGED vars
  BY <1>4 DEF vars, store
<1>6. CASE Entered
  BY <1>6 DEF Entered
<1> QED BY <1>1, <1>2, <1>3, <1>4, <1>6, NextIs

-----------------------------------------------------------------------------
(* The execution.                                                          *)

LEMMA NotYetRunNext ==
  ASSUME TypeOK, PageOK, Outlived, LoadFirst, ResumedLate, ScanFirst, NotYetRun, [Next]_vars
  PROVE  NotYetRun'
<1> USE DEF NotYetRun, BeforeRun
<1>1. CASE Move
  <2>1. CASE Unmoved
    BY <2>1 DEF Unmoved
  <2>2. CASE Moved(current') /\ Turn
    <3>1. UNCHANGED <<result, applied>>
      BY <2>2 DEF Moved
    <3>2. current' \in BeforeRun \cup {"execution"} => current \in BeforeRun
      BY <2>2 DEF Turn, Onward, Backward, AssessmentLeft, Chosen, ExecutionLeft, Late, AfterRun
    <3> QED BY <3>1, <3>2
  <2> QED BY <1>1, <2>1, <2>2, Moves
<1>2. CASE Runs
  BY <1>2, RunsStay, PageStays, RunsQuiet
<1>3. CASE Calm
  BY <1>3, CalmStays, PageStays, CalmQuiet
<1>4. CASE Relaunch
  <2>1. current' \in BeforeRun \cup {"execution"} => current \in BeforeRun /\ UNCHANGED <<result, applied>>
    BY <1>4, Relaunched, Places DEF TypeOK, PageOK
  <2> QED BY <2>1
<1>5. CASE UNCHANGED vars
  BY <1>5 DEF vars, store
<1>6. CASE Entered
  <2>1. Mount(current) /\ Moving /\ UNCHANGED <<current, stale, resuming>>
    BY <1>6 DEF Entered
  <2>2. page'.step = current /\ page'.pc # "assessed"
    BY <2>1, Mounted, WorkIs
  <2> QED BY <2>1, <2>2 DEF Moving, Data, History
<1> QED BY <1>1, <1>2, <1>3, <1>4, <1>5, <1>6, NextIs, QuietIs

\* The execution starts with an empty journal.
LEMMA Starts ==
  ASSUME TypeOK, PageOK, Outlived, LoadFirst, ResumedLate, NotYetRun, (Move /\ ~Unmoved) \/ Entered \/ Relaunch,
         page'.step = "execution", page'.pc # "finished"
  PROVE  /\ UNCHANGED <<result, applied>> /\ result = None /\ \A a \in Actions : applied[a] = 0
         /\ page'.pc = "prepare" /\ page'.action = None /\ page'.journal = NoJournal
<1>1. CASE Move /\ ~Unmoved
  <2>1. Moved(current') /\ Turn
    BY <1>1, Moves
  <2>2. /\ current' = "execution" /\ page'.pc = "prepare" /\ page'.action = None
        /\ page'.journal = NoJournal
    BY <2>1, MovePages
  <2>3. current = "final-review" /\ UNCHANGED <<result, applied>>
    BY <2>1, <2>2 DEF Turn, Onward, Backward, AssessmentLeft, Chosen, ExecutionLeft, Late, AfterRun, Moved
  <2> QED BY <2>2, <2>3 DEF NotYetRun, BeforeRun
<1>2. CASE Entered
  <2>1. Mount(current) /\ page.step # current /\ UNCHANGED <<result, applied>>
    BY <1>2 DEF Entered, Moving, Data, History
  <2>2. /\ page'.step = current /\ page'.pc = Work(current) /\ page'.action = None
        /\ page'.journal = NoJournal
    BY <2>1, Mounted
  <2> QED BY <2>1, <2>2, WorkIs DEF NotYetRun
<1>3. CASE Relaunch
  <2>1. Mount(current') /\ current' # "execution"
    BY <1>3, Relaunched
  <2> QED BY <2>1, Mounted
<1> QED BY <1>1, <1>2, <1>3

\* One answer of the service: what it adds to the journal and to the machine.
LEMMA AnswerIs ==
  ASSUME TypeOK, PageOK, JournalCovers, NEW reply \in Replies, Answered(reply)
  PROVE  /\ page.action \in Todo /\ applied[page.action] = 0 /\ page'.pc = "apply"
         /\ page'.action = None /\ result' = None /\ Todo' = Todo \ {page.action}
         /\ page'.journal = [page.journal EXCEPT ![page.action] = StatusOf(reply)]
         /\ applied' \in [Actions -> Nat] /\ applied'[page.action] \in Effects(reply)
         /\ \A a \in Actions : a # page.action => applied'[a] = applied[a]
<1>1. /\ page.step = "execution" /\ page.pc = "sent" /\ result' = result
      /\ page' = [page EXCEPT !.pc = "apply", !.action = None, !.journal[page.action] = StatusOf(reply)]
  BY DEF Answered, Here
<1>2. page.action \in Todo /\ applied[page.action] = 0 /\ page.action \in Actions /\ result = None
  BY <1>1 DEF JournalCovers, Todo
<1>3. /\ page'.pc = "apply" /\ page'.action = None
      /\ page'.journal = [page.journal EXCEPT ![page.action] = StatusOf(reply)]
  BY <1>1 DEF PageOK
<1>4. StatusOf(reply) # None
  BY NoneAssumption DEF StatusOf, Replies
<1>5. Todo' = Todo \ {page.action}
  BY <1>2, <1>3, <1>4 DEF Todo, PageOK
<1>6. PICK n \in Effects(reply) : applied' = [applied EXCEPT ![page.action] = @ + n]
  BY DEF Answered
<1>7. n \in 0 .. 1
  BY DEF Effects, Replies
<1>8. /\ applied' \in [Actions -> Nat] /\ applied'[page.action] = n
      /\ \A a \in Actions : a # page.action => applied'[a] = applied[a]
  BY <1>2, <1>6, <1>7, OneMore DEF TypeOK
<1> QED BY <1>1, <1>2, <1>3, <1>5, <1>8

\* An exception of the loop, or a relaunch: the action at the service, if there
\* is one, may have been applied.
LEMMA CutShort ==
  ASSUME TypeOK, PageOK, JournalCovers, AppliedOnce, Unexpected \/ Relaunch
  PROVE  AppliedOnce' /\ (page.pc # "sent" => applied' = applied)
<1>1. CASE page.pc = "sent"
  <2>1. page.action \in Todo /\ applied[page.action] = 0 /\ page.action \in Actions
    BY <1>1 DEF JournalCovers, TypeOK, Todo
  <2>2. PICK n \in 0 .. 1 : applied' = applied \/ applied' = [applied EXCEPT ![page.action] = @ + n]
    BY DEF Unexpected, Relaunch
  <2> QED BY <1>1, <2>1, <2>2, OneMore DEF AppliedOnce, TypeOK
<1>2. CASE page.pc # "sent"
  <2>1. applied' = applied
    <3>1. CASE Relaunch
      BY <1>2, <3>1 DEF Relaunch
    <3>2. CASE Unexpected
      <4>1. page.step = "execution" /\ page.pc # "finished"
        BY <3>2 DEF Unexpected, Here
      <4>2. page.action = None
        BY <1>2, <4>1 DEF JournalCovers
      <4> QED BY <3>2, <4>2 DEF Unexpected
    <3> QED BY <3>1, <3>2
  <2> QED BY <2>1 DEF AppliedOnce
<1> QED BY <1>1, <1>2

LEMMA JournalCoversNext ==
  ASSUME TypeOK, PageOK, Outlived, LoadFirst, ResumedLate, ScanFirst, NotYetRun, JournalCovers, [Next]_vars
  PROVE  JournalCovers'
<1>1. CASE (Move \/ Entered \/ Relaunch) /\ page'.step = "execution" /\ page'.pc # "finished"
  <2>1. CASE Unmoved
    BY <2>1 DEF Unmoved, JournalCovers, Todo
  <2>2. CASE ~Unmoved
    <3>1. /\ UNCHANGED <<result, applied>> /\ result = None /\ \A a \in Actions : applied[a] = 0
          /\ page'.pc = "prepare" /\ page'.action = None
      BY <1>1, <2>2, Starts
    <3> QED BY <3>1 DEF JournalCovers, Todo
  <2> QED BY <2>1, <2>2
<1>2. CASE page'.step # "execution" \/ page'.pc = "finished"
  BY <1>2 DEF JournalCovers
<1>3. CASE Runs
  <2> SUFFICES ASSUME page.pc # "finished", page'.pc # "finished" PROVE JournalCovers'
    <3>1. page'.pc # "finished" => page.pc # "finished"
      <4>1. ASSUME NEW reply \in Replies, Answered(reply) PROVE page.pc # "finished"
        BY <4>1 DEF Answered, Here
      <4>2. ASSUME NEW ok \in BOOLEAN, Finished(ok) PROVE page.pc # "finished"
        BY <4>2 DEF Finished, Here
      <4>3. CASE Prepare \/ Dispatch \/ Unexpected
        BY <4>3 DEF Prepare, Dispatch, Unexpected, Here
      <4> QED BY <1>3, <4>1, <4>2, <4>3 DEF Runs
    <3> QED BY <3>1 DEF JournalCovers
  <2>0. /\ page.step = "execution" /\ result = None /\ \A a \in Todo : applied[a] = 0
        /\ page.action # None \/ page.pc = "sent" => page.pc = "sent" /\ page.action \in Todo
    BY <1>3, RunsStay DEF JournalCovers
  <2>1. CASE Prepare
    <3>1. /\ page'.pc = "apply" /\ page'.action = page.action /\ page'.journal = page.journal
          /\ page.action = None /\ UNCHANGED <<result, applied>>
      BY <2>0, <2>1 DEF Prepare, Here, PageOK
    <3>2. Todo' = Todo
      BY <3>1 DEF Todo
    <3> QED BY <2>0, <3>1, <3>2 DEF JournalCovers
  <2>2. CASE Dispatch
    <3>1. page.pc = "apply" /\ page.action = None /\ UNCHANGED <<result, applied>>
      BY <2>0, <2>2 DEF Dispatch, Here
    <3>2. page'.journal = page.journal /\
          \/ Todo = {} /\ page'.pc = "personalize" /\ page'.action = None
          \/ page'.pc = "sent" /\ page'.action \in Todo
      BY <2>2, <3>1 DEF Dispatch, PageOK
    <3>3. Todo' = Todo
      BY <3>2 DEF Todo
    <3> QED BY <2>0, <3>1, <3>2, <3>3 DEF JournalCovers
  <2>3. ASSUME NEW reply \in Replies, Answered(reply) PROVE JournalCovers'
    <3>1. /\ page.action \in Todo /\ page'.pc = "apply" /\ page'.action = None /\ result' = None
          /\ Todo' = Todo \ {page.action}
          /\ \A a \in Actions : a # page.action => applied'[a] = applied[a]
      BY <2>3, AnswerIs
    <3>2. \A a \in Todo' : applied'[a] = 0
      BY <2>0, <3>1 DEF Todo
    <3> QED BY <3>1, <3>2 DEF JournalCovers
  <2>4. ASSUME NEW ok \in BOOLEAN, Finished(ok) PROVE FALSE
    BY <2>4 DEF Finished, PageOK
  <2>5. CASE Unexpected
    BY <2>5 DEF Unexpected, PageOK
  <2> QED BY <1>3, <2>1, <2>2, <2>3, <2>4, <2>5 DEF Runs
<1>4. CASE Calm
  BY <1>4, CalmStays, PageStays, CalmQuiet DEF JournalCovers
<1>5. CASE UNCHANGED vars
  <2>1. Todo' = Todo /\ UNCHANGED <<current, page, result, applied>>
    BY <1>5 DEF vars, store, Todo
  <2> QED BY <2>1 DEF JournalCovers
<1> QED BY <1>1, <1>2, <1>3, <1>4, <1>5, NextIs, QuietIs

LEMMA JournalIsTrueNext ==
  ASSUME TypeOK, PageOK, Outlived, LoadFirst, ResumedLate, ScanFirst, NotYetRun, JournalCovers,
         JournalIsTrue, [Next]_vars
  PROVE  JournalIsTrue'
<1>1. CASE (Move \/ Entered \/ Relaunch) /\ page'.step = "execution" /\ page'.pc # "finished"
  <2>1. CASE Unmoved
    BY <2>1 DEF Unmoved, JournalIsTrue, Todo
  <2>2. CASE ~Unmoved
    <3>1. page'.journal = NoJournal
      BY <1>1, <2>2, Starts
    <3>2. Actions \ Todo' = {}
      BY <3>1 DEF Todo, NoJournal
    <3> QED BY <3>2 DEF JournalIsTrue
  <2> QED BY <2>1, <2>2
<1>2. CASE page'.step # "execution" \/ page'.pc = "finished"
  BY <1>2 DEF JournalIsTrue
<1>3. CASE Runs
  <2>0. page.step = "execution" /\ demo' = demo
    BY <1>3, RunsStay
  <2>1. CASE Prepare \/ Dispatch
    <3>1. UNCHANGED applied /\ page'.journal = page.journal /\ page.pc # "finished"
      BY <2>1 DEF Prepare, Dispatch, Here, PageOK
    <3>2. Todo' = Todo
      BY <3>1 DEF Todo
    <3> QED BY <2>0, <3>1, <3>2 DEF JournalIsTrue
  <2>2. ASSUME NEW reply \in Replies, Answered(reply) PROVE JournalIsTrue'
    <3>1. /\ page.action \in Todo /\ Todo' = Todo \ {page.action}
          /\ page'.journal = [page.journal EXCEPT ![page.action] = StatusOf(reply)]
          /\ applied'[page.action] \in Effects(reply)
          /\ \A a \in Actions : a # page.action => applied'[a] = applied[a]
      BY <2>2, AnswerIs
    <3>2. page.pc # "finished"
      BY <2>2 DEF Answered, Here
    <3>3. ASSUME NEW a \in Actions \ Todo', ~demo'
          PROVE  /\ page'.journal[a] = "applied" => applied'[a] = 1
                 /\ page'.journal[a] = "skipped" => applied'[a] = 0
      <4>1. CASE a = page.action
        <5>1. page'.journal[a] = StatusOf(reply)
          BY <3>1, <4>1 DEF PageOK, Todo
        <5>2. /\ StatusOf(reply) = "applied" => reply = "success"
              /\ StatusOf(reply) = "skipped" => reply = "skipped"
          BY <2>0, <3>3 DEF StatusOf, Replies
        <5> QED BY <3>1, <4>1, <5>1, <5>2 DEF Effects
      <4>2. CASE a # page.action
        BY <2>0, <3>1, <3>2, <3>3, <4>2 DEF JournalIsTrue, PageOK
      <4> QED BY <4>1, <4>2
    <3> QED BY <3>3 DEF JournalIsTrue
  <2>3. ASSUME NEW ok \in BOOLEAN, Finished(ok) PROVE page'.pc = "finished"
    BY <2>3 DEF Finished, PageOK
  <2>4. CASE Unexpected
    <3>1. page'.pc = "finished"
      BY <2>4 DEF Unexpected, PageOK
    <3> QED BY <3>1 DEF JournalIsTrue
  <2> QED BY <1>3, <2>1, <2>2, <2>3, <2>4 DEF Runs, JournalIsTrue
<1>4. CASE Calm
  BY <1>4, CalmStays, PageStays, CalmQuiet DEF JournalIsTrue
<1>5. CASE UNCHANGED vars
  <2>1. Todo' = Todo /\ UNCHANGED <<current, page, demo, applied>>
    BY <1>5 DEF vars, store, Todo
  <2> QED BY <2>1 DEF JournalIsTrue
<1> QED BY <1>1, <1>2, <1>3, <1>4, <1>5, NextIs, QuietIs

LEMMA AppliedOnceNext ==
  ASSUME TypeOK, PageOK, Outlived, LoadFirst, ResumedLate, ScanFirst, JournalCovers, AppliedOnce, [Next]_vars
  PROVE  AppliedOnce'
<1>1. ASSUME UNCHANGED applied PROVE AppliedOnce'
  BY <1>1 DEF AppliedOnce
<1>2. CASE Move
  BY <1>1, <1>2, Moves DEF Unmoved, Moved
<1>3. CASE Calm
  BY <1>1, <1>3, CalmStays
<1>4. CASE Unexpected \/ Relaunch
  BY <1>4, CutShort
<1>5. CASE Prepare \/ Dispatch \/ \E ok \in BOOLEAN : Finished(ok)
  BY <1>1, <1>5 DEF Prepare, Dispatch, Finished
<1>6. ASSUME NEW reply \in Replies, Answered(reply) PROVE AppliedOnce'
  <2>1. /\ applied'[page.action] \in Effects(reply)
        /\ \A a \in Actions : a # page.action => applied'[a] = applied[a]
    BY <1>6, AnswerIs
  <2>2. Effects(reply) \subseteq 0 .. 1
    BY DEF Effects, Replies
  <2> QED BY <2>1, <2>2 DEF AppliedOnce
<1>7. CASE Entered \/ UNCHANGED vars
  BY <1>1, <1>7 DEF vars, Entered, Moving, History
<1> QED BY <1>2, <1>3, <1>4, <1>5, <1>6, <1>7, NextIs, QuietIs DEF Runs

LEMMA ResultIsTrueNext ==
  ASSUME TypeOK, PageOK, Outlived, LoadFirst, ResumedLate, ScanFirst, JournalCovers, JournalIsTrue, ResultIsTrue, [Next]_vars
  PROVE  ResultIsTrue'
<1>1. ASSUME UNCHANGED <<result, applied>> PROVE ResultIsTrue'
  BY <1>1 DEF ResultIsTrue
<1>2. CASE Move
  BY <1>1, <1>2, Moves DEF Unmoved, Moved
<1>3. CASE Calm
  BY <1>1, <1>3, CalmStays
<1>4. CASE Prepare \/ Dispatch
  BY <1>1, <1>4 DEF Prepare, Dispatch
<1>5. ASSUME NEW reply \in Replies, Answered(reply) PROVE ResultIsTrue'
  BY <1>5, AnswerIs DEF ResultIsTrue
<1>6. ASSUME NEW ok \in BOOLEAN, Finished(ok) PROVE ResultIsTrue'
  <2>1. /\ page.step = "execution" /\ page.pc = "personalize" /\ UNCHANGED applied
        /\ result' = [journal |-> page.journal, personalized |-> ok, demo |-> demo]
    BY <1>6 DEF Finished, Here, Result
  <2>2. Todo = {}
    BY <2>1 DEF JournalCovers
  <2>3. \A a \in Actions : page.journal[a] # None
    BY <2>2 DEF Todo
  <2>4. ~demo => \A a \in Actions : /\ page.journal[a] = "applied" => applied[a] = 1
                                    /\ page.journal[a] = "skipped" => applied[a] = 0
    BY <2>1, <2>2 DEF JournalIsTrue
  <2>5. result'.journal = page.journal /\ result'.demo = demo
    BY <2>1
  <2> QED BY <2>1, <2>3, <2>4, <2>5 DEF ResultIsTrue
<1>7. CASE Unexpected
  <2>1. result' = [journal |-> NoJournal, personalized |-> FALSE, demo |-> demo]
    BY <1>7 DEF Unexpected, Result
  <2> QED BY <2>1 DEF ResultIsTrue, NoJournal
<1>8. CASE Relaunch
  <2>1. result' = result
    BY <1>8, Relaunched
  <2>2. CASE page.pc = "sent"
    <3>1. result = None
      BY <2>2 DEF JournalCovers, TypeOK
    <3> QED BY <2>1, <3>1 DEF ResultIsTrue
  <2>3. CASE page.pc # "sent"
    <3>1. applied' = applied
      BY <1>8, <2>3, Relaunched
    <3> QED BY <1>1, <2>1, <3>1
  <2> QED BY <2>2, <2>3
<1>9. CASE Entered \/ UNCHANGED vars
  BY <1>1, <1>9 DEF vars, store, Entered, Moving, Data, History
<1> QED BY <1>2, <1>3, <1>4, <1>5, <1>6, <1>7, <1>8, <1>9, NextIs, QuietIs DEF Runs

-----------------------------------------------------------------------------
(* The theorems.                                                           *)

LEMMA InitIInv == ASSUME Init PROVE IInv
<1> USE DEF Init
<1>1. TypeOK
  <2>1. \A s : (s \in {"welcome", "personalization", "report", "donation"}) \in BOOLEAN
    OBVIOUS
  <2>2. ready \in [Steps \cup {"donation"} -> BOOLEAN]
    BY <2>1
  <2>3. status \in [Steps -> {"locked", "current", "completed", "skipped"}] /\ status["welcome"] # "locked"
    BY StepsAre
  <2>4. /\ page.step = "welcome" /\ page.pc = "shown" /\ page.step \in Steps
        /\ page.journal \in [Actions -> {"applied", "skipped", "failed", None}]
    BY StepsAre DEF NoJournal
  <2> QED BY <2>2, <2>3, <2>4 DEF TypeOK
<1>2. PageOK
  BY StepsAre DEF PageOK, NoJournal
<1>3. Outlived /\ LoadFirst /\ ScanFirst /\ ProfileKnown /\ AnswerGiven /\ PlanCurrent /\ Acknowledged /\ ResumedLate
  BY DEF Outlived, LoadFirst, ScanFirst, ProfileKnown, AnswerGiven, PlanCurrent, Acknowledged, ResumedLate
<1>4. NotYetRun /\ JournalCovers /\ JournalIsTrue /\ AppliedOnce /\ ResultIsTrue
  BY DEF NotYetRun, JournalCovers, JournalIsTrue, AppliedOnce, ResultIsTrue
<1> QED BY <1>1, <1>2, <1>3, <1>4 DEF IInv

LEMMA NextIInv == ASSUME IInv, [Next]_vars PROVE IInv'
BY TypeOKNext, OutlivedNext, ScanFirstNext, ProfileKnownNext, AnswerGivenNext, PlanCurrentNext, AcknowledgedNext,
   ResumedLateNext, NotYetRunNext, JournalCoversNext, JournalIsTrueNext, AppliedOnceNext,
   ResultIsTrueNext
   DEF IInv

THEOREM Invariant == Spec => []IInv
BY InitIInv, NextIInv, PTL DEF Spec

\* The stores hold what their types say, and the step shown is never locked
\* (wizard-store.ts).
THEOREM TypeCorrect == Spec => []TypeOK
<1>1. IInv => TypeOK
  BY DEF IInv
<1> QED BY Invariant, <1>1, PTL

\* Back, Resume, a relaunch or a late answer never run an action a second time
\* (the comment of WizardShell.tsx:21).
THEOREM NeverAppliedTwice == Spec => []AppliedOnce
<1>1. IInv => AppliedOnce
  BY DEF IInv
<1> QED BY Invariant, <1>1, PTL

\* What the execution runs is the plan made for the profile and the answers in
\* force, acknowledged where it must be (ExecutionStep.tsx:436-439) unless the
\* user passed the final review before it was mounted.
THEOREM AlwaysReviewed == Spec => []RunsWhatWasReviewed
<1>1. IInv => RunsWhatWasReviewed
  BY DEF IInv, RunsWhatWasReviewed, PlanCurrent, Acknowledged
<1> QED BY Invariant, <1>1, PTL

\* Outside a demo, the result says of each action what the service did
\* (ExecutionStep.tsx).
THEOREM ResultIsAlwaysTrue == Spec => []ResultIsTrue
<1>1. IInv => ResultIsTrue
  BY DEF IInv
<1> QED BY Invariant, <1>1, PTL
===============================================================================
