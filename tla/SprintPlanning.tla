--------------------------- MODULE SprintPlanning ---------------------------
(***************************************************************************)
(* The initial phase of a manual sprint: the orchestrator has the planner  *)
(* (after one research prepass) work through five steps, asks the user to  *)
(* confirm the implementation plan after the second, and starts the sprint *)
(* when backlog and todos are settled                                      *)
(* (TeamService._run_initial_sprint_phase and lifecycle.py).               *)
(*                                                                         *)
(* The loop holds a copy of the sprint (mem) over every await; role        *)
(* reports, the user's answers and the operator's commands load and save   *)
(* the file (disk) meanwhile.                                              *)
(***************************************************************************)
EXTENDS Naturals, FiniteSets

CONSTANTS
    MaxReopens,  \* SPRINT_INITIAL_PHASE_STEP_MAX_REOPENS
    FaultKinds,  \* what may go wrong, and what an operator may do
    MaxEvents    \* bound on these and on the user's answers to the plan, together

ASSUME PlanningAssumption ==
    /\ {MaxReopens, MaxEvents} \subseteq Nat
    /\ FaultKinds \subseteq {"crash", "send", "report", "docs", "stop", "restart"}

VARIABLES
    disk,     \* the sprint's file
    mem,      \* the loop's copy of it
    loop,     \* what the loop waits for, and how it was entered
    req,      \* the latest planning request of every step
    backlog,  \* what the backlog files hold for this sprint
    active,   \* the scheduler's active sprint is this one
    answers,  \* messages of the user that are being interpreted, and the copy held
    task,     \* a background task is to resume the sprint, active or not
    said, faults

vars == <<disk, mem, loop, req, backlog, active, answers, task, said, faults>>

Step == 1..5
Milestone == 1     \* milestone_refinement
ArtifactSync == 2
Definition == 3    \* backlog_definition
Ranking == 4       \* backlog_prioritization
Finalization == 5  \* todo_finalization

\* "hasty" is a backlog that was ranked and put into the sprint although it does
\* not cover the requirements or the plan's actions.
Backlogs == {"none", "hasty", "defined", "ranked", "planned"}
Relevant(b) == b # "none"
Covered(b) == b \in {"defined", "ranked", "planned"}
Ranked(b) == b \in {"hasty", "ranked", "planned"}
Selected(b) == b \in {"hasty", "planned"}

\* The number of the plan's revision is left out: nothing depends on it.
Plans == [status: {"none", "pending", "confirmed", "revision_requested"},
          changes: SUBSET (1..MaxEvents), addressed: SUBSET (1..MaxEvents)]
Sprints == [status: {"planning", "running", "blocked", "failed", "closeout"},
            resumable: BOOLEAN, done: SUBSET Step, plan: Plans,
            reopens: [Step -> 0..MaxReopens], wrapUp: BOOLEAN,
            research: {"none", "degraded", "sourced"}, queue: BOOLEAN]
Stages == {"idle", "asking", "sending", "reporting", "drafting", "ending"}
Terminal == {"completed", "blocked"}  \* failed and cancelled count as blocked
Requests == [status: {"none", "open"} \cup Terminal, plan: BOOLEAN,
             persisted: BOOLEAN, titled: BOOLEAN, research: BOOLEAN]

NewSprint == [status |-> "planning", resumable |-> FALSE, done |-> {},
    plan |-> [status |-> "none", changes |-> {}, addressed |-> {}],
    reopens |-> [s \in Step |-> 0], wrapUp |-> FALSE, research |-> "none",
    queue |-> FALSE]
NoRequest == [status |-> "none", plan |-> FALSE, persisted |-> FALSE,
              titled |-> FALSE, research |-> FALSE]
Idle == [stage |-> "idle", step |-> 1, first |-> TRUE, guarded |-> TRUE]

Fault(kind) == kind \in FaultKinds /\ said + faults < MaxEvents /\ faults' = faults + 1
SaveBoth(sprint) == mem' = sprint /\ disk' = sprint
Stage(s) == loop' = [loop EXCEPT !.stage = s]
Returns == loop' = Idle /\ mem' = NewSprint  \* the loop's copy goes with it
others == <<backlog, answers, said>>

Confirmed(m) == m.plan.status = "confirmed"
Waiting(m) == m.plan.status = "pending"
\* Only the research prepass is taken over from the file, when a result is applied.
Merged(m) == [m EXCEPT !.research = IF disk.research = "none" THEN @ ELSE disk.research]
ClearSync(m) == [m EXCEPT !.done = @ \ {ArtifactSync}]

-----------------------------------------------------------------------------
(* The loop goes on to the next await *)

\* A request that was answered is not read again.
Read == [req EXCEPT ![loop.step] = IF @.status \in Terminal THEN NoRequest ELSE @]

\* It tests its own copy only for a requested wrap-up, which therefore shows at
\* its start and never later.
Ends(m, l, status) ==
    /\ mem' = [m EXCEPT !.status = status, !.resumable = status = "blocked"]
    /\ loop' = [l EXCEPT !.stage = "drafting"]
    /\ req' = Read

\* An open request of the step is taken up again; research goes first, once.
NewRequest(research) == [NoRequest EXCEPT !.status = "open", !.research = research]
ResearchFirst(m, s, first) == s = Milestone /\ first /\ m.research = "none"
Request(m, s, first) ==
    IF Read[s].status = "open" THEN Read[s] ELSE NewRequest(ResearchFirst(m, s, first))

Ask(m, l, s) ==
    /\ mem' = m
    /\ req' = [Read EXCEPT ![s] = Request(m, s, l.first)]
    /\ loop' = [l EXCEPT !.stage = "asking", !.step = s]

\* Nothing after the plan is asked for before the user has confirmed it.
Gated_Never(m) == FALSE
Gated(m) == {Milestone, ArtifactSync} \subseteq m.done /\ ~Confirmed(m)
Rest(m) == LET n == IF Gated(m) THEN ClearSync(m) ELSE m IN Step \ n.done

Proceed(m, l) ==
    IF Gated(m) /\ Waiting(m)
    THEN Returns /\ req' = Read
    ELSE IF Rest(m) = {} THEN Ends(m, l, "blocked")
    ELSE Ask(IF Gated(m) THEN ClearSync(m) ELSE m, l,
             CHOOSE s \in Rest(m) : \A t \in Rest(m) : s <= t)

\* A step is reopened so often only, and the file gets the loop's copy.  What is
\* reopened is not taken out of the completed steps.
MayReopen_Always(m, s) == TRUE
MayReopen(m, s) == m.reopens[s] < MaxReopens

Reopened_PhaseAsStatus(m, s) ==
    [m EXCEPT !.reopens[s] = IF @ < MaxReopens THEN @ + 1 ELSE @,
              !.status = "initial", !.resumable = FALSE]
Reopened(m, s) ==
    [m EXCEPT !.reopens[s] = IF @ < MaxReopens THEN @ + 1 ELSE @,
              !.status = "planning", !.resumable = FALSE]

Reopen(m, s) ==
    IF MayReopen(m, s)
    THEN /\ disk' = Reopened(m, s)
         /\ Proceed(Reopened(m, s), [loop EXCEPT !.first = FALSE])
    ELSE Ends(m, loop, "blocked") /\ UNCHANGED disk

-----------------------------------------------------------------------------
(* The loop *)

\* resume_active_sprint, continue_manual_daily_sprint: only the branch of a
\* sprint that is not blocked catches what the phase raises.
EnterLoop ==
    /\ loop.stage = "idle" /\ (active \/ task)
    /\ disk.status = "planning" \/ (disk.status = "blocked" /\ disk.resumable)
    /\ task' = FALSE
    /\ IF disk.wrapUp
       THEN /\ disk' = [disk EXCEPT !.status = "closeout"]
            /\ active' = FALSE
            /\ UNCHANGED <<mem, loop, req>>
       ELSE /\ Proceed(IF disk.plan.status = "revision_requested" THEN ClearSync(disk) ELSE disk,
                       [Idle EXCEPT !.guarded = disk.status = "planning"])
            /\ UNCHANGED <<disk, active>>
    /\ UNCHANGED <<others, faults>>

Applied(m) == [Merged(m) EXCEPT !.queue = Selected(backlog)]

\* The completion conditions of a step.
Premature(m, s, r) == s < Definition /\ ~Confirmed(m) /\ (r.persisted \/ m.queue)
Undefined(r) == ~(r.persisted /\ Covered(backlog))
Unfinished_Uncovered(m) == ~m.queue
Unfinished(m) == ~(m.queue /\ Covered(backlog))
Invalid(m, s, r) ==
    \/ Premature(m, s, r)
    \/ s = Milestone /\ m.research = "sourced" /\ ~r.titled
    \/ s >= Definition /\ ~Relevant(backlog)
    \/ s = Definition /\ Undefined(r)
    \/ s = Ranking /\ ~Ranked(backlog)
    \/ s = Finalization /\ Unfinished(m)

\* A blocked artifact_sync that comes with a plan counts as completed.
Usable(m, s, r) ==
    r.status = "completed" \/ (r.status = "blocked" /\ s = ArtifactSync /\ ~Confirmed(m) /\ r.plan)

Asked == loop.stage = "asking" /\ req[loop.step].status \in Terminal
AskedUsably == Asked /\ Usable(mem, loop.step, req[loop.step])
AskedValidly == AskedUsably /\ ~Invalid(Applied(mem), loop.step, req[loop.step])
Completed == [Applied(mem) EXCEPT !.done = @ \cup {loop.step}]

StepFails ==
    /\ Asked /\ ~AskedUsably
    /\ Reopen(mem, loop.step)
    /\ UNCHANGED <<active, task, others, faults>>

StepIsInvalid ==
    /\ AskedUsably /\ ~AskedValidly
    /\ Reopen(Applied(mem), loop.step)
    /\ UNCHANGED <<active, task, others, faults>>

Drafted_Unaddressed(plan) == [plan EXCEPT !.status = "pending"]
\* The new plan counts as the answer to every change request so far.
Drafted(plan) ==
    [plan EXCEPT !.status = "pending", !.addressed = plan.changes]

\* The plan is pending in the file before it is sent.
PlanIsDrafted ==
    /\ AskedValidly /\ loop.step = ArtifactSync /\ ~Confirmed(mem)
    /\ SaveBoth([Completed EXCEPT !.plan = Drafted(@)])
    /\ Stage("sending")
    /\ req' = Read
    /\ UNCHANGED <<active, task, others, faults>>

StepIsDone ==
    /\ AskedValidly /\ loop.step # Finalization
    /\ loop.step = ArtifactSync => Confirmed(mem)
    /\ disk' = Completed
    /\ Proceed(Completed, loop)
    /\ UNCHANGED <<active, task, others, faults>>

PlanningIsDone ==
    /\ AskedValidly /\ loop.step = Finalization
    /\ SaveBoth(Completed)
    /\ Stage("reporting")
    /\ req' = Read
    /\ UNCHANGED <<active, task, others, faults>>

\* A document is missing: the step it belongs to is reopened, and as it is still
\* among the completed ones nothing is left to do and the sprint ends.
DocumentIsMissing ==
    /\ AskedValidly /\ loop.step = Finalization
    /\ Fault("docs")
    /\ \E s \in {ArtifactSync, Finalization} :
        IF MayReopen(Completed, s)
        THEN disk' = Reopened(Completed, s) /\ Proceed(Reopened(Completed, s), loop)
        ELSE disk' = Completed /\ Ends(Completed, loop, "blocked")
    /\ UNCHANGED <<active, task, others>>

PlanIsSent ==
    /\ loop.stage = "sending"
    /\ Returns
    /\ UNCHANGED <<disk, req, backlog, active, answers, task, said, faults>>

\* The exception fails the sprint, or is lost when the sprint had been blocked.
SendFails ==
    /\ loop.stage = "sending" /\ Fault("send")
    /\ IF loop.guarded THEN Ends(mem, loop, "failed")
       ELSE Returns /\ UNCHANGED req
    /\ UNCHANGED <<disk, active, task, others>>

SprintStarts ==
    /\ loop.stage = "reporting"
    /\ disk' = [mem EXCEPT !.status = "running", !.resumable = FALSE]
    /\ Returns
    /\ UNCHANGED <<req, active, task, others, faults>>

ReportFails ==
    /\ loop.stage = "reporting" /\ Fault("report")
    /\ Ends(mem, loop, "blocked")
    /\ UNCHANGED <<disk, active, task, others>>

\* The planner drafts the sprint's report before the end is saved; the active
\* sprint is cleared after the reports are out.
EndIsSaved ==
    /\ loop.stage = "drafting"
    /\ disk' = mem
    /\ Stage("ending")
    /\ UNCHANGED <<mem, req, active, task, others, faults>>

EndIsReported ==
    /\ loop.stage = "ending"
    /\ active' = (mem.status # "blocked")
    /\ Returns
    /\ UNCHANGED <<disk, req, task, others, faults>>

-----------------------------------------------------------------------------
(* Role reports, as the relay applies them to the sprint's file *)

ResearchReports ==
    /\ req[Milestone].status = "open" /\ req[Milestone].research
    /\ \/ /\ req' = [req EXCEPT ![Milestone].research = FALSE]
          /\ \E r \in {"degraded", "sourced"} : disk' = [disk EXCEPT !.research = r]
       \/ /\ req' = [req EXCEPT ![Milestone].status = "blocked"]
          /\ UNCHANGED disk
    /\ UNCHANGED <<mem, loop, active, task, others, faults>>

\* The planner writes the backlog itself, whatever it then reports.
PlannerReports(s) ==
    /\ req[s].status = "open" /\ ~req[s].research
    /\ \E b \in Backlogs, status \in Terminal, plan, persisted, titled \in BOOLEAN :
        /\ plan => s = ArtifactSync
        /\ titled => s = Milestone
        /\ persisted => Relevant(b)
        /\ status = "blocked" => ~persisted /\ ~titled
        /\ backlog' = b
        /\ req' = [req EXCEPT ![s] = [@ EXCEPT !.status = status, !.plan = plan,
                                        !.persisted = persisted, !.titled = titled]]
        /\ disk' = [disk EXCEPT !.queue = IF status = "completed" THEN Selected(b) ELSE @]
    /\ UNCHANGED <<mem, loop, active, answers, task, said, faults>>

-----------------------------------------------------------------------------
(* The user and the operator *)

\* A message about a pending plan: it is interpreted while the file goes on.
UserAnswers(kind) ==
    /\ active /\ Waiting(disk) /\ disk.status \in {"planning", "blocked", "failed"}
    /\ said + faults < MaxEvents
    /\ said' = said + 1
    /\ answers' = answers \cup {[kind |-> kind, id |-> said', copy |-> disk]}
    /\ UNCHANGED <<disk, mem, loop, req, backlog, active, task, faults>>

\* The copy taken before counts when no sprint is active any more.
Current(a) == IF active THEN disk ELSE a.copy

StillOpen_Unasked(sprint) == TRUE
\* The state is tested again after the interpretation.
StillOpen(sprint) == Waiting(sprint)

AnswerIsApplied(a) ==
    /\ answers' = answers \ {a}
    /\ IF ~StillOpen(Current(a)) THEN UNCHANGED <<disk, task>>
       ELSE /\ task' = TRUE
            /\ IF a.kind = "confirm"
               THEN disk' = [Current(a) EXCEPT !.plan.status = "confirmed"]
               ELSE disk' = ClearSync([Current(a) EXCEPT
                                !.plan.status = "revision_requested",
                                !.plan.changes = @ \cup {a.id}])
    /\ UNCHANGED <<mem, loop, req, backlog, active, said, faults>>

\* TeamService.stop_sprint_lifecycle
Stop ==
    /\ active /\ disk.status \in {"planning", "blocked", "failed"} /\ Fault("stop")
    /\ IF disk.status = "planning"
       THEN disk' = [disk EXCEPT !.wrapUp = TRUE] /\ task' = TRUE /\ UNCHANGED active
       ELSE active' = FALSE /\ UNCHANGED <<disk, task>>
    /\ UNCHANGED <<mem, loop, req, others>>

\* TeamService.restart_sprint_lifecycle of a sprint that planning_incomplete ended
Restart ==
    /\ disk.status = "blocked" /\ disk.resumable /\ Fault("restart")
    /\ active' = TRUE /\ task' = TRUE
    /\ UNCHANGED <<disk, mem, loop, req, others>>

Crash ==
    /\ Fault("crash")
    /\ Returns /\ answers' = {} /\ task' = FALSE
    /\ UNCHANGED <<disk, req, backlog, active, said>>

-----------------------------------------------------------------------------
Init ==
    /\ disk = NewSprint /\ mem = NewSprint /\ loop = Idle
    /\ req = [s \in Step |-> NoRequest]
    /\ backlog = "none"
    /\ active = TRUE /\ answers = {} /\ task = FALSE
    /\ said = 0 /\ faults = 0

LoopStep ==
    \/ EnterLoop \/ StepFails \/ StepIsInvalid \/ PlanIsDrafted \/ StepIsDone
    \/ PlanningIsDone \/ PlanIsSent \/ SprintStarts \/ EndIsSaved \/ EndIsReported
Report == ResearchReports \/ \E s \in Step : PlannerReports(s)
Answer == \E a \in answers : AnswerIsApplied(a)

Next ==
    \/ LoopStep \/ Report \/ Answer
    \/ \E kind \in {"confirm", "change"} : UserAnswers(kind)
    \/ DocumentIsMissing \/ SendFails \/ ReportFails
    \/ Stop \/ Restart \/ Crash

\* The event loop runs, roles report, and the poll resumes the active sprint.
Fairness == WF_vars(LoopStep) /\ WF_vars(Report) /\ WF_vars(Answer)
Spec == Init /\ [][Next]_vars /\ Fairness

-----------------------------------------------------------------------------
(* Properties *)

\* Types, for TeamService._run_initial_sprint_phase and its files.
TypeOK ==
    /\ disk \in Sprints /\ mem \in Sprints
    /\ loop \in [stage: Stages, step: Step, first: BOOLEAN, guarded: BOOLEAN]
    /\ req \in [Step -> Requests]
    /\ backlog \in Backlogs
    /\ active \in BOOLEAN /\ task \in BOOLEAN
    /\ {a.id : a \in answers} \subseteq 1..MaxEvents
    /\ {a.copy : a \in answers} \subseteq Sprints

\* Backlog and todos are accepted, and the sprint starts, only from a plan that
\* the user confirmed: for _run_initial_sprint_phase's gate against reopenings,
\* resumes, crashes and answers that come in late.
PlanFirst ==
    disk.done \cap {Definition, Ranking, Finalization} # {} \/ disk.status = "running"
    => Confirmed(disk)

\* A sprint starts only with every step done and a backlog in the sprint that
\* covers requirements and plan actions: for validate_initial_phase_step_result
\* applied to a backlog the planner goes on writing.
StartsPlanned ==
    loop.stage = "reporting" => mem.done = Step /\ mem.queue /\ Covered(backlog)

\* A sprint starts from what was planned, and agreed to.
StartsFromPlan == TypeOK /\ PlanFirst /\ StartsPlanned

\* While the sprint is active and has not failed no save loses a change request
\* registered in its file: for the answer's save and the loop's saves of the copy
\* it holds.  (An answer applied after the sprint ended saves the copy taken
\* before; SprintPlanningProofs!PutsBlockedBack says when this matters, which takes
\* five events.)
ChangesAreKept ==
    [][active /\ disk'.status # "failed" => disk.plan.changes \subseteq disk'.plan.changes]_vars

\* A registered change request is answered by a new draft, unless planning ends
\* or the sprint is no longer active: for the resume that follows the answer.
ChangesAreAddressed ==
    \A c \in 1..MaxEvents :
        (active /\ c \in disk.plan.changes)
        ~> (c \in disk.plan.addressed \/ disk.status # "planning" \/ ~active)

\* Planning never goes round for ever: however often the planner fails a step,
\* the loop ends up waiting for the user, started, or stopped.
PlanningReturns == loop.stage # "idle" ~> loop.stage = "idle"

=============================================================================
