-------------------------- MODULE WorkflowRequest --------------------------
(***************************************************************************)
(* One request that the orchestrator drives through the workflow of        *)
(* WorkflowPolicy: what workflows/orchestration/delegation.py does with    *)
(* each role report, and what cancelling, resuming and retrying do to the  *)
(* same record.  A handler loads the record, may wait with its copy (for   *)
(* the orchestrator's own run, for the report sent on leaving planning),   *)
(* and saves the copy whole.  How a report travels between the processes,  *)
(* is lost or repeated, and what a role saves, is RequestRelay's.          *)
(***************************************************************************)
EXTENDS WorkflowPolicy

CONSTANTS Reports,     \* the reports roles may send, a subset of Report
          Kinds,       \* which requests: "todo", "planning", "user"
          MaxReviews   \* bound of the model: reviews opened at most

ASSUME ReportsAssumption ==
    /\ Reports \subseteq Report
    /\ Kinds \subseteq {"todo", "planning", "user"}
    /\ MaxReviews \in Nat

\* Only the orchestrator's prompt offers proposals.request_handling.
ASSUME HandlingAssumption == \A r \in Reports : r.handled => r.role = "orchestrator"

VARIABLES
    kind,         \* "todo" and "planning" belong to a sprint, "user" to a requester
    status,       \* request_record["status"]
    currentRole,  \* request_record["current_role"]
    managed,      \* is params["workflow"] set?
    wf,           \* params["workflow"], normalised
    held,         \* does the orchestrator wait with a copy of the record?
    \* history variables, read by the properties only:
    bypassed,     \* the current role was not chosen by the workflow decision
    guided,       \* guidance opened since the workflow was last in planning
    reviewed,     \* review opened since the last planning, guidance or build step
    closer        \* <<role, step>> of the report that closed the workflow

record  == <<status, currentRole, managed, wf>>
history == <<bypassed, guided, reviewed, closer>>
vars    == <<kind, record, held, history>>

Statuses == {"queued", "delegated", "blocked", "failed", "completed", "cancelled"}

\* _is_terminal_request_status; a blocked request is not terminal.
TerminalStatuses == {"completed", "failed", "cancelled"}

NotClosed == <<"", "">>

TypeOK ==
    /\ kind \in {"todo", "planning", "user"}
    /\ status \in Statuses
    /\ currentRole \in Roles
    /\ managed \in BOOLEAN
    /\ wf \in WorkflowState
    /\ held \in BOOLEAN
    /\ bypassed \in BOOLEAN
    /\ guided \in BOOLEAN
    /\ reviewed \in BOOLEAN
    /\ closer \in (Roles \cup {""}) \X (Steps \cup {""})

Init ==
    /\ kind \in Kinds
    /\ status = IF kind = "user" THEN "delegated" ELSE "queued"
    /\ currentRole = "orchestrator"
    /\ managed = (kind # "user")
    /\ wf = IF kind = "planning" THEN ResearchFirstState ELSE DefaultState
    /\ held = (kind = "user")
    /\ bypassed = FALSE
    /\ guided = FALSE
    /\ reviewed = FALSE
    /\ closer = NotClosed

-----------------------------------------------------------------------------
\* What the history variables remember of a step that sets the workflow to w.
Remember(w, role) ==
    /\ guided' = (w.step \notin PlanningSteps
                    /\ (guided \/ w.step = "architect_guidance"))
    /\ reviewed' = (w.step \notin PlanningSteps \cup {"architect_guidance", "developer_build"}
                    /\ (reviewed \/ w.step = "architect_review"))
    /\ closer' = IF w.step = "closeout" /\ wf.step # "closeout"
                 THEN <<role, wf.step>> ELSE closer

WorkflowClosed == wf.phase = "closeout" /\ wf.phaseStatus = "completed"

\* TeamService._derive_workflow_routing_decision
WorkflowDecision(rep) ==
    IF ~managed \/ (kind = "planning" /\ rep.role = "planner")
    THEN NoDecision(wf) ELSE Decide(wf, rep)

\* derive_routing_decision_after_report; the orchestrator's report on a request
\* without a workflow seeds the research-first one.
RoutingDecision(rep) ==
    IF rep.handled THEN NoDecision(wf)
    ELSE IF ~managed /\ rep.role = "orchestrator" THEN RouteTo(ResearchFirstState)
    ELSE WorkflowDecision(rep)

\* apply_role_result on a failed or blocked result, or one with an error text
FailRequest(rep) ==
    LET d == IF rep.contract # "valid" THEN NoDecision(wf) ELSE WorkflowDecision(rep)
    IN /\ wf' = d.state
       /\ status' = IF d.kind = "block" THEN "blocked" ELSE rep.status
       /\ Remember(d.state, rep.role)
       /\ UNCHANGED <<currentRole, managed, bypassed>>

\* Mutant: the request is delegated on without naming the role it now waits for.
DelegateTo_KeepsRole(d, rep) ==
    /\ d.kind = "route"
    /\ wf' = d.state
    /\ managed' = TRUE
    /\ status' = "delegated"
    /\ bypassed' = FALSE
    /\ Remember(d.state, rep.role)
    /\ UNCHANGED currentRole

DelegateTo(d, rep) ==
    /\ d.kind = "route"
    /\ wf' = d.state
    /\ managed' = TRUE
    /\ status' = "delegated"
    /\ currentRole' = d.next
    /\ bypassed' = FALSE
    /\ Remember(d.state, rep.role)

BlockOn(d, rep) ==
    /\ d.kind = "block"
    /\ wf' = d.state
    /\ status' = "blocked"
    /\ Remember(d.state, rep.role)
    /\ UNCHANGED <<currentRole, managed, bypassed>>

CompleteWith(d, rep) ==
    /\ d.kind \in {"complete", "none"}
    /\ wf' = d.state
    /\ status' = "completed"
    /\ currentRole' = "orchestrator"
    /\ Remember(d.state, rep.role)
    /\ UNCHANGED <<managed, bypassed>>

\* build_governed_routing_selection: the roles that may be picked after a report
\* of role, by the allowed_next_roles of the capability policy.
Selectable(role) ==
    CASE role = "research"  -> {"planner"}
      [] role = "planner"   -> IF ExecutionRequested
                               THEN {"designer", "architect", "developer", "qa"} ELSE {}
      [] role = "designer"  -> {"planner", "architect", "developer", "qa"}
      [] role = "architect" -> {"planner", "developer", "qa"}
      [] role = "developer" -> {"planner", "architect", "qa"}
      [] role = "qa"        -> {"planner"}
      [] OTHER              -> {}

\* Capability scoring picks the next role where the workflow has no decision: any
\* selectable role may score best, or none, which completes the request.
SelectedByScore(d, rep) ==
    /\ kind = "user" /\ d.kind = "none" /\ ~rep.handled
    /\ status' = "delegated"
    /\ currentRole' \in Selectable(rep.role)
    /\ bypassed' = TRUE
    /\ UNCHANGED <<managed, wf, guided, reviewed, closer>>

\* A planner's report that takes a sprint's request out of the planner's hands is
\* announced to the channel with the specification and the todos first.
Announced(d, rep) ==
    /\ kind # "user" /\ managed /\ wf.phase = "planning"
    /\ rep.role = "planner" /\ d.kind # "block" /\ d.next # "planner"

\* When that cannot be sent the request is blocked in planner_finalize.
SpecReportFails(d, rep) ==
    LET w == [d.state EXCEPT !.phase = "planning", !.step = "planner_finalize",
                             !.owner = "planner", !.phaseStatus = "blocked"]
    IN /\ Announced(d, rep)
       /\ wf' = w
       /\ status' = "blocked"
       /\ Remember(w, rep.role)
       /\ UNCHANGED <<currentRole, managed, bypassed>>

RouteRequest(rep) ==
    LET d == RoutingDecision(rep) IN
    \/ DelegateTo(d, rep)
    \/ BlockOn(d, rep)
    \/ CompleteWith(d, rep)
    \/ SelectedByScore(d, rep)
    \/ SpecReportFails(d, rep)

\* What apply_role_result makes of a report before it looks at the status.
Judged(rep) ==
    LET r == IF rep.contract = "valid" THEN rep
             ELSE [rep EXCEPT !.status = "failed", !.error = TRUE]
    IN IF r.handled THEN r ELSE Coerced(r, WorkflowDecision(r))

Stuck(rep) == rep.status \in {"failed", "blocked"} \/ rep.error

SpecReportDue(rep) ==
    LET r == Judged(rep) IN ~Stuck(r) /\ Announced(RoutingDecision(r), r)

ApplyRoleResult(rep) ==
    LET r == Judged(rep) IN
    /\ IF Stuck(r) THEN FailRequest(r) ELSE RouteRequest(r)
    /\ wf'.reviews <= MaxReviews
    /\ UNCHANGED kind

-----------------------------------------------------------------------------
\* run_internal_request_chain: the first delegation of a sprint's request
StartChain ==
    /\ status = "queued"
    /\ status' = "delegated"
    /\ currentRole' = wf.owner
    /\ UNCHANGED <<kind, managed, wf, held, history>>

\* run_local_orchestrator_request, for a new user request or a retried one.  The
\* result is applied to the copy the run began with, whatever the record says by
\* now: only its status can differ, as only a cancellation comes in between.
OrchestratorResult(rep) ==
    /\ kind = "user" /\ held
    /\ rep.role = "orchestrator"
    /\ ApplyRoleResult(rep)
    /\ held' = FALSE

\* Mutant: the stale check looks at the role only, not at the request's status.
Accepted_AnyStatus(rep) ==
    /\ ~WorkflowClosed
    /\ rep.role = currentRole /\ rep.role # "orchestrator"

\* _stale_role_report_reason lets a report of the current role through as long
\* as the request is open: a blocked request still takes reports.
Accepted(rep) ==
    /\ status \in {"delegated", "blocked"}
    /\ ~WorkflowClosed
    /\ rep.role = currentRole /\ rep.role # "orchestrator"
    /\ ~(rep.contract = "repairable" /\ status = "delegated")

AsReported(rep) == IF managed THEN Enforced(wf, rep) ELSE rep

\* The reports of a sprint's requests are handled one after the other.
HandleRoleReport(rep) ==
    /\ Accepted(rep)
    /\ kind # "user" => ~held
    /\ IF SpecReportDue(AsReported(rep))
       THEN held' = TRUE /\ UNCHANGED <<kind, record, history>>
       ELSE ApplyRoleResult(AsReported(rep)) /\ UNCHANGED held

\* The specification was sent, or could not be, and the copy loaded before is
\* saved, again without a look at the record.
SpecReported(rep) ==
    /\ kind # "user" /\ held
    /\ rep.role = currentRole /\ SpecReportDue(AsReported(rep))
    /\ ApplyRoleResult(AsReported(rep))
    /\ held' = FALSE

\* The orchestrator's process stops while it waits; nothing was saved yet.
CrashOrchestrator ==
    /\ held
    /\ held' = FALSE
    /\ UNCHANGED <<kind, record, history>>

\* Mutant: the other spelling of the cancelled status is stored.
CancelRequest_Misspelt ==
    /\ status' = "canceled"
    /\ UNCHANGED <<kind, currentRole, managed, wf, held, history>>

\* cancel_request: any status but "uncommitted", finished requests included
CancelRequest ==
    /\ status' = "cancelled"
    /\ UNCHANGED <<kind, currentRole, managed, wf, held, history>>

\* _resume_request_with_context: the planning_resume policy always selects planner
ResumeBlocked ==
    /\ kind = "user" /\ status = "blocked"
    /\ status' = "delegated"
    /\ currentRole' = "planner"
    /\ bypassed' = TRUE
    /\ UNCHANGED <<kind, managed, wf, held, guided, reviewed, closer>>

\* retry_blocked_duplicate_request: the same input again, run by the orchestrator
\* unless an earlier run still holds the claim
RetryBlocked ==
    /\ kind = "user" /\ status = "blocked"
    /\ status' = "delegated"
    /\ currentRole' = "orchestrator"
    /\ bypassed' = TRUE
    /\ held' \in BOOLEAN
    /\ UNCHANGED <<kind, managed, wf, guided, reviewed, closer>>

Next ==
    \/ StartChain
    \/ CancelRequest
    \/ ResumeBlocked
    \/ RetryBlocked
    \/ CrashOrchestrator
    \/ \E rep \in Reports :
         OrchestratorResult(rep) \/ HandleRoleReport(rep) \/ SpecReported(rep)

Spec == Init /\ [][Next]_vars

-----------------------------------------------------------------------------
(* Properties of the code's behaviour that hold.                           *)

\* However reports, reopenings, blocks and resumptions are combined, the step,
\* the phase and the phase owner of the stored workflow tell the same story
\* (the twelve workflow_route_to_* functions write the three separately).
StepAgrees ==
    /\ wf.phase = PhaseOf(wf.step)
    /\ wf.owner = OwnerOf(wf.step)

\* Planning advisory is capped at PassLimit shared passes, counting designer and
\* architect passes together and the ones a QA reopening for UX opens late.
AdvisoryPassesCapped == wf.passes <= PassLimit

\* The stored workflow is one the policy can go on from: step, phase and owner
\* tell the same story, and no way round the reopenings opens another pass.
WorkflowIsSound == TypeOK /\ StepAgrees /\ AdvisoryPassesCapped

\* No request is in implementation or validation unless architect guidance was
\* opened after it last left planning, reopenings for scope or UX included.
ImplementationIsGuided == wf.phase \in {"implementation", "validation"} => guided

\* Neither a revision nor the QA step is reached unless an architect review was
\* opened since the last build: a rebuild after a reopening is reviewed again.
ValidationIsReviewed == wf.step \in {"developer_revision", "qa_validation"} => reviewed

\* A request delegated by a routing decision waits for the owner of the step it
\* is in: the role whose reports are let through is the one the step is about.
DelegateeOwnsStep ==
    status = "delegated" /\ managed /\ ~bypassed => currentRole = wf.owner

\* A workflow is closed out only from the QA step, or by the planner from a
\* planner step; no other step of planning or implementation closes it.
ClosedAtAGate ==
    closer # NotClosed =>
        \/ closer[2] = "qa_validation"
        \/ closer[2] \in PlannerSteps /\ closer[1] = "planner"

\* A finished request is left alone by every late, repeated or misrouted report,
\* by the resume paths and by a crash: the requester's cancel rewrites it, and
\* only a cancelled request is reopened, by a copy loaded before the cancel whose
\* holder saves it over the cancelled record.
FinishedIsFinal ==
    [][(status \in TerminalStatuses) =>
         \/ status' \in {status, "cancelled"} /\ UNCHANGED <<currentRole, wf>>
         \/ status = "cancelled" /\ held /\ ~held']_vars
=============================================================================
