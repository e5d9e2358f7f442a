--------------------------- MODULE WorkflowPolicy ---------------------------
(***************************************************************************)
(* The pure workflow policy of workflows/orchestration/engine.py: the      *)
(* workflow state of one request, the routing functions that rewrite it,   *)
(* the rewriting of role reports that break a contract, and the decision   *)
(* that answers a role report.  No variables: WorkflowRequest drives it.   *)
(*                                                                         *)
(* Texts (summaries, reasons, errors) are reduced to what the code tests:  *)
(* whether an error text is present and which families of tokens the text  *)
(* of a QA report contains.                                                *)
(***************************************************************************)
EXTENDS Naturals

CONSTANTS PassLimit,           \* planning_pass_limit of the workflow state
          ReviewLimit,         \* review_cycle_limit of the workflow state
          ExecutionRequested   \* does the request's text ask for execution?

\* normalize_workflow_state forces both limits to at least 1.
ASSUME LimitsAssumption ==
    /\ PassLimit \in Nat \ {0}
    /\ ReviewLimit \in Nat \ {0}
    /\ ExecutionRequested \in BOOLEAN

-----------------------------------------------------------------------------
Roles == {"orchestrator", "research", "planner", "designer", "architect",
          "developer", "qa"}

AdvisoryRoles == {"designer", "architect"}

Categories == {"", "scope", "ux", "architecture", "implementation",
               "verification"}

Outcomes == {"", "continue", "advance", "reopen", "block", "complete"}

Phases == {"planning", "implementation", "validation", "closeout"}

PlannerSteps  == {"planner_draft", "planner_finalize"}
AdvisorySteps == {"designer_advisory", "architect_advisory"}
PlanningSteps == {"research_initial"} \cup PlannerSteps \cup AdvisorySteps
BuildSteps    == {"architect_guidance", "developer_build",
                  "architect_review", "developer_revision"}

\* planner_advisory never survives normalisation: its owner is planner or an
\* advisory role, and an advisory role renames the step.
Steps == PlanningSteps \cup BuildSteps \cup {"qa_validation", "closeout"}

PhaseOf(step) ==
    CASE step \in PlanningSteps   -> "planning"
      [] step \in BuildSteps      -> "implementation"
      [] step = "qa_validation"   -> "validation"
      [] step = "closeout"        -> "closeout"

OwnerOf(step) ==
    CASE step = "research_initial"                          -> "research"
      [] step \in PlannerSteps                              -> "planner"
      [] step = "designer_advisory"                         -> "designer"
      [] step \in {"architect_advisory", "architect_guidance",
                   "architect_review"}                      -> "architect"
      [] step \in {"developer_build", "developer_revision"} -> "developer"
      [] step = "qa_validation"                             -> "qa"
      [] step = "closeout"                                  -> "version_controller"

WorkflowState ==
    [phase        : Phases,
     step         : Steps,
     owner        : (Roles \ {"orchestrator"}) \cup {"version_controller"},
     phaseStatus  : {"active", "finalizing", "blocked", "completed"},
     passes       : Nat,
     reviews      : Nat,
     reopenSource : Roles \cup {""},
     category     : Categories]

DefaultState ==
    [phase |-> "planning", step |-> "planner_draft", owner |-> "planner",
     phaseStatus |-> "active", passes |-> 0, reviews |-> 0,
     reopenSource |-> "", category |-> ""]

ResearchFirstState ==
    [DefaultState EXCEPT !.step = "research_initial", !.owner = "research"]

-----------------------------------------------------------------------------
(* A role report, after workflow_transition and normalize_role_payload.    *)

Transition ==
    [outcome : Outcomes, phase : Phases \cup {""}, step : Steps \cup {""},
     category : Categories, finalize : BOOLEAN]

NoTransition ==
    [outcome |-> "", phase |-> "", step |-> "", category |-> "",
     finalize |-> FALSE]

Report ==
    [role      : Roles,
     status    : {"completed", "blocked", "failed"},
     error     : BOOLEAN,                              \* a non-empty error text
     contract  : {"valid", "invalid", "repairable"},   \* role_result_contract verdict
     t         : Transition,
     docs      : {"none", "owned", "required"},        \* planner documents listed, all on disk
     mixed     : BOOLEAN,                              \* other artifacts than planning documents too
     planned   : BOOLEAN,                              \* a planning contract among the proposals
     claims    : BOOLEAN,                              \* planner-owned documents among the artifacts
     signals   : SUBSET {"spec", "sync", "evidence"},  \* token families in the text
     verdict   : {"pass", "fail"},                     \* proposals.qa_validation.decision
     handled   : BOOLEAN]                              \* proposals.request_handling.mode = "complete"

ExplicitContinuation(t) == t.outcome \in {"advance", "continue", "reopen"}

ValidationHandoff(t) ==
    \/ t.step = "qa_validation"
    \/ t.outcome = "complete"
    \/ t.phase = "validation"

AdvisoryRoleOf(step) ==
    CASE step = "designer_advisory"  -> "designer"
      [] step = "architect_advisory" -> "architect"
      [] OTHER                       -> ""

AdvisoryStepOf(role) ==
    IF role = "designer" THEN "designer_advisory" ELSE "architect_advisory"

-----------------------------------------------------------------------------
(* The routing functions workflow_route_to_*_state.  Every category of a   *)
(* parsed transition is in Categories, so each route overwrites it.        *)

Routed(w, step, status, category) ==
    [w EXCEPT !.phase = PhaseOf(step), !.step = step, !.owner = OwnerOf(step),
              !.phaseStatus = status, !.category = category]

ToPlannerDraft(w, category) == Routed(w, "planner_draft", "active", category)

ToPlannerFinalize(w, category) ==
    Routed(w, "planner_finalize", "finalizing", category)

ToAdvisory(w, role, category) ==
    [Routed(w, AdvisoryStepOf(role), "active", category) EXCEPT !.passes = @ + 1]

\* Mutant: leaving planning starts the build without guidance.
ToGuidance_Skipped(w, category) == Routed(w, "developer_build", "active", category)

ToGuidance(w, category) == Routed(w, "architect_guidance", "active", category)

ToDeveloper(w, step, category) == Routed(w, step, "active", category)

ToReview(w, category) ==
    [Routed(w, "architect_review", "active", category) EXCEPT !.reviews = @ + 1]

ToQa(w) == Routed(w, "qa_validation", "active", w.category)

\* Mutant: closing a workflow forgets to hand it to the version controller.
Completed_KeepsOwner(w) ==
    [w EXCEPT !.phase = "closeout", !.step = "closeout", !.phaseStatus = "completed"]

Completed(w) == Routed(w, "closeout", "completed", w.category)

TerminalBlock(w, category) ==
    [w EXCEPT !.phaseStatus = "blocked", !.category = category]

MarkReopen(w, role, category) ==
    [w EXCEPT !.reopenSource = role, !.category = category]

-----------------------------------------------------------------------------
(* Decisions.  "route" delegates to the owner of the new step, "block" and *)
(* "complete" end the request, "none" leaves routing to another policy.    *)

RouteTo(w)    == [kind |-> "route",    next |-> w.owner, state |-> w]
BlockWith(w)  == [kind |-> "block",    next |-> "",      state |-> w]
CloseWith(w)  == [kind |-> "complete", next |-> "",      state |-> w]
NoDecision(w) == [kind |-> "none",     next |-> "",      state |-> w]

\* Mutant: a reopening for UX opens an advisory pass without looking at the count.
AdvisoryDecision_Uncapped(w, role, category) == RouteTo(ToAdvisory(w, role, category))

AdvisoryDecision(w, role, category) ==
    IF w.passes >= PassLimit THEN RouteTo(ToPlannerFinalize(w, category))
                             ELSE RouteTo(ToAdvisory(w, role, category))

\* Mutant: a reopened implementation is always a revision, before any review too.
ReopenDecision_AlwaysRevision(w, role, category) ==
    LET m == MarkReopen(w, role, category) IN
    CASE category = "ux"           -> AdvisoryDecision(m, "designer", category)
      [] category = "architecture" -> RouteTo(ToGuidance(m, category))
      [] category \in {"implementation", "verification"} ->
            RouteTo(ToDeveloper(m, "developer_revision", category))
      [] OTHER                     -> RouteTo(ToPlannerFinalize(m, category))

ReopenDecision(w, role, category) ==
    LET m == MarkReopen(w, role, category) IN
    CASE category = "ux" -> AdvisoryDecision(m, "designer", category)
      [] category = "architecture" ->
            RouteTo(IF role = "qa" THEN ToReview(m, category)
                                   ELSE ToGuidance(m, category))
      [] category \in {"implementation", "verification"} ->
            RouteTo(ToDeveloper(m,
                IF role = "qa" \/ w.step \in {"architect_review", "developer_revision"}
                THEN "developer_revision" ELSE "developer_build", category))
      [] OTHER -> RouteTo(ToPlannerFinalize(m, category))

PlannerStepDecision(w, t, role, closes) ==
    LET advisor == AdvisoryRoleOf(t.step) IN
    CASE role # "planner" -> RouteTo(ToPlannerFinalize(w, ""))
      [] /\ role = "planner" /\ t.outcome = "reopen"
         /\ t.step = "planner_finalize" \/ t.category = "scope"
            -> RouteTo(ToPlannerFinalize(w, t.category))
      [] OTHER ->
            IF advisor # "" /\ t.outcome # "complete"
            THEN IF w.passes >= PassLimit THEN BlockWith(TerminalBlock(w, t.category))
                                          ELSE AdvisoryDecision(w, advisor, t.category)
            ELSE IF closes THEN CloseWith(Completed(w))
                           ELSE RouteTo(ToGuidance(w, t.category))

\* Mutant: an architect who reports "complete" ends the request, not the review.
ReviewStepDecision_CompleteCloses(w, t, role) ==
    IF t.outcome = "complete" THEN CloseWith(Completed(w))
    ELSE IF ValidationHandoff(t) THEN RouteTo(ToQa(w))
    ELSE RouteTo(ToDeveloper(w, "developer_revision", t.category))

ReviewStepDecision(w, t, role) ==
    LET toRevision == RouteTo(ToDeveloper(w, "developer_revision", t.category)) IN
    IF ValidationHandoff(t) THEN RouteTo(ToQa(w))
    ELSE IF w.reviews >= ReviewLimit /\ ExplicitContinuation(t)
    THEN BlockWith(TerminalBlock(w, IF t.category = "" THEN "implementation"
                                                       ELSE t.category))
    ELSE IF t.outcome = "reopen" /\ t.category \notin {"", "implementation"}
    THEN ReopenDecision(w, role, t.category)
    ELSE toRevision

\* derive_workflow_routing_decision
Derive(w, t, role, closes) ==
    IF t.outcome = "block" THEN BlockWith(TerminalBlock(w, t.category))
    ELSE IF t.outcome = "reopen" /\ w.step \in {"architect_guidance",
                "developer_build", "developer_revision", "qa_validation"}
    THEN ReopenDecision(w, role, t.category)
    ELSE CASE w.step = "research_initial"   -> RouteTo(ToPlannerDraft(w, t.category))
           [] w.step \in PlannerSteps       -> PlannerStepDecision(w, t, role, closes)
           [] w.step \in AdvisorySteps      -> RouteTo(ToPlannerFinalize(w, t.category))
           [] w.step = "architect_guidance" ->
                 RouteTo(ToDeveloper(w, "developer_build", t.category))
           [] w.step = "developer_build"    -> RouteTo(ToReview(w, t.category))
           [] w.step = "architect_review"   -> ReviewStepDecision(w, t, role)
           [] w.step = "developer_revision" ->
                 IF t.step = "architect_review" THEN RouteTo(ToReview(w, t.category))
                                                ELSE RouteTo(ToQa(w))
           [] w.step = "qa_validation"      -> CloseWith(Completed(w))
           [] OTHER                         -> NoDecision(w)

-----------------------------------------------------------------------------
\* workflow_should_close_in_planning
ClosesInPlanning(w, rep) ==
    LET planningOnly  == rep.docs # "none" /\ ~rep.mixed
        noArtifacts   == rep.docs = "none" /\ ~rep.mixed
        explicitClose == \/ rep.t.outcome = "complete"
                         \/ rep.t.finalize /\ ~ExplicitContinuation(rep.t)
    IN /\ rep.role = "planner"
       /\ w.step \in PlannerSteps
       /\ AdvisoryRoleOf(rep.t.step) = ""
       /\ ~(rep.t.outcome \in {"advance", "continue"} /\ rep.t.phase = "implementation")
       /\ rep.planned \/ ~ExecutionRequested \/ (explicitClose /\ planningOnly)
       /\ planningOnly \/ (noArtifacts /\ rep.planned)

Decide(w, rep) == Derive(w, rep.t, rep.role, ClosesInPlanning(w, rep))

\* coerce_nonterminal_workflow_role_result: a failed or blocked report that
\* asks to continue is turned into a completed one when the decision routes on.
Coerced(rep, decision) ==
    IF /\ rep.status \in {"failed", "blocked"} \/ rep.error
       /\ ExplicitContinuation(rep.t)
       /\ decision.kind = "route"
    THEN [rep EXCEPT !.status = "completed", !.error = FALSE]
    ELSE rep

-----------------------------------------------------------------------------
(* enforce_workflow_role_report_contract and the classifications it uses.  *)

\* workflow_planner_doc_contract_violation with required_workflow_planner_doc_hints
PlannerDocsMissing(w, rep) ==
    \/ w.phase # "planning"
    \/ rep.docs = "none"
    \/ rep.docs = "owned" /\ w.reopenSource = "qa"

QaReport(w, rep) == w.step = "qa_validation" /\ rep.role = "qa"

QaNeedsPlanner(w, rep) ==
    /\ QaReport(w, rep)
    /\ rep.t.outcome = "reopen" \/ rep.status \in {"blocked", "failed"} \/ rep.error
    /\ rep.t.step # "planner_finalize"
    /\ rep.t.category # "scope"
    /\ "spec" \in rep.signals

QaSyncAnomaly(w, rep) ==
    /\ QaReport(w, rep)
    /\ "sync" \in rep.signals
    /\ ~QaNeedsPlanner(w, rep)

QaNeedsEvidence(w, rep) ==
    /\ QaReport(w, rep)
    /\ ~QaNeedsPlanner(w, rep)
    /\ "evidence" \in rep.signals
    /\ \/ rep.t.outcome \in {"", "reopen", "block"}
       \/ rep.status \in {"blocked", "failed"}
       \/ rep.verdict = "fail"

ReopenTransition(phase, step, category) ==
    [outcome |-> "reopen", phase |-> phase, step |-> step,
     category |-> category, finalize |-> FALSE]

PlannerContractReopen(rep) ==
    [rep EXCEPT !.status = "blocked", !.error = TRUE,
                !.t = ReopenTransition("planning", "planner_finalize", "scope")]

QaSyncResult(rep) ==
    [rep EXCEPT !.status = "completed", !.error = FALSE,
                !.t = [NoTransition EXCEPT !.outcome = "complete"]]

QaPlannerReopen(rep) ==
    [rep EXCEPT !.t = ReopenTransition("planning", "planner_finalize", "scope")]

QaEvidenceRecovery(rep) ==
    [rep EXCEPT !.status = "completed", !.error = FALSE,
                !.t = ReopenTransition("implementation", "developer_revision",
                                       "verification")]

\* sanitize_implementation_result drops the claimed documents from the
\* artifacts; nothing that is routed on changes.
SanitizedImplementation(w, rep) ==
    IF rep.role \in {"architect", "developer"} /\ w.phase = "implementation"
    THEN [rep EXCEPT !.claims = FALSE] ELSE rep

Enforced(w, rep) ==
    CASE rep.contract # "valid"  -> rep
      [] rep.contract = "valid" /\ rep.role = "planner" ->
            IF PlannerDocsMissing(w, rep) THEN PlannerContractReopen(rep) ELSE rep
      [] rep.contract = "valid" /\ rep.role # "planner" ->
            IF QaSyncAnomaly(w, rep)        THEN QaSyncResult(rep)
            ELSE IF QaNeedsPlanner(w, rep)  THEN QaPlannerReopen(rep)
            ELSE IF QaNeedsEvidence(w, rep) THEN QaEvidenceRecovery(rep)
            ELSE SanitizedImplementation(w, rep)
=============================================================================
