------------------------- MODULE MCWorkflowRequest -------------------------
(***************************************************************************)
(* A small instance of WorkflowRequest for TLC: the reports each role may  *)
(* send, one representative of every case the policy tells apart, and the  *)
(* properties of the runs.                                                 *)
(***************************************************************************)
EXTENDS WorkflowRequest

To(outcome, phase, step) ==
    [NoTransition EXCEPT !.outcome = outcome, !.phase = phase, !.step = step]

Reopen(category) == [NoTransition EXCEPT !.outcome = "reopen", !.category = category]
Reopens          == {Reopen(c) : c \in Categories}
Block            == To("block", "", "")

Plain(role) ==
    [role |-> role, status |-> "completed", error |-> FALSE,
     contract |-> "valid", t |-> NoTransition, docs |-> "owned",
     mixed |-> FALSE, planned |-> FALSE, claims |-> FALSE,
     signals |-> {}, verdict |-> "pass", handled |-> FALSE]

With(role, transitions) == {[Plain(role) EXCEPT !.t = t] : t \in transitions}

\* The same report given up on: blocked, or completed with an error text.
OrStuck(reports) ==
    reports \cup {[r EXCEPT !.status = "blocked", !.error = TRUE] : r \in reports}
            \cup {[r EXCEPT !.error = TRUE] : r \in reports}

PlannerReports ==
    LET drafts == With("planner",
            {NoTransition, To("advance", "implementation", ""), To("complete", "", ""),
             To("advance", "", "designer_advisory"),
             To("continue", "", "architect_advisory"), Reopen("scope"), Block})
    IN OrStuck(drafts)
         \cup {[r EXCEPT !.planned = TRUE] : r \in drafts}
         \cup {[r EXCEPT !.docs = "none"] : r \in drafts}
         \cup {[r EXCEPT !.docs = "required", !.mixed = TRUE] : r \in drafts}
         \cup {[r EXCEPT !.contract = "repairable"] : r \in drafts}

ArchitectReports ==
    OrStuck(With("architect", Reopens \cup
        {NoTransition, To("advance", "", ""), To("complete", "", ""),
         To("advance", "validation", "qa_validation"), Block}))
      \cup {[Plain("architect") EXCEPT !.claims = TRUE],
            [Plain("architect") EXCEPT !.contract = "invalid",
                                       !.t = To("advance", "", "")]}

DeveloperReports ==
    OrStuck(With("developer", Reopens \cup
        {NoTransition, To("advance", "", "architect_review"), Block}))
      \cup {[Plain("developer") EXCEPT !.claims = TRUE]}

QaReports ==
    LET judged == OrStuck(With("qa", Reopens \cup {NoTransition, To("complete", "", ""), Block}))
    IN {[r EXCEPT !.signals = s] : r \in judged, s \in {{}, {"spec"}, {"sync"}, {"evidence"}}}

OrchestratorReports ==
    OrStuck(With("orchestrator", {NoTransition, To("complete", "", "")}))
      \cup {[Plain("orchestrator") EXCEPT !.handled = TRUE]}

MCReports ==
    OrStuck(With("research", {NoTransition, Block}))
      \cup PlannerReports
      \cup OrStuck(With("designer", {NoTransition, Block}))
      \cup ArchitectReports \cup DeveloperReports \cup QaReports
      \cup OrchestratorReports

AllKinds == {"todo", "planning", "user"}
=============================================================================
