----------------------- MODULE WorkflowRequestProofs -----------------------
(***************************************************************************)
(* Theorems about WorkflowPolicy and WorkflowRequest for every limit,      *)
(* every set of reports and every kind of request: what the operators of   *)
(* the policy return, the inductive invariant IInv, the safety invariants  *)
(* it implies, and the finality of finished requests.                      *)
(***************************************************************************)
EXTENDS WorkflowRequest, TLAPS

(* What the operators of WorkflowPolicy return. *)

\* A workflow state the policy may be handed: typed, its phase and owner those
\* of its step, its advisory passes within the limit.
Sound(w) ==
    /\ w \in WorkflowState
    /\ w.phase = PhaseOf(w.step)
    /\ w.owner = OwnerOf(w.step)
    /\ w.passes <= PassLimit

-----------------------------------------------------------------------------
\* Every step has a phase and an owner, and only closeout is nobody's role.
LEMMA StepTypes ==
    ASSUME NEW s \in Steps
    PROVE  /\ PhaseOf(s) \in Phases
           /\ OwnerOf(s) \in (Roles \ {"orchestrator"}) \cup {"version_controller"}
           /\ s # "closeout" => OwnerOf(s) \in Roles
BY DEF Steps, PlanningSteps, PlannerSteps, AdvisorySteps, BuildSteps, PhaseOf,
       OwnerOf, Phases, Roles

\* The route helper writes step, phase and owner together and leaves the counts.
LEMMA RoutedSound ==
    ASSUME NEW w, Sound(w), NEW s \in Steps, NEW c \in Categories,
           NEW st \in {"active", "finalizing", "blocked", "completed"}
    PROVE  /\ Sound(Routed(w, s, st, c))
           /\ Routed(w, s, st, c).step = s
           /\ Routed(w, s, st, c).passes = w.passes
           /\ Routed(w, s, st, c).reviews = w.reviews
BY StepTypes DEF Sound, Routed, WorkflowState

\* A count of a workflow state is a natural number, and counting on keeps the type.
LEMMA CountTypes ==
    ASSUME NEW w \in WorkflowState, NEW n \in Nat
    PROVE  /\ w.passes \in Nat /\ w.reviews \in Nat
           /\ [w EXCEPT !.passes = n] \in WorkflowState
           /\ [w EXCEPT !.reviews = n] \in WorkflowState
BY DEF WorkflowState

\* Setting a count within the limit changes no other field.
LEMMA CountSound ==
    ASSUME NEW w, Sound(w), NEW n \in Nat
    PROVE  /\ n <= PassLimit => Sound([w EXCEPT !.passes = n])
           /\ Sound([w EXCEPT !.reviews = n])
           /\ [w EXCEPT !.passes = n].step = w.step
           /\ [w EXCEPT !.reviews = n].step = w.step
<1>1. w \in WorkflowState
  BY DEF Sound
<1> DEFINE p == [w EXCEPT !.passes = n]
           r == [w EXCEPT !.reviews = n]
<1>2. /\ p.step = w.step /\ p.phase = w.phase /\ p.owner = w.owner /\ p.passes = n
      /\ r.step = w.step /\ r.phase = w.phase /\ r.owner = w.owner /\ r.passes = w.passes
  BY <1>1 DEF WorkflowState
<1>3. p \in WorkflowState /\ r \in WorkflowState
  BY <1>1, CountTypes
<1> HIDE DEF p, r
<1>4. /\ n <= PassLimit => Sound(p)
      /\ Sound(r)
  BY <1>2, <1>3 DEF Sound
<1> QED
  BY <1>2, <1>4 DEF p, r

\* The two workflows a request starts with are sound.
LEMMA InitialSound ==
    /\ Sound(DefaultState) /\ DefaultState.step = "planner_draft"
    /\ Sound(ResearchFirstState) /\ ResearchFirstState.step = "research_initial"
<1>1. DefaultState \in WorkflowState /\ ResearchFirstState \in WorkflowState
  BY DEF DefaultState, ResearchFirstState, WorkflowState, Phases, Steps, PlanningSteps,
         PlannerSteps, AdvisorySteps, BuildSteps, Roles, Categories
<1>2. /\ DefaultState.passes <= PassLimit
      /\ ResearchFirstState.passes <= PassLimit
  BY LimitsAssumption DEF DefaultState, ResearchFirstState
<1>3. /\ PhaseOf("planner_draft") = "planning" /\ OwnerOf("planner_draft") = "planner"
      /\ PhaseOf("research_initial") = "planning" /\ OwnerOf("research_initial") = "research"
  BY DEF PhaseOf, OwnerOf, PlanningSteps, PlannerSteps, AdvisorySteps, BuildSteps
<1>4. /\ DefaultState.step = "planner_draft" /\ DefaultState.phase = "planning"
      /\ DefaultState.owner = "planner"
      /\ ResearchFirstState.step = "research_initial"
      /\ ResearchFirstState.phase = "planning" /\ ResearchFirstState.owner = "research"
  BY DEF DefaultState, ResearchFirstState
<1>5. QED
  BY <1>1, <1>2, <1>3, <1>4 DEF Sound

\* Opening an advisory pass below the limit keeps the workflow sound.
LEMMA AdvisorySound ==
    ASSUME NEW w, Sound(w), NEW role \in AdvisoryRoles, NEW c \in Categories,
           w.passes < PassLimit
    PROVE  /\ Sound(ToAdvisory(w, role, c))
           /\ ToAdvisory(w, role, c).step \in AdvisorySteps
<1> DEFINE r == Routed(w, AdvisoryStepOf(role), "active", c)
           n == r.passes + 1
<1>1. AdvisoryStepOf(role) \in AdvisorySteps
  BY DEF AdvisoryStepOf, AdvisorySteps
<1>2. AdvisoryStepOf(role) \in Steps
  BY <1>1 DEF Steps, PlanningSteps
<1>3. /\ Sound(r) /\ r.step = AdvisoryStepOf(role) /\ r.passes = w.passes
  BY <1>2, RoutedSound
<1>4. r \in WorkflowState
  BY <1>3 DEF Sound
<1>5. ToAdvisory(w, role, c) = [r EXCEPT !.passes = n]
  BY DEF ToAdvisory
<1> HIDE DEF r
<1>6. r.passes \in Nat
  BY <1>4, CountTypes
<1>7. n \in Nat /\ n <= PassLimit
  BY <1>3, <1>6, LimitsAssumption
<1> HIDE DEF n
<1>8. /\ Sound([r EXCEPT !.passes = n])
      /\ [r EXCEPT !.passes = n].step = r.step
  BY <1>3, <1>7, CountSound
<1>9. QED
  BY <1>1, <1>3, <1>5, <1>8

\* Opening a review counts it and keeps the workflow sound.
LEMMA ReviewSound ==
    ASSUME NEW w, Sound(w), NEW c \in Categories
    PROVE  /\ Sound(ToReview(w, c))
           /\ ToReview(w, c).step = "architect_review"
<1> DEFINE r == Routed(w, "architect_review", "active", c)
           n == r.reviews + 1
<1>1. "architect_review" \in Steps
  BY DEF Steps, BuildSteps
<1>2. Sound(r) /\ r.step = "architect_review"
  BY <1>1, RoutedSound
<1>3. ToReview(w, c) = [r EXCEPT !.reviews = n]
  BY DEF ToReview
<1>4. r \in WorkflowState
  BY <1>2 DEF Sound
<1> HIDE DEF r
<1>5. r.reviews \in Nat
  BY <1>4, CountTypes
<1>6. n \in Nat
  BY <1>5
<1> HIDE DEF n
<1>7. QED
  BY <1>2, <1>3, <1>6, CountSound

\* Blocking a workflow and marking a reopening move it to no other step.
LEMMA MarksSound ==
    ASSUME NEW w, Sound(w), NEW role \in Roles, NEW c \in Categories
    PROVE  /\ Sound(TerminalBlock(w, c)) /\ TerminalBlock(w, c).step = w.step
           /\ Sound(MarkReopen(w, role, c)) /\ MarkReopen(w, role, c).step = w.step
           /\ MarkReopen(w, role, c).passes = w.passes
BY DEF Sound, TerminalBlock, MarkReopen, WorkflowState

-----------------------------------------------------------------------------
\* Build and validation steps, and the ones a review comes before.
WorkSteps   == BuildSteps \cup {"qa_validation"}
PostReviews == {"architect_review", "developer_revision", "qa_validation"}

\* Where a route may lead, from any step but closeout: work starts with guidance,
\* and what comes after a review is entered from there, or by a report of QA.
MayEnter(from, to, role) ==
    /\ from # "closeout" /\ to \in Steps \ {"closeout"}
    /\ to \in WorkSteps => from \in WorkSteps \/ to = "architect_guidance"
    /\ to \in {"developer_revision", "qa_validation"} => from \in PostReviews \/ role = "qa"

\* What a decision on a sound workflow w in answer to a report of role may be.
SoundDecision(w, d, role) ==
    /\ d.kind \in {"route", "block", "complete", "none"}
    /\ Sound(d.state)
    /\ d.kind = "route" => d.next = d.state.owner /\ MayEnter(w.step, d.state.step, role)
    /\ d.kind = "block" => d.state.step = w.step
    /\ d.kind = "none"  => d.state = w /\ w.step = "closeout"
    /\ d.kind = "complete" =>
          /\ d.state.step = "closeout"
          /\ w.step = "qa_validation" \/ (w.step \in PlannerSteps /\ role = "planner")

\* A route is as sound as the workflow it routes to.
LEMMA RouteSound ==
    ASSUME NEW w, NEW v, Sound(v), NEW role, MayEnter(w.step, v.step, role)
    PROVE  SoundDecision(w, RouteTo(v), role) /\ RouteTo(v).kind = "route"
BY DEF RouteTo, SoundDecision

\* Planning steps may be entered from every step of an open workflow.
LEMMA PlanningMayBeEntered ==
    ASSUME NEW from, from # "closeout", NEW role, NEW s \in PlanningSteps
    PROVE  MayEnter(from, s, role)
BY DEF MayEnter, Steps, PlanningSteps, PlannerSteps, AdvisorySteps, WorkSteps, BuildSteps

\* A route by the helper, with the report's category.
LEMMA RoutedDecision ==
    ASSUME NEW w, NEW v, Sound(v), NEW role, NEW s, MayEnter(w.step, s, role),
           NEW st \in {"active", "finalizing", "blocked", "completed"},
           NEW c \in Categories
    PROVE  /\ SoundDecision(w, RouteTo(Routed(v, s, st, c)), role)
           /\ RouteTo(Routed(v, s, st, c)).kind = "route"
<1>1. s \in Steps
  BY DEF MayEnter
<1>2. Sound(Routed(v, s, st, c)) /\ Routed(v, s, st, c).step = s
  BY <1>1, RoutedSound
<1>3. QED
  BY <1>2, RouteSound

\* The advisory decision routes to an advisory step or, at the limit, to the planner.
LEMMA AdvisoryDecisionSound ==
    ASSUME NEW w, w.step # "closeout", NEW v, Sound(v), NEW role \in AdvisoryRoles,
           NEW reporter, NEW c \in Categories
    PROVE  /\ SoundDecision(w, AdvisoryDecision(v, role, c), reporter)
           /\ AdvisoryDecision(v, role, c).kind = "route"
<1>1. CASE v.passes >= PassLimit
  <2>1. "planner_finalize" \in PlanningSteps
    BY DEF PlanningSteps, PlannerSteps
  <2>2. QED
    BY <1>1, <2>1, PlanningMayBeEntered, RoutedDecision
       DEF AdvisoryDecision, ToPlannerFinalize
<1>2. CASE ~(v.passes >= PassLimit)
  <2>1. v.passes \in Nat
    BY CountTypes, 0 \in Nat DEF Sound
  <2>2. v.passes < PassLimit
    BY <1>2, <2>1, LimitsAssumption
  <2>3. Sound(ToAdvisory(v, role, c)) /\ ToAdvisory(v, role, c).step \in PlanningSteps
    BY <2>2, AdvisorySound DEF PlanningSteps
  <2>4. MayEnter(w.step, ToAdvisory(v, role, c).step, reporter)
    BY <2>3, PlanningMayBeEntered
  <2>5. QED
    BY <1>2, <2>3, <2>4, RouteSound DEF AdvisoryDecision
<1>3. QED
  BY <1>1, <1>2

\* A reopening from a work step always routes: back to planning, to guidance, to
\* a review, to a build, or to a revision if a review came before.
LEMMA ReopenDecisionSound ==
    ASSUME NEW w, Sound(w), NEW role \in Roles, NEW c \in Categories,
           w.step \in WorkSteps
    PROVE  /\ SoundDecision(w, ReopenDecision(w, role, c), role)
           /\ ReopenDecision(w, role, c).kind = "route"
<1> DEFINE m == MarkReopen(w, role, c)
<1>1. Sound(m)
  BY MarksSound
<1> HIDE DEF m
<1>2. /\ MayEnter(w.step, "architect_guidance", role)
      /\ MayEnter(w.step, "architect_review", role)
      /\ MayEnter(w.step, "developer_build", role)
      /\ MayEnter(w.step, "planner_finalize", role)
      /\ role = "qa" \/ w.step \in {"architect_review", "developer_revision"}
            => MayEnter(w.step, "developer_revision", role)
  BY DEF MayEnter, Steps, PlanningSteps, PlannerSteps, WorkSteps, BuildSteps, PostReviews
<1>3. CASE c = "ux"
  <2>1. "designer" \in AdvisoryRoles
    BY DEF AdvisoryRoles
  <2>2. ReopenDecision(w, role, c) = AdvisoryDecision(m, "designer", c)
    BY <1>3 DEF ReopenDecision, m
  <2>3. QED
    BY <1>1, <2>1, <2>2, AdvisoryDecisionSound DEF WorkSteps, BuildSteps
<1>4. CASE c = "architecture"
  <2>1. ReopenDecision(w, role, c) = RouteTo(IF role = "qa" THEN ToReview(m, c)
                                                            ELSE ToGuidance(m, c))
    BY <1>4 DEF ReopenDecision, m
  <2>2. Sound(ToReview(m, c)) /\ ToReview(m, c).step = "architect_review"
    BY <1>1, ReviewSound
  <2>3. /\ SoundDecision(w, RouteTo(ToReview(m, c)), role)
        /\ RouteTo(ToReview(m, c)).kind = "route"
    BY <1>2, <2>2, RouteSound
  <2>4. /\ SoundDecision(w, RouteTo(ToGuidance(m, c)), role)
        /\ RouteTo(ToGuidance(m, c)).kind = "route"
    BY <1>1, <1>2, RoutedDecision DEF ToGuidance
  <2>5. QED
    BY <2>1, <2>3, <2>4
<1>5. CASE c \in {"implementation", "verification"}
  <2> DEFINE s == IF role = "qa" \/ w.step \in {"architect_review", "developer_revision"}
                  THEN "developer_revision" ELSE "developer_build"
  <2>1. ReopenDecision(w, role, c) = RouteTo(ToDeveloper(m, s, c))
    BY <1>5 DEF ReopenDecision, m
  <2>2. MayEnter(w.step, s, role)
    BY <1>2
  <2> HIDE DEF s
  <2>3. QED
    BY <1>1, <2>1, <2>2, RoutedDecision DEF ToDeveloper
<1>6. CASE c \notin {"ux", "architecture", "implementation", "verification"}
  <2>1. ReopenDecision(w, role, c) = RouteTo(ToPlannerFinalize(m, c))
    BY <1>6 DEF ReopenDecision, m
  <2>2. QED
    BY <1>1, <1>2, <2>1, RoutedDecision DEF ToPlannerFinalize
<1>7. QED
  BY <1>3, <1>4, <1>5, <1>6

\* A terminal block keeps the step.
LEMMA BlockSound ==
    ASSUME NEW w, Sound(w), NEW role, NEW c \in Categories
    PROVE  /\ SoundDecision(w, BlockWith(TerminalBlock(w, c)), role)
           /\ BlockWith(TerminalBlock(w, c)).kind = "block"
<1>1. "qa" \in Roles
  BY DEF Roles
<1>2. Sound(TerminalBlock(w, c)) /\ TerminalBlock(w, c).step = w.step
  BY <1>1, MarksSound
<1>3. QED
  BY <1>2 DEF BlockWith, SoundDecision

\* Closing out is sound from the QA step, and from a planner step for the planner.
LEMMA CloseSound ==
    ASSUME NEW w, Sound(w), NEW role,
           w.step = "qa_validation" \/ (w.step \in PlannerSteps /\ role = "planner")
    PROVE  SoundDecision(w, CloseWith(Completed(w)), role)
<1>1. "closeout" \in Steps /\ w.category \in Categories
  BY DEF Steps, Sound, WorkflowState
<1>2. Sound(Completed(w)) /\ Completed(w).step = "closeout"
  BY <1>1, RoutedSound DEF Completed
<1>3. QED
  BY <1>2 DEF CloseWith, SoundDecision

\* From a planner step the workflow is routed on, blocked, or closed by the planner.
LEMMA PlannerStepSound ==
    ASSUME NEW w, Sound(w), w.step \in PlannerSteps, NEW t \in Transition,
           NEW role \in Roles, NEW closes \in BOOLEAN, closes => role = "planner"
    PROVE  SoundDecision(w, PlannerStepDecision(w, t, role, closes), role)
<1> DEFINE advisor == AdvisoryRoleOf(t.step)
<1>1. t.category \in Categories /\ "" \in Categories
  BY DEF Transition, Categories
<1>2. advisor # "" => advisor \in AdvisoryRoles
  BY DEF AdvisoryRoleOf, AdvisoryRoles
<1>3. /\ MayEnter(w.step, "planner_finalize", role)
      /\ MayEnter(w.step, "architect_guidance", role)
  BY DEF MayEnter, Steps, PlanningSteps, PlannerSteps, WorkSteps, BuildSteps
<1>4. \A c \in Categories : SoundDecision(w, RouteTo(ToPlannerFinalize(w, c)), role)
  BY <1>3, RoutedDecision DEF ToPlannerFinalize
<1>5. SoundDecision(w, RouteTo(ToGuidance(w, t.category)), role)
  BY <1>1, <1>3, RoutedDecision DEF ToGuidance
<1>6. SoundDecision(w, BlockWith(TerminalBlock(w, t.category)), role)
  BY <1>1, BlockSound
<1>7. advisor # "" => SoundDecision(w, AdvisoryDecision(w, advisor, t.category), role)
  BY <1>1, <1>2, AdvisoryDecisionSound DEF PlannerSteps
<1>8. closes => SoundDecision(w, CloseWith(Completed(w)), role)
  BY CloseSound
<1> HIDE DEF advisor
<1>9. PlannerStepDecision(w, t, role, closes) \in
        {RouteTo(ToPlannerFinalize(w, "")), RouteTo(ToPlannerFinalize(w, t.category)),
         RouteTo(ToGuidance(w, t.category)), BlockWith(TerminalBlock(w, t.category))}
        \cup (IF advisor # "" THEN {AdvisoryDecision(w, advisor, t.category)} ELSE {})
        \cup (IF closes THEN {CloseWith(Completed(w))} ELSE {})
  BY DEF PlannerStepDecision, advisor
<1>10. QED
  BY <1>1, <1>4, <1>5, <1>6, <1>7, <1>8, <1>9

\* From the review the workflow goes to QA, to a revision, to a reopening, or is blocked.
LEMMA ReviewStepSound ==
    ASSUME NEW w, Sound(w), w.step = "architect_review", NEW t \in Transition,
           NEW role \in Roles
    PROVE  SoundDecision(w, ReviewStepDecision(w, t, role), role)
<1>1. t.category \in Categories /\ "implementation" \in Categories
  BY DEF Transition, Categories
<1>2. w.category \in Categories
  BY DEF Sound, WorkflowState
<1>3. /\ MayEnter(w.step, "developer_revision", role)
      /\ MayEnter(w.step, "qa_validation", role)
      /\ w.step \in WorkSteps
  BY DEF MayEnter, Steps, PlanningSteps, PlannerSteps, WorkSteps, BuildSteps, PostReviews
<1>4. SoundDecision(w, RouteTo(ToDeveloper(w, "developer_revision", t.category)), role)
  BY <1>1, <1>3, RoutedDecision DEF ToDeveloper
<1>5. SoundDecision(w, RouteTo(ToQa(w)), role)
  BY <1>2, <1>3, RoutedDecision DEF ToQa
<1>6. \A c \in Categories : SoundDecision(w, BlockWith(TerminalBlock(w, c)), role)
  BY BlockSound
<1>7. SoundDecision(w, ReopenDecision(w, role, t.category), role)
  BY <1>1, <1>3, ReopenDecisionSound
<1>8. QED
  BY <1>1, <1>4, <1>5, <1>6, <1>7 DEF ReviewStepDecision

\* The fields of a decision.
LEMMA DecisionFields ==
    ASSUME NEW w
    PROVE  /\ NoDecision(w).kind = "none" /\ NoDecision(w).state = w
           /\ RouteTo(w).kind = "route" /\ RouteTo(w).state = w /\ RouteTo(w).next = w.owner
BY DEF NoDecision, RouteTo

\* Nothing is decided once the workflow is in closeout.
LEMMA NoDecisionSound ==
    ASSUME NEW w, Sound(w), w.step = "closeout", NEW role
    PROVE  SoundDecision(w, NoDecision(w), role)
<1>1. NoDecision(w).kind = "none" /\ NoDecision(w).state = w
  BY DEF NoDecision
<1>2. QED
  BY <1>1 DEF SoundDecision

\* Every decision of the policy on a sound workflow is sound.
LEMMA DeriveSound ==
    ASSUME NEW w, Sound(w), NEW t \in Transition, NEW role \in Roles,
           NEW closes \in BOOLEAN, closes => role = "planner"
    PROVE  SoundDecision(w, Derive(w, t, role, closes), role)
<1>1. t.category \in Categories /\ w.category \in Categories /\ w.step \in Steps
  BY DEF Transition, Sound, WorkflowState
<1>2. CASE t.outcome = "block"
  BY <1>1, <1>2, BlockSound DEF Derive
<1> DEFINE reopens == t.outcome = "reopen" /\ w.step \in {"architect_guidance",
                         "developer_build", "developer_revision", "qa_validation"}
<1>3. CASE t.outcome # "block" /\ reopens
  <2>1. w.step \in WorkSteps
    BY <1>3 DEF WorkSteps, BuildSteps
  <2>2. Derive(w, t, role, closes) = ReopenDecision(w, role, t.category)
    BY <1>3 DEF Derive
  <2>3. QED
    BY <1>1, <2>1, <2>2, ReopenDecisionSound
<1>4. CASE t.outcome # "block" /\ ~reopens
  <2>1. CASE w.step = "research_initial"
    <3>1. MayEnter(w.step, "planner_draft", role)
      BY <2>1, PlanningMayBeEntered DEF PlanningSteps, PlannerSteps, AdvisorySteps
    <3>2. Derive(w, t, role, closes) = RouteTo(ToPlannerDraft(w, t.category))
      BY <1>4, <2>1 DEF Derive, PlannerSteps, AdvisorySteps
    <3>3. QED
      BY <1>1, <3>1, <3>2, RoutedDecision DEF ToPlannerDraft
  <2>2. CASE w.step \in PlannerSteps
    <3>1. Derive(w, t, role, closes) = PlannerStepDecision(w, t, role, closes)
      BY <1>4, <2>2 DEF Derive, PlannerSteps, AdvisorySteps
    <3>2. QED
      BY <2>2, <3>1, PlannerStepSound
  <2>3. CASE w.step \in AdvisorySteps
    <3>1. MayEnter(w.step, "planner_finalize", role)
      BY <2>3, PlanningMayBeEntered DEF PlanningSteps, PlannerSteps, AdvisorySteps
    <3>2. Derive(w, t, role, closes) = RouteTo(ToPlannerFinalize(w, t.category))
      BY <1>4, <2>3 DEF Derive, PlannerSteps, AdvisorySteps
    <3>3. QED
      BY <1>1, <3>1, <3>2, RoutedDecision DEF ToPlannerFinalize
  <2>4. CASE w.step = "architect_guidance"
    <3>1. MayEnter(w.step, "developer_build", role)
      BY <2>4 DEF MayEnter, WorkSteps, BuildSteps, Steps
    <3>2. Derive(w, t, role, closes) = RouteTo(ToDeveloper(w, "developer_build", t.category))
      BY <1>4, <2>4 DEF Derive, PlannerSteps, AdvisorySteps
    <3>3. QED
      BY <1>1, <3>1, <3>2, RoutedDecision DEF ToDeveloper
  <2>5. CASE w.step = "developer_build"
    <3>1. MayEnter(w.step, "architect_review", role)
      BY <2>5 DEF MayEnter, WorkSteps, BuildSteps, Steps
    <3>2. Derive(w, t, role, closes) = RouteTo(ToReview(w, t.category))
      BY <1>4, <2>5 DEF Derive, PlannerSteps, AdvisorySteps
    <3>3. QED
      BY <1>1, <3>1, <3>2, ReviewSound, RouteSound
  <2>6. CASE w.step = "architect_review"
    <3>1. Derive(w, t, role, closes) = ReviewStepDecision(w, t, role)
      BY <1>4, <2>6 DEF Derive, PlannerSteps, AdvisorySteps
    <3>2. QED
      BY <2>6, <3>1, ReviewStepSound
  <2>7. CASE w.step = "developer_revision"
    <3>1. /\ MayEnter(w.step, "architect_review", role)
          /\ MayEnter(w.step, "qa_validation", role)
      BY <2>7 DEF MayEnter, WorkSteps, BuildSteps, Steps, PostReviews
    <3>2. Derive(w, t, role, closes) \in {RouteTo(ToReview(w, t.category)), RouteTo(ToQa(w))}
      BY <1>4, <2>7 DEF Derive, PlannerSteps, AdvisorySteps
    <3>3. SoundDecision(w, RouteTo(ToReview(w, t.category)), role)
      BY <1>1, <3>1, ReviewSound, RouteSound
    <3>4. SoundDecision(w, RouteTo(ToQa(w)), role)
      BY <1>1, <3>1, RoutedDecision DEF ToQa
    <3>5. QED
      BY <3>2, <3>3, <3>4
  <2>8. CASE w.step = "qa_validation"
    <3>1. Derive(w, t, role, closes) = CloseWith(Completed(w))
      BY <1>4, <2>8 DEF Derive, PlannerSteps, AdvisorySteps
    <3>2. QED
      BY <2>8, <3>1, CloseSound
  <2>9. CASE w.step = "closeout"
    <3>1. Derive(w, t, role, closes) = NoDecision(w)
      BY <1>4, <2>9 DEF Derive, PlannerSteps, AdvisorySteps
    <3>2. QED
      BY <2>9, <3>1, NoDecisionSound
  <2>10. QED
    BY <1>1, <2>1, <2>2, <2>3, <2>4, <2>5, <2>6, <2>7, <2>8, <2>9
       DEF Steps, PlanningSteps, BuildSteps
<1>5. QED
  BY <1>2, <1>3, <1>4

\* From the QA step only a reopening routes on.
LEMMA QaStepRoutesReopenings ==
    ASSUME NEW w, w.step = "qa_validation", NEW t, NEW role, NEW closes,
           Derive(w, t, role, closes).kind = "route"
    PROVE  t.outcome = "reopen"
<1>1. BlockWith(TerminalBlock(w, t.category)).kind = "block"
  BY DEF BlockWith
<1>2. CloseWith(Completed(w)).kind = "complete"
  BY DEF CloseWith
<1>3. t.outcome # "reopen" => Derive(w, t, role, closes) \in
         {BlockWith(TerminalBlock(w, t.category)), CloseWith(Completed(w))}
  BY DEF Derive, PlannerSteps, AdvisorySteps
<1>4. QED
  BY <1>1, <1>2, <1>3

-----------------------------------------------------------------------------
\* Rewriting a report by its contract keeps it a report of the same role.
LEMMA EnforcedType ==
    ASSUME NEW w, NEW rep \in Report
    PROVE  /\ Enforced(w, rep) \in Report
           /\ Enforced(w, rep).role = rep.role
           /\ Enforced(w, rep).handled = rep.handled
<1>1. \A c \in Categories, p \in Phases, s \in Steps :
         ReopenTransition(p, s, c) \in Transition
  BY DEF ReopenTransition, Transition, Outcomes
<1>2. /\ ReopenTransition("planning", "planner_finalize", "scope") \in Transition
      /\ ReopenTransition("implementation", "developer_revision", "verification")
            \in Transition
  BY <1>1 DEF Categories, Phases, Steps, PlanningSteps, PlannerSteps, BuildSteps
<1>3. [NoTransition EXCEPT !.outcome = "complete"] \in Transition
  BY DEF NoTransition, Transition, Outcomes, Categories
<1>4. \A t \in Transition, st \in {"completed", "blocked", "failed"}, e \in BOOLEAN :
         LET r == [rep EXCEPT !.status = st, !.error = e, !.t = t]
         IN r \in Report /\ r.role = rep.role /\ r.handled = rep.handled
  BY DEF Report
<1>5. \A t \in Transition :
         LET r == [rep EXCEPT !.t = t]
         IN r \in Report /\ r.role = rep.role /\ r.handled = rep.handled
  BY DEF Report
<1>6. LET r == [rep EXCEPT !.claims = FALSE]
      IN r \in Report /\ r.role = rep.role /\ r.handled = rep.handled
  BY DEF Report
<1>7. Enforced(w, rep) \in
        {rep, PlannerContractReopen(rep), QaSyncResult(rep), QaPlannerReopen(rep),
         QaEvidenceRecovery(rep), [rep EXCEPT !.claims = FALSE]}
  BY DEF Enforced, SanitizedImplementation
<1> DEFINE Kept(r) == r \in Report /\ r.role = rep.role /\ r.handled = rep.handled
<1>8. Kept(PlannerContractReopen(rep))
  BY <1>2, <1>4 DEF PlannerContractReopen
<1>9. Kept(QaSyncResult(rep))
  BY <1>3, <1>4 DEF QaSyncResult
<1>10. Kept(QaPlannerReopen(rep))
  BY <1>2, <1>5 DEF QaPlannerReopen
<1>11. Kept(QaEvidenceRecovery(rep))
  BY <1>2, <1>4 DEF QaEvidenceRecovery
<1>12. Kept(rep) /\ Kept([rep EXCEPT !.claims = FALSE])
  BY <1>6
<1> HIDE DEF Kept
<1>13. Kept(Enforced(w, rep))
  BY <1>7, <1>8, <1>9, <1>10, <1>11, <1>12
<1>14. QED
  BY <1>13 DEF Kept

-----------------------------------------------------------------------------
(* What a request keeps. *)

\* The workflow at work has had guidance; one at or past a review had a review.
WorkIsGuided == wf.step \in WorkSteps => guided
PostReviewIsReviewed == wf.step \in PostReviews => reviewed

\* Only QA's own step and closeout wait for QA: this is why a report of QA,
\* which may reopen into a revision, never skips the review.
QaWaitsAtQaStep == managed /\ currentRole = "qa" => wf.step \in {"qa_validation", "closeout"}

\* A request not started yet is still in planning.
QueuedIsPlanning == status = "queued" => wf.step \in PlanningSteps

\* The orchestrator's process waits with a copy of an open request only, of the
\* requester's only with its own run: what a cancel in between did is all that the
\* record can say against the copy.
HeldIsOpen ==
    held => IF kind = "user"
            THEN currentRole = "orchestrator" /\ status \in {"delegated", "cancelled"}
            ELSE status \in {"delegated", "blocked", "cancelled"}

\* The inductive invariant, with HeldIsOpen.
IInv ==
    /\ TypeOK
    /\ Sound(wf)
    /\ WorkIsGuided
    /\ PostReviewIsReviewed
    /\ QaWaitsAtQaStep
    /\ QueuedIsPlanning
    /\ DelegateeOwnsStep
    /\ ClosedAtAGate

-----------------------------------------------------------------------------
\* The workflow may become v in answer to a report of role.
Arrival(v, role) ==
    /\ Sound(v)
    /\ v.step \in WorkSteps => wf.step \in WorkSteps \/ v.step = "architect_guidance"
    /\ v.step \in PostReviews => wf.step \in PostReviews \/ v.step = "architect_review"
    /\ v.step = "closeout" =>
          \/ wf.step \in {"closeout", "qa_validation"}
          \/ wf.step \in PlannerSteps /\ role = "planner"

\* The part of the invariant about the workflow and its history.
HistoryInv ==
    /\ Sound(wf) /\ WorkIsGuided /\ PostReviewIsReviewed /\ ClosedAtAGate
    /\ guided \in BOOLEAN /\ reviewed \in BOOLEAN
    /\ closer \in (Roles \cup {""}) \X (Steps \cup {""})

\* What is remembered of an arrival keeps that part of the invariant.
LEMMA RememberKeeps ==
    ASSUME IInv, NEW v, NEW role \in Roles, Arrival(v, role),
           wf' = v, Remember(v, role)
    PROVE  HistoryInv'
<1>1. /\ wf.step \in Steps /\ v.step \in Steps
      /\ guided \in BOOLEAN /\ reviewed \in BOOLEAN
      /\ closer \in (Roles \cup {""}) \X (Steps \cup {""})
  BY DEF IInv, TypeOK, Arrival, Sound, WorkflowState
<1>2. Sound(wf)'
  BY DEF Arrival
<1>3. WorkIsGuided' /\ guided' \in BOOLEAN
  BY <1>1 DEF IInv, WorkIsGuided, Arrival, Remember, WorkSteps, BuildSteps, PlanningSteps,
     PlannerSteps, AdvisorySteps
<1>4. PostReviewIsReviewed' /\ reviewed' \in BOOLEAN
  BY <1>1 DEF IInv, PostReviewIsReviewed, Arrival, Remember, PostReviews, PlanningSteps,
     PlannerSteps, AdvisorySteps
<1>5. CASE v.step = "closeout" /\ wf.step # "closeout"
  <2>1. closer' = <<role, wf.step>>
    BY <1>5 DEF Remember
  <2>2. QED
    BY <1>1, <1>2, <1>3, <1>4, <1>5, <2>1 DEF HistoryInv, ClosedAtAGate, Arrival
<1>6. CASE ~(v.step = "closeout" /\ wf.step # "closeout")
  <2>1. closer' = closer
    BY <1>6 DEF Remember
  <2>2. QED
    BY <1>1, <1>2, <1>3, <1>4, <2>1 DEF HistoryInv, IInv, ClosedAtAGate
<1>7. QED
  BY <1>5, <1>6

\* Every sound decision on a report of the current role is an arrival.
LEMMA DecisionArrives ==
    ASSUME IInv, managed, NEW d, SoundDecision(wf, d, currentRole)
    PROVE  /\ Arrival(d.state, currentRole)
           /\ d.kind = "route" => d.next = d.state.owner /\ d.next \in Roles
<1>1. wf.step \in Steps /\ d.state.step \in Steps
  BY DEF IInv, Sound, SoundDecision, WorkflowState
<1>2. Sound(d.state)
  BY DEF SoundDecision
<1>3. CASE d.kind = "route"
  <2>1. d.next = d.state.owner /\ MayEnter(wf.step, d.state.step, currentRole)
    BY <1>3 DEF SoundDecision
  <2>2. d.state.step # "closeout"
    BY <2>1 DEF MayEnter
  <2>3. d.next \in Roles
    BY <1>1, <1>2, <2>1, <2>2, StepTypes DEF Sound
  <2>4. d.state.step \in PostReviews =>
            wf.step \in PostReviews \/ d.state.step = "architect_review"
    BY <2>1 DEF MayEnter, IInv, QaWaitsAtQaStep, PostReviews
  <2>5. QED
    BY <1>2, <2>1, <2>2, <2>3, <2>4 DEF Arrival, MayEnter
<1>4. CASE d.kind \in {"block", "none"}
  <2>1. d.state.step = wf.step
    BY <1>4 DEF SoundDecision
  <2>2. QED
    BY <1>2, <1>4, <2>1 DEF Arrival
<1>5. CASE d.kind = "complete"
  BY <1>1, <1>2, <1>5 DEF Arrival, SoundDecision, WorkSteps, BuildSteps, PostReviews
<1>6. QED
  BY <1>3, <1>4, <1>5 DEF SoundDecision

\* Keeping the workflow is an arrival too.
LEMMA StayingArrives == ASSUME IInv, NEW role PROVE Arrival(wf, role)
BY DEF IInv, Arrival

-----------------------------------------------------------------------------
\* The workflow's decision is the policy's, or none for a request outside it.
LEMMA WorkflowDecisionSound ==
    ASSUME IInv, NEW rep \in Report
    PROVE  \/ managed /\ SoundDecision(wf, WorkflowDecision(rep), rep.role)
           \/ /\ WorkflowDecision(rep) = NoDecision(wf)
              /\ ~managed \/ (kind = "planning" /\ rep.role = "planner")
<1>1. rep.t \in Transition /\ rep.role \in Roles
  BY DEF Report
<1>2. ClosesInPlanning(wf, rep) \in BOOLEAN
      /\ (ClosesInPlanning(wf, rep) => rep.role = "planner")
  BY DEF ClosesInPlanning
<1>3. Sound(wf)
  BY DEF IInv
<1>4. SoundDecision(wf, Decide(wf, rep), rep.role)
  BY <1>1, <1>2, <1>3, DeriveSound DEF Decide
<1>5. QED
  BY <1>4 DEF WorkflowDecision

\* What a decision, the workflow's or none, makes of the workflow is an arrival.
LEMMA WorkflowDecisionArrives ==
    ASSUME IInv, NEW rep \in Report, rep.role = currentRole
    PROVE  Arrival(WorkflowDecision(rep).state, rep.role)
<1>1. CASE managed /\ SoundDecision(wf, WorkflowDecision(rep), rep.role)
  BY <1>1, DecisionArrives
<1>2. CASE WorkflowDecision(rep) = NoDecision(wf)
  <2>1. NoDecision(wf).state = wf
    BY DecisionFields
  <2>2. QED
    BY <1>2, <2>1, StayingArrives
<1>3. QED
  BY <1>1, <1>2, WorkflowDecisionSound

\* What routing on a report of the current role may decide, seeding included.
LEMMA RoutingDecisionFacts ==
    ASSUME IInv, NEW rep \in Report, rep.role = currentRole
    PROVE  LET d == RoutingDecision(rep) IN
           /\ Arrival(d.state, rep.role)
           /\ d.kind = "route" => d.next = d.state.owner /\ d.next \in Roles
           /\ d.kind = "block" => d.state.step = wf.step
           /\ d.kind = "none" /\ ~rep.handled /\ kind = "user" /\ managed
                => wf.step = "closeout"
<1> DEFINE d == RoutingDecision(rep)
<1>1. CASE rep.handled
  <2>1. d = NoDecision(wf)
    BY <1>1 DEF RoutingDecision
  <2>2. d.kind = "none" /\ d.state = wf
    BY <2>1, DecisionFields
  <2>3. QED
    BY <1>1, <2>2, StayingArrives
<1>2. CASE ~rep.handled /\ ~managed /\ rep.role = "orchestrator"
  <2>1. d = RouteTo(ResearchFirstState)
    BY <1>2 DEF RoutingDecision
  <2>2. d.kind = "route" /\ d.state = ResearchFirstState /\ d.next = ResearchFirstState.owner
    BY <2>1, DecisionFields
  <2>3. Arrival(ResearchFirstState, rep.role)
    BY InitialSound DEF Arrival, WorkSteps, BuildSteps, PostReviews
  <2>4. ResearchFirstState.owner \in Roles
    BY InitialSound, StepTypes DEF Sound, Steps, PlanningSteps
  <2>5. QED
    BY <2>2, <2>3, <2>4
<1>3. CASE ~rep.handled /\ ~(~managed /\ rep.role = "orchestrator")
  <2>1. d = WorkflowDecision(rep)
    BY <1>3 DEF RoutingDecision
  <2>2. CASE managed /\ SoundDecision(wf, d, rep.role)
    <3>1. /\ Arrival(d.state, rep.role)
          /\ d.kind = "route" => d.next = d.state.owner /\ d.next \in Roles
      BY <2>2, DecisionArrives
    <3>2. /\ d.kind = "block" => d.state.step = wf.step
          /\ d.kind = "none" => wf.step = "closeout"
      BY <2>2 DEF SoundDecision
    <3>3. QED
      BY <3>1, <3>2
  <2>3. CASE d = NoDecision(wf) /\ (~managed \/ kind = "planning")
    <3>1. d.kind = "none" /\ d.state = wf
      BY <2>3, DecisionFields
    <3>2. QED
      BY <2>3, <3>1, StayingArrives
  <2>4. QED
    BY <2>1, <2>2, <2>3, WorkflowDecisionSound
<1>4. QED
  BY <1>1, <1>2, <1>3

\* Judging a report keeps its role, its contract and its transition.
LEMMA JudgedType ==
    ASSUME NEW rep \in Report
    PROVE  /\ Judged(rep) \in Report
           /\ Judged(rep).role = rep.role
           /\ Judged(rep).handled = rep.handled
<1> DEFINE r == IF rep.contract = "valid" THEN rep
                ELSE [rep EXCEPT !.status = "failed", !.error = TRUE]
           c == [r EXCEPT !.status = "completed", !.error = FALSE]
<1>1. r \in Report /\ r.role = rep.role /\ r.handled = rep.handled
  BY DEF Report
<1>2. Judged(rep) \in {r, c}
  BY DEF Judged, Coerced
<1> HIDE DEF r
<1>3. c \in Report /\ c.role = r.role /\ c.handled = r.handled
  BY <1>1 DEF Report
<1> HIDE DEF c
<1>4. QED
  BY <1>1, <1>2, <1>3

\* When a report of QA fails the request, QA goes on waiting at its own step: a
\* reopening would have been coerced into a completed report.
LEMMA StuckQaStays ==
    ASSUME IInv, NEW rep \in Report, currentRole = "qa", managed, rep.role = "qa", ~rep.handled,
           Stuck(Judged(rep)), Judged(rep).contract = "valid"
    PROVE  WorkflowDecision(Judged(rep)).state.step \in {"qa_validation", "closeout"}
<1>1. rep.contract = "valid"
  <2>1. CASE rep.contract # "valid"
    <3> DEFINE r == [rep EXCEPT !.status = "failed", !.error = TRUE]
    <3>1. r.contract = rep.contract
      BY DEF Report
    <3>2. [r EXCEPT !.status = "completed", !.error = FALSE].contract = rep.contract
      BY DEF Report
    <3>3. Judged(rep) \in {r, [r EXCEPT !.status = "completed", !.error = FALSE]}
      BY <2>1 DEF Judged, Coerced
    <3>4. QED
      BY <3>1, <3>2, <3>3
  <2>2. QED
    BY <2>1
<1>2. Judged(rep) = Coerced(rep, WorkflowDecision(rep))
  BY <1>1 DEF Judged
<1>3. /\ [rep EXCEPT !.status = "completed", !.error = FALSE].status = "completed"
      /\ [rep EXCEPT !.status = "completed", !.error = FALSE].error = FALSE
  BY DEF Report
<1>4. /\ Judged(rep) = rep
      /\ ~(ExplicitContinuation(rep.t) /\ WorkflowDecision(rep).kind = "route")
  BY <1>2, <1>3 DEF Coerced, Stuck
<1>5. CASE WorkflowDecision(rep) = NoDecision(wf)
  <2>1. WorkflowDecision(Judged(rep)).state = wf
    BY <1>4, <1>5, DecisionFields
  <2>2. wf.step \in {"qa_validation", "closeout"}
    BY DEF IInv, QaWaitsAtQaStep
  <2>3. QED
    BY <2>1, <2>2
<1>6. CASE managed /\ SoundDecision(wf, WorkflowDecision(rep), rep.role)
  <2>1. WorkflowDecision(rep) \in {NoDecision(wf), Decide(wf, rep)}
    BY DEF WorkflowDecision
  <2>2. CASE WorkflowDecision(rep).kind # "route"
    BY <1>4, <1>6, <2>2 DEF SoundDecision, IInv, QaWaitsAtQaStep
  <2>3. CASE WorkflowDecision(rep).kind = "route"
    <3>1. WorkflowDecision(rep) = Decide(wf, rep)
      BY <2>1, <2>3, DecisionFields
    <3>2. wf.step = "qa_validation"
      BY <1>6, <2>3 DEF SoundDecision, MayEnter, IInv, QaWaitsAtQaStep
    <3>3. rep.t.outcome = "reopen"
      BY <2>3, <3>1, <3>2, QaStepRoutesReopenings DEF Decide
    <3>4. QED
      BY <1>4, <2>3, <3>3 DEF ExplicitContinuation
  <2>4. QED
    BY <2>2, <2>3
<1>7. QED
  BY <1>5, <1>6, WorkflowDecisionSound

-----------------------------------------------------------------------------
\* What the invariant adds to HistoryInv.
LEMMA IInvParts ==
    /\ IInv <=> /\ TypeOK /\ HistoryInv
                /\ QaWaitsAtQaStep /\ QueuedIsPlanning /\ DelegateeOwnsStep
    /\ TypeOK <=> /\ kind \in {"todo", "planning", "user"} /\ status \in Statuses
                  /\ currentRole \in Roles /\ managed \in BOOLEAN /\ wf \in WorkflowState
                  /\ held \in BOOLEAN
                  /\ bypassed \in BOOLEAN /\ guided \in BOOLEAN /\ reviewed \in BOOLEAN
                  /\ closer \in (Roles \cup {""}) \X (Steps \cup {""})
BY DEF IInv, TypeOK, HistoryInv

\* Failing the request keeps the invariant.
LEMMA FailRequestKeeps ==
    ASSUME IInv, NEW rep \in Report, rep.handled => rep.role = "orchestrator",
           Judged(rep).role = currentRole, Stuck(Judged(rep)),
           FailRequest(Judged(rep)), UNCHANGED kind, held' \in BOOLEAN
    PROVE  IInv'
<1> DEFINE r == Judged(rep)
           d == IF r.contract # "valid" THEN NoDecision(wf) ELSE WorkflowDecision(r)
<1>1. /\ wf' = d.state /\ Remember(d.state, r.role)
      /\ status' = (IF d.kind = "block" THEN "blocked" ELSE r.status)
      /\ UNCHANGED <<currentRole, managed, bypassed>>
  BY DEF FailRequest
<1>2. /\ r \in Report /\ r.role = rep.role /\ r.role \in Roles
      /\ r.status \in {"completed", "blocked", "failed"}
  BY JudgedType DEF Report
<1>3. Arrival(d.state, r.role)
  <2>1. CASE r.contract # "valid"
    <3>1. d.state = wf
      BY <2>1, DecisionFields
    <3>2. QED
      BY <3>1, StayingArrives
  <2>2. CASE r.contract = "valid"
    BY <1>2, <2>2, WorkflowDecisionArrives
  <2>3. QED
    BY <2>1, <2>2
<1>4. managed /\ currentRole = "qa" => d.state.step \in {"qa_validation", "closeout"}
  <2>1. CASE r.contract # "valid"
    <3>1. d.state = wf
      BY <2>1, DecisionFields
    <3>2. QED
      BY <3>1 DEF IInv, QaWaitsAtQaStep
  <2>2. CASE r.contract = "valid"
    BY <1>2, <2>2, StuckQaStays
  <2>3. QED
    BY <2>1, <2>2
<1> HIDE DEF r, d
<1>5. HistoryInv'
  BY <1>1, <1>2, <1>3, RememberKeeps
<1>6. status' \in {"completed", "blocked", "failed"}
  BY <1>1, <1>2
<1>7. TypeOK'
  BY <1>1, <1>5, <1>6, IInvParts DEF TypeOK, Statuses, HistoryInv, Sound
<1>8. QaWaitsAtQaStep' /\ QueuedIsPlanning' /\ DelegateeOwnsStep'
  BY <1>1, <1>4, <1>6 DEF QaWaitsAtQaStep, QueuedIsPlanning, DelegateeOwnsStep
<1>9. QED
  BY <1>5, <1>7, <1>8 DEF IInv, HistoryInv

\* Routing a completed report keeps the invariant, one step per outcome.
LEMMA RouteRequestKeeps ==
    ASSUME IInv, NEW rep \in Report, rep.role = currentRole,
           RouteRequest(rep), UNCHANGED kind, held' \in BOOLEAN
    PROVE  IInv'
<1> DEFINE d == RoutingDecision(rep)
<1>1. /\ Arrival(d.state, rep.role)
      /\ d.kind = "route" => d.next = d.state.owner /\ d.next \in Roles
      /\ d.kind = "block" => d.state.step = wf.step
      /\ d.kind = "none" /\ ~rep.handled /\ kind = "user" /\ managed
           => wf.step = "closeout"
  BY RoutingDecisionFacts
<1>2. rep.role \in Roles
  BY DEF Report
<1> HIDE DEF d
<1>3. CASE DelegateTo(d, rep)
  <2>1. /\ wf' = d.state /\ Remember(d.state, rep.role) /\ status' = "delegated"
        /\ managed' = TRUE /\ bypassed' = FALSE
        /\ currentRole' = d.state.owner /\ currentRole' \in Roles
    BY <1>1, <1>3 DEF DelegateTo
  <2>2. HistoryInv'
    BY <1>1, <1>2, <2>1, RememberKeeps
  <2>3. TypeOK'
    BY <2>1, <2>2, IInvParts DEF TypeOK, Statuses, HistoryInv, Sound
  <2>4. d.state.step \in Steps /\ d.state.owner = OwnerOf(d.state.step)
    BY <1>1 DEF Arrival, Sound, WorkflowState
  <2>5. QaWaitsAtQaStep'
    BY <2>1, <2>4 DEF QaWaitsAtQaStep, OwnerOf, PlannerSteps, Steps, PlanningSteps,
       AdvisorySteps, BuildSteps
  <2>6. QueuedIsPlanning' /\ DelegateeOwnsStep'
    BY <2>1 DEF QueuedIsPlanning, DelegateeOwnsStep
  <2>7. QED
    BY <2>2, <2>3, <2>5, <2>6 DEF IInv, HistoryInv
<1>4. CASE BlockOn(d, rep)
  <2>1. /\ wf' = d.state /\ Remember(d.state, rep.role) /\ status' = "blocked"
        /\ UNCHANGED <<currentRole, managed, bypassed>> /\ wf'.step = wf.step
    BY <1>1, <1>4 DEF BlockOn
  <2>2. HistoryInv'
    BY <1>1, <1>2, <2>1, RememberKeeps
  <2>3. TypeOK'
    BY <2>1, <2>2, IInvParts DEF TypeOK, Statuses, HistoryInv, Sound
  <2>4. QaWaitsAtQaStep' /\ QueuedIsPlanning' /\ DelegateeOwnsStep'
    BY <2>1 DEF IInv, QaWaitsAtQaStep, QueuedIsPlanning, DelegateeOwnsStep
  <2>5. QED
    BY <2>2, <2>3, <2>4 DEF IInv, HistoryInv
<1>5. CASE CompleteWith(d, rep)
  <2>1. /\ wf' = d.state /\ Remember(d.state, rep.role) /\ status' = "completed"
        /\ currentRole' = "orchestrator" /\ UNCHANGED <<managed, bypassed>>
    BY <1>5 DEF CompleteWith
  <2>2. HistoryInv'
    BY <1>1, <1>2, <2>1, RememberKeeps
  <2>3. TypeOK'
    BY <2>1, <2>2, IInvParts DEF TypeOK, Statuses, HistoryInv, Sound, Roles
  <2>4. QaWaitsAtQaStep' /\ QueuedIsPlanning' /\ DelegateeOwnsStep'
    BY <2>1 DEF QaWaitsAtQaStep, QueuedIsPlanning, DelegateeOwnsStep
  <2>5. QED
    BY <2>2, <2>3, <2>4 DEF IInv, HistoryInv
<1>6. CASE SelectedByScore(d, rep)
  <2>1. /\ managed => wf.step = "closeout"
        /\ status' = "delegated" /\ bypassed' = TRUE /\ currentRole' \in Roles
        /\ UNCHANGED <<managed, wf, guided, reviewed, closer>>
    BY <1>1, <1>2, <1>6 DEF SelectedByScore, Selectable, Roles
  <2>2. HistoryInv'
    BY <2>1 DEF IInv, TypeOK, HistoryInv, WorkIsGuided, PostReviewIsReviewed, ClosedAtAGate
  <2>3. TypeOK'
    BY <2>1, IInvParts DEF TypeOK, Statuses
  <2>4. QaWaitsAtQaStep' /\ QueuedIsPlanning' /\ DelegateeOwnsStep'
    BY <2>1 DEF QaWaitsAtQaStep, QueuedIsPlanning, DelegateeOwnsStep
  <2>5. QED
    BY <2>2, <2>3, <2>4 DEF IInv, HistoryInv
<1>7. CASE SpecReportFails(d, rep)
  <2> DEFINE w == [d.state EXCEPT !.phase = "planning", !.step = "planner_finalize",
                                  !.owner = "planner", !.phaseStatus = "blocked"]
  <2>1. /\ wf' = w /\ Remember(w, rep.role) /\ status' = "blocked"
        /\ rep.role = "planner" /\ UNCHANGED <<currentRole, managed, bypassed>>
    BY <1>7 DEF SpecReportFails, Announced
  <2>2. PhaseOf("planner_finalize") = "planning" /\ OwnerOf("planner_finalize") = "planner"
    BY DEF PhaseOf, OwnerOf, PlanningSteps, PlannerSteps, AdvisorySteps, BuildSteps
  <2>3. /\ "planner_finalize" \in Steps /\ "planning" \in Phases
        /\ "planner" \in (Roles \ {"orchestrator"}) \cup {"version_controller"}
    BY DEF Steps, PlanningSteps, PlannerSteps, Phases, Roles
  <2>4. Sound(w) /\ w.step = "planner_finalize"
    BY <1>1, <2>2, <2>3 DEF Arrival, Sound, WorkflowState
  <2>5. Arrival(w, rep.role)
    BY <2>4 DEF Arrival, WorkSteps, BuildSteps, PostReviews
  <2> HIDE DEF w
  <2>6. HistoryInv'
    BY <1>2, <2>1, <2>5, RememberKeeps
  <2>7. TypeOK'
    BY <2>1, <2>6, IInvParts DEF TypeOK, Statuses, HistoryInv, Sound
  <2>8. QaWaitsAtQaStep' /\ QueuedIsPlanning' /\ DelegateeOwnsStep'
    BY <2>1 DEF QaWaitsAtQaStep, QueuedIsPlanning, DelegateeOwnsStep
  <2>9. QED
    BY <2>6, <2>7, <2>8 DEF IInv, HistoryInv
<1>8. QED
  BY <1>3, <1>4, <1>5, <1>6, <1>7 DEF RouteRequest, d

\* Applying a report of the current role keeps the invariant.
LEMMA ApplyRoleResultKeeps ==
    ASSUME IInv, NEW rep \in Report, rep.role = currentRole,
           rep.handled => rep.role = "orchestrator", ApplyRoleResult(rep), held' \in BOOLEAN
    PROVE  IInv'
<1>1. /\ Judged(rep) \in Report
      /\ Judged(rep).role = currentRole
  BY JudgedType
<1>2. UNCHANGED kind
  BY DEF ApplyRoleResult
<1>3. CASE Stuck(Judged(rep))
  <2>1. FailRequest(Judged(rep))
    BY <1>3 DEF ApplyRoleResult, Stuck
  <2>2. QED
    BY <1>1, <1>2, <1>3, <2>1, FailRequestKeeps
<1>4. CASE ~Stuck(Judged(rep))
  <2>1. RouteRequest(Judged(rep))
    BY <1>4 DEF ApplyRoleResult, Stuck
  <2>2. QED
    BY <1>1, <1>2, <2>1, RouteRequestKeeps
<1>5. QED
  BY <1>3, <1>4

\* An action that leaves the workflow and its history alone keeps HistoryInv.
LEMMA HistoryKept ==
    ASSUME IInv, UNCHANGED <<wf, guided, reviewed, closer>>
    PROVE  HistoryInv'
BY DEF IInv, TypeOK, HistoryInv, WorkIsGuided, PostReviewIsReviewed, ClosedAtAGate

\* The initial states satisfy the invariant.
LEMMA InitIInv == Init => IInv
<1> SUFFICES ASSUME Init PROVE IInv
  OBVIOUS
<1>1. wf \in {DefaultState, ResearchFirstState}
  BY DEF Init
<1>2. Sound(wf) /\ wf.step \in {"planner_draft", "research_initial"}
  BY <1>1, InitialSound
<1>3. TypeOK
  BY <1>2, ReportsAssumption
     DEF Init, TypeOK, Sound, Statuses, Roles, NotClosed
<1>4. QED
  BY <1>2, <1>3
     DEF Init, IInv, WorkIsGuided, WorkSteps, BuildSteps, PostReviewIsReviewed, PostReviews,
         QaWaitsAtQaStep, QueuedIsPlanning, PlanningSteps, PlannerSteps,
         DelegateeOwnsStep, ClosedAtAGate, NotClosed

\* A report keeps its role and its handling when the workflow contract is enforced.
LEMMA AsReportedType ==
    ASSUME IInv, NEW rep \in Reports
    PROVE  /\ AsReported(rep) \in Report /\ AsReported(rep).role = rep.role
           /\ AsReported(rep).handled => AsReported(rep).role = "orchestrator"
<1>1. rep \in Report /\ (rep.handled => rep.role = "orchestrator")
  BY ReportsAssumption, HandlingAssumption
<1>2. /\ Enforced(wf, rep) \in Report /\ Enforced(wf, rep).role = rep.role
      /\ Enforced(wf, rep).handled = rep.handled
  BY <1>1, EnforcedType
<1>3. QED
  BY <1>1, <1>2 DEF AsReported

\* Every step keeps the invariant.
LEMMA NextIInv == IInv /\ HeldIsOpen /\ [Next]_vars => IInv'
<1> SUFFICES ASSUME IInv, HeldIsOpen, [Next]_vars PROVE IInv'
  OBVIOUS
<1>1. CASE StartChain
  <2>1. /\ status' = "delegated" /\ currentRole' = wf.owner
        /\ UNCHANGED <<kind, managed, wf, held, bypassed, guided, reviewed, closer>>
        /\ wf.step \in PlanningSteps
    BY <1>1 DEF StartChain, history, IInv, QueuedIsPlanning
  <2>2. wf.owner = OwnerOf(wf.step) /\ OwnerOf(wf.step) \in Roles \ {"qa"}
    BY <2>1 DEF IInv, Sound, OwnerOf, PlanningSteps, PlannerSteps, AdvisorySteps, Roles
  <2>3. TypeOK'
    BY <2>1, <2>2 DEF IInv, TypeOK, Statuses
  <2>4. HistoryInv'
    BY <2>1, HistoryKept
  <2>5. QaWaitsAtQaStep' /\ QueuedIsPlanning' /\ DelegateeOwnsStep'
    BY <2>1, <2>2 DEF QaWaitsAtQaStep, QueuedIsPlanning, DelegateeOwnsStep
  <2>6. QED
    BY <2>3, <2>4, <2>5 DEF IInv, HistoryInv
<1>2. CASE CancelRequest
  <2>1. /\ status' = "cancelled"
        /\ UNCHANGED <<kind, currentRole, managed, wf, held, bypassed, guided, reviewed, closer>>
    BY <1>2 DEF CancelRequest, history
  <2>2. TypeOK'
    BY <2>1 DEF IInv, TypeOK, Statuses
  <2>3. HistoryInv'
    BY <2>1, HistoryKept
  <2>4. QaWaitsAtQaStep' /\ QueuedIsPlanning' /\ DelegateeOwnsStep'
    BY <2>1 DEF IInv, QaWaitsAtQaStep, QueuedIsPlanning, DelegateeOwnsStep
  <2>5. QED
    BY <2>2, <2>3, <2>4 DEF IInv, HistoryInv
<1>3. CASE ResumeBlocked \/ RetryBlocked
  <2>1. /\ status' = "delegated" /\ currentRole' \in {"planner", "orchestrator"}
        /\ bypassed' = TRUE /\ UNCHANGED <<kind, managed, wf, guided, reviewed, closer>>
        /\ held' \in BOOLEAN
    BY <1>3 DEF ResumeBlocked, RetryBlocked, IInv, TypeOK
  <2>2. TypeOK'
    BY <2>1 DEF IInv, TypeOK, Statuses, Roles
  <2>3. HistoryInv'
    BY <2>1, HistoryKept
  <2>4. QaWaitsAtQaStep' /\ QueuedIsPlanning' /\ DelegateeOwnsStep'
    BY <2>1 DEF QaWaitsAtQaStep, QueuedIsPlanning, DelegateeOwnsStep
  <2>5. QED
    BY <2>2, <2>3, <2>4 DEF IInv, HistoryInv
<1>4. ASSUME NEW rep \in Reports, OrchestratorResult(rep)
      PROVE  IInv'
  <2>1. kind = "user" /\ held /\ rep.role = "orchestrator"
        /\ ApplyRoleResult(rep) /\ held' \in BOOLEAN
    BY <1>4 DEF OrchestratorResult
  <2>2. rep \in Report /\ rep.role = currentRole
        /\ (rep.handled => rep.role = "orchestrator")
    BY <2>1, ReportsAssumption, HandlingAssumption DEF HeldIsOpen
  <2>3. QED
    BY <2>1, <2>2, ApplyRoleResultKeeps
<1>5. ASSUME NEW rep \in Reports, rep.role = currentRole, ApplyRoleResult(AsReported(rep)),
             held' \in BOOLEAN
      PROVE  IInv'
  BY <1>5, AsReportedType, ApplyRoleResultKeeps
<1>6. ASSUME NEW rep \in Reports, HandleRoleReport(rep)
      PROVE  IInv'
  <2>1. rep.role = currentRole
    BY <1>6 DEF HandleRoleReport, Accepted
  <2>2. CASE SpecReportDue(AsReported(rep))
    <3>1. held' = TRUE /\ UNCHANGED <<kind, record, history>>
      BY <1>6, <2>2 DEF HandleRoleReport
    <3>2. QED
      BY <3>1 DEF record, history, IInv, TypeOK, WorkIsGuided, PostReviewIsReviewed,
         QaWaitsAtQaStep, QueuedIsPlanning, DelegateeOwnsStep, ClosedAtAGate
  <2>3. CASE ~SpecReportDue(AsReported(rep))
    <3>1. ApplyRoleResult(AsReported(rep)) /\ held' \in BOOLEAN
      BY <1>6, <2>3 DEF HandleRoleReport, IInv, TypeOK
    <3>2. QED
      BY <2>1, <3>1, <1>5
  <2>4. QED
    BY <2>2, <2>3
<1>7. ASSUME NEW rep \in Reports, SpecReported(rep)
      PROVE  IInv'
  <2>1. rep.role = currentRole /\ ApplyRoleResult(AsReported(rep)) /\ held' \in BOOLEAN
    BY <1>7 DEF SpecReported
  <2>2. QED
    BY <2>1, <1>5
<1>8. CASE CrashOrchestrator \/ UNCHANGED vars
  <2>1. UNCHANGED <<kind, record, history>> /\ held' \in BOOLEAN
    BY <1>8 DEF CrashOrchestrator, vars, IInv, TypeOK
  <2>2. QED
    BY <2>1 DEF record, history, IInv, TypeOK, WorkIsGuided, PostReviewIsReviewed,
       QaWaitsAtQaStep, QueuedIsPlanning, DelegateeOwnsStep, ClosedAtAGate
<1>9. QED
  BY <1>1, <1>2, <1>3, <1>4, <1>6, <1>7, <1>8 DEF Next

\* No step loads a copy of a finished request, or leaves one behind a report.
LEMMA NextHeld == HeldIsOpen /\ [Next]_vars => HeldIsOpen'
<1> SUFFICES ASSUME HeldIsOpen, [Next]_vars PROVE HeldIsOpen'
  OBVIOUS
<1>1. ASSUME NEW rep \in Reports, HandleRoleReport(rep)
      PROVE  HeldIsOpen'
  <2>1. /\ status \in {"delegated", "blocked"} /\ currentRole # "orchestrator"
        /\ kind # "user" => ~held
    BY <1>1 DEF HandleRoleReport, Accepted
  <2>2. CASE SpecReportDue(AsReported(rep))
    <3>1. kind # "user"
      BY <2>2 DEF SpecReportDue, Announced
    <3>2. UNCHANGED <<kind, status>>
      BY <1>1, <2>2 DEF HandleRoleReport, record
    <3>3. QED
      BY <2>1, <3>1, <3>2 DEF HeldIsOpen
  <2>3. CASE ~SpecReportDue(AsReported(rep))
    <3>1. held' = held
      BY <1>1, <2>3 DEF HandleRoleReport
    <3>2. QED
      BY <2>1, <3>1 DEF HeldIsOpen
  <2>4. QED
    BY <2>2, <2>3
<1>2. ASSUME NEW rep \in Reports, OrchestratorResult(rep) \/ SpecReported(rep)
      PROVE  HeldIsOpen'
  BY <1>2 DEF OrchestratorResult, SpecReported, HeldIsOpen
<1>3. CASE \/ StartChain \/ CancelRequest \/ ResumeBlocked \/ RetryBlocked
           \/ CrashOrchestrator \/ UNCHANGED vars
  BY <1>3 DEF StartChain, CancelRequest, ResumeBlocked, RetryBlocked, CrashOrchestrator,
     HeldIsOpen, vars, record, history
<1>4. QED
  BY <1>1, <1>2, <1>3 DEF Next

-----------------------------------------------------------------------------
\* IInv holds in every reachable state, for every limit and set of reports.
THEOREM InductiveInvariant == Spec => [](IInv /\ HeldIsOpen)
<1>1. Init => HeldIsOpen
  BY DEF Init, HeldIsOpen
<1>2. QED
  BY <1>1, InitIInv, NextIInv, NextHeld, PTL DEF Spec

\* Every variable of a request keeps its type: in particular a delegated request
\* always names a role, never the version controller of a closed workflow.
THEOREM TypeCorrect == Spec => []TypeOK
<1>1. IInv => TypeOK
  BY DEF IInv
<1>2. QED
  BY <1>1, InductiveInvariant, PTL

\* Step, phase and owner of the stored workflow always agree.
THEOREM StepsAgree == Spec => []StepAgrees
<1>1. IInv => StepAgrees
  BY DEF IInv, Sound, StepAgrees
<1>2. QED
  BY <1>1, InductiveInvariant, PTL

\* Advisory passes never exceed their limit, whatever reports and reopenings come.
THEOREM AdvisoryCapped == Spec => []AdvisoryPassesCapped
<1>1. IInv => AdvisoryPassesCapped
  BY DEF IInv, Sound, AdvisoryPassesCapped
<1>2. QED
  BY <1>1, InductiveInvariant, PTL

\* The stored workflow is always one the policy can go on from.
THEOREM WorkflowStaysSound == Spec => []WorkflowIsSound
<1>1. IInv => WorkflowIsSound
  BY DEF IInv, Sound, WorkflowIsSound, StepAgrees, AdvisoryPassesCapped
<1>2. QED
  BY <1>1, InductiveInvariant, PTL

\* No implementation without guidance since the last planning.
THEOREM GuidanceFirst == Spec => []ImplementationIsGuided
<1>1. ASSUME IInv, wf.phase \in {"implementation", "validation"}
      PROVE  wf.step \in WorkSteps
  BY <1>1 DEF IInv, Sound, WorkflowState, PhaseOf, Steps, PlanningSteps, PlannerSteps,
     AdvisorySteps, WorkSteps
<1>2. IInv => ImplementationIsGuided
  BY <1>1 DEF IInv, WorkIsGuided, ImplementationIsGuided
<1>3. QED
  BY <1>2, InductiveInvariant, PTL

\* No revision and no validation without a review since the last build.
THEOREM ReviewFirst == Spec => []ValidationIsReviewed
<1>1. IInv => ValidationIsReviewed
  BY DEF IInv, PostReviewIsReviewed, PostReviews, ValidationIsReviewed
<1>2. QED
  BY <1>1, InductiveInvariant, PTL

\* A delegated request waits for the owner of its step.
THEOREM DelegateeIsOwner == Spec => []DelegateeOwnsStep
<1>1. IInv => DelegateeOwnsStep
  BY DEF IInv
<1>2. QED
  BY <1>1, InductiveInvariant, PTL

\* A workflow is closed out from the QA step, or by the planner from a planner step.
THEOREM ClosedOnlyAtAGate == Spec => []ClosedAtAGate
<1>1. IInv => ClosedAtAGate
  BY DEF IInv
<1>2. QED
  BY <1>1, InductiveInvariant, PTL

\* A finished request changes only by a cancellation, or, cancelled, by a copy the
\* orchestrator loaded before: no other handler that waits can overwrite it.
THEOREM FinishedStays == Spec => FinishedIsFinal
<1> DEFINE Kept == status \in TerminalStatuses =>
                      \/ status' \in {status, "cancelled"} /\ UNCHANGED <<currentRole, wf>>
                      \/ status = "cancelled" /\ held /\ ~held'
<1>1. HeldIsOpen /\ [Next]_vars => [Kept]_vars
  <2> SUFFICES ASSUME HeldIsOpen, Next, status \in TerminalStatuses PROVE Kept
    OBVIOUS
  <2>1. ASSUME NEW rep \in Reports, OrchestratorResult(rep) \/ SpecReported(rep)
        PROVE  Kept
    BY <2>1 DEF OrchestratorResult, SpecReported, HeldIsOpen, TerminalStatuses
  <2>2. ASSUME NEW rep \in Reports, HandleRoleReport(rep)
        PROVE  FALSE
    BY <2>2 DEF HandleRoleReport, Accepted, TerminalStatuses
  <2>3. CASE StartChain \/ CancelRequest \/ ResumeBlocked \/ RetryBlocked \/ CrashOrchestrator
    BY <2>3 DEF StartChain, CancelRequest, ResumeBlocked, RetryBlocked, CrashOrchestrator,
       record, TerminalStatuses
  <2>4. QED
    BY <2>1, <2>2, <2>3 DEF Next
<1>2. QED
  BY <1>1, InductiveInvariant, PTL DEF Spec, FinishedIsFinal
=============================================================================
