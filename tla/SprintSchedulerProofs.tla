------------------------ MODULE SprintSchedulerProofs ------------------------
(***************************************************************************)
(* Theorems about SprintScheduler, for any number of sprints, goals and    *)
(* events and in every mode: as long as no command crosses a held copy,    *)
(* the scheduler knows the one live sprint, goals know their sprints, and  *)
(* commands on goals are obeyed.  And about SprintBacklog: what is         *)
(* selected is worked on, and what is done stays done.                     *)
(***************************************************************************)
EXTENDS SprintScheduler, SprintBacklog, WellFoundedInduction, TLAPS

Polls == [at : {"idle", "resuming", "resumed", "sourcing", "asking", "selecting", "auto"},
          seen : Scheds, due : BOOLEAN, goal : 0..MaxGoals, copy : GoalFiles]
Loops == [at : {"none", "working", "reporting"}, sprint : 0..MaxSprints,
          by : {"none", "task", "poll", "auto", "cli"}]

\* The poll resumes a sprint and sources for a goal that there is.
PollHoldsOne ==
    /\ poll \in Polls
    /\ poll.at = "resuming" => poll.seen.active \in Sprints
    /\ poll.at = "sourcing" => poll.goal \in Goals

\* A loop works on a sprint that has a file.
LoopHasFile(k) ==
    loop[k] = NoLoop
    \/ (loop[k].sprint \in Sprints /\ sprint[loop[k].sprint].status # "absent")
LoopsHaveFiles == \A k \in Sites : LoopHasFile(k)

IdsAreFresh == \A s \in Sprints : s > made => sprint[s] = NoSprint

Base == TypeOK /\ PollHoldsOne /\ LoopsHaveFiles /\ IdsAreFresh

-----------------------------------------------------------------------------
(* What holds as long as nothing was crossed *)

\* Whatever is held while a sprint is live is held for that sprint.
Alone(t) ==
    /\ sched.active = t
    /\ poll.at \notin {"asking", "selecting", "sourcing"}
    /\ poll.at = "resuming" => poll.seen.active = t
    /\ ready.at # "asking"
    /\ waiting \subseteq {t}
    /\ \A k \in Sites : loop[k].sprint \in {0, t}
LiveIsAlone == \A t \in Sprints : Live(t) => Alone(t)

Linked(g) == {s \in Sprints : sprint[s].goal = g}
GoalIsKept(g) ==
    /\ goal[g].linked \subseteq Linked(g) /\ Linked(g) \subseteq goal[g].linked \cup torn
    /\ \A s \in Linked(g) \ torn : sprint[s].status \in Ended => s \in goal[g].outcomes
    /\ goal[g].status = "absent" => goal[g] = NoGoal /\ Linked(g) = {}
GoalsAreKept == \A g \in Goals : GoalIsKept(g)

\* The sourcer's copy of the goal is still the goal.
SourcingIsCurrent ==
    poll.at = "sourcing" => goal[poll.goal] = poll.copy /\ poll.copy.status = "active"

Uncrossing == LiveIsAlone /\ GoalsAreKept /\ SourcingIsCurrent

IInv == Base /\ (~crossed => Uncrossing)

-----------------------------------------------------------------------------
(* Types and files *)

\* There is a least element in a set of natural numbers.
LEMMA LeastOf ==
    ASSUME NEW S \in SUBSET Nat, S # {}
    PROVE  \E m \in S : \A k \in S : m <= k
<1> DEFINE Less == {p \in Nat \X Nat : p[1] < p[2]}
<1>1. OpToRel(<, Nat) = Less
  BY DEF OpToRel
<1>2. IsWellFoundedOn(Less, Nat)
  BY <1>1, NatLessThanWellFounded
<1>3. PICK m \in S : \A k \in S : ~ (<<k, m>> \in Less)
  <2> HIDE DEF Less
  <2> QED BY <1>2, WFMin
<1>4. ASSUME NEW k \in S PROVE m <= k
  <2>1. ~ (k < m)
    BY <1>3
  <2> QED BY <2>1
<1> QED BY <1>3, <1>4

\* What the scheduler's state is saved as.
LEMMA SavedScheds ==
    ASSUME NEW state \in Scheds, NEW s \in 0..MaxSprints, NEW clear \in BOOLEAN,
           PollHoldsOne, BoundsAssumption
    PROVE  /\ Finished(state, s, clear) \in Scheds
           /\ Finished(state, s, clear).active = IF clear THEN 0 ELSE s
           /\ Deferred(state) \in Scheds /\ Deferred(state).active = state.active
           /\ NoSched \in Scheds /\ Idle \in Polls
<1>1. NoSched \in Scheds /\ NoGoal \in GoalFiles
  BY DEF NoSched, Scheds, NoGoal, GoalFiles, BoundsAssumption
<1>2. Idle \in Polls
  BY <1>1 DEF Idle, Polls, BoundsAssumption
<1>3. /\ Finished(state, s, clear) \in Scheds
      /\ Finished(state, s, clear).active = IF clear THEN 0 ELSE s
  BY DEF Finished, Scheds, BoundsAssumption
<1>4. Deferred(state) \in Scheds /\ Deferred(state).active = state.active
  BY DEF Deferred, Scheds
<1> QED BY <1>1, <1>2, <1>3, <1>4

\* What the types say, field by field.
LEMMA Typed ==
    ASSUME Base, BoundsAssumption
    PROVE  /\ mode \in Modes /\ sched \in Scheds /\ made \in 0..MaxSprints
           /\ sprint \in [Sprints -> SprintFiles] /\ goal \in [Goals -> GoalFiles]
           /\ current \in 0..MaxGoals /\ poll \in Polls
           /\ ready \in [at : {"idle", "starting", "asking"}, seen : Scheds]
           /\ waiting \subseteq Sprints /\ loop \in [Sites -> Loops] /\ crossed \in BOOLEAN
           /\ torn \subseteq Sprints
           /\ commands \in 0..MaxEvents /\ faults \in 0..MaxEvents
           /\ {MaxSprints, MaxGoals, MaxEvents} \subseteq Nat
BY DEF Base, TypeOK, PollHoldsOne, Loops, BoundsAssumption

\* The same, the other way round, of the state after a step.
LEMMA TypedBase ==
    ASSUME mode' \in Modes, sched' \in Scheds, made' \in 0..MaxSprints,
           sprint' \in [Sprints -> SprintFiles], goal' \in [Goals -> GoalFiles],
           current' \in 0..MaxGoals, PollHoldsOne',
           ready' \in [at : {"idle", "starting", "asking"}, seen : Scheds],
           waiting' \subseteq Sprints, loop' \in [Sites -> Loops], crossed' \in BOOLEAN,
           torn' \subseteq Sprints,
           commands' \in 0..MaxEvents, faults' \in 0..MaxEvents,
           LoopsHaveFiles', IdsAreFresh'
    PROVE  Base'
BY DEF Base, TypeOK, PollHoldsOne, Polls, Loops

\* A new sprint takes the next id, which no file has.
LEMMA StartedFiles ==
    ASSUME Base, BoundsAssumption, made + 1 \in Sprints,
           NEW kind \in {"auto", "manual", "goal"}, NEW g \in 0..MaxGoals,
           made' = made + 1,
           sprint' = [sprint EXCEPT ![made + 1] = [status |-> "live", kind |-> kind, goal |-> g]]
    PROVE  /\ made' \in 0..MaxSprints /\ sprint' \in [Sprints -> SprintFiles] /\ IdsAreFresh'
           /\ sprint[made + 1] = NoSprint
           /\ sprint'[made + 1] = [status |-> "live", kind |-> kind, goal |-> g]
           /\ \A s \in Sprints : s # made + 1 => sprint'[s] = sprint[s]
<1>1. made \in 0..MaxSprints /\ sprint \in [Sprints -> SprintFiles] /\ MaxSprints \in Nat
  BY Typed
<1>2. [status |-> "live", kind |-> kind, goal |-> g] \in SprintFiles
  BY DEF SprintFiles
<1>3. \A s \in Sprints : s > made => sprint[s] = NoSprint
  BY DEF Base, IdsAreFresh
<1>4. made' \in 0..MaxSprints
  BY <1>1 DEF Sprints
<1>5. sprint' \in [Sprints -> SprintFiles]
  BY <1>1, <1>2
<1>6. /\ sprint'[made + 1] = [status |-> "live", kind |-> kind, goal |-> g]
      /\ \A s \in Sprints : s # made + 1 => sprint'[s] = sprint[s]
  BY <1>1
<1>7. IdsAreFresh'
  BY <1>1, <1>3, <1>6 DEF IdsAreFresh, Sprints
<1> QED BY <1>1, <1>3, <1>4, <1>5, <1>6, <1>7

\* A loop begins at its site only.
LEMMA LoopBegun ==
    ASSUME Base, BoundsAssumption, NEW site \in Sites, NEW s \in Sprints,
           NEW by \in {"task", "poll", "auto", "cli"}, LoopBegins(site, s, by)
    PROVE  /\ loop' \in [Sites -> Loops]
           /\ loop'[site].sprint = s
           /\ \A k \in Sites : k # site => loop'[k] = loop[k]
<1>1. loop \in [Sites -> Loops] /\ MaxSprints \in Nat
  BY Typed
<1>2. [at |-> "working", sprint |-> s, by |-> by] \in Loops
  BY <1>1 DEF Loops, Sprints
<1> QED BY <1>1, <1>2 DEF LoopBegins

\* A sprint that can be worked on is, at one site; the state is saved otherwise.
LEMMA ResumeShape ==
    ASSUME Base, BoundsAssumption, NEW site \in Sites, NEW s \in Sprints,
           NEW by \in {"task", "poll", "cli"}, ResumeAt(site, s, by)
    PROVE  /\ sched' \in Scheds /\ loop' \in [Sites -> Loops]
           /\ Workable(s) => sched' = sched /\ loop'[site].sprint = s
           /\ ~Workable(s) => loop' = loop
           /\ \A k \in Sites : k # site => loop'[k] = loop[k]
<1>1. sched \in Scheds /\ loop \in [Sites -> Loops] /\ MaxSprints \in Nat /\ PollHoldsOne
  BY Typed DEF Base
<1>2. CASE Workable(s)
  BY <1>1, <1>2, LoopBegun DEF ResumeAt
<1>3. CASE ~Workable(s)
  <2>1. s \in 0..MaxSprints /\ 0 \in 0..MaxSprints
    BY <1>1 DEF Sprints
  <2>2. sched' = Finished(sched, s, sprint[s].status = "completed") /\ loop' = loop
    BY <1>3 DEF ResumeAt
  <2>3. sched' = [sched EXCEPT !.active = IF sprint[s].status = "completed" THEN 0 ELSE s]
    BY <2>2 DEF Finished
  <2> QED BY <1>1, <1>3, <2>1, <2>2, <2>3 DEF Scheds
<1> QED BY <1>2, <1>3

\* Loops keep their files when no file is lost.
LEMMA FilesStay ==
    ASSUME Base,
           \A s \in Sprints : sprint[s].status # "absent" => sprint'[s].status # "absent",
           \A k \in Sites :
             \/ loop'[k] = loop[k] \/ loop'[k] = NoLoop
             \/ loop'[k].sprint \in Sprints /\ sprint'[loop'[k].sprint].status # "absent"
    PROVE  LoopsHaveFiles'
BY DEF Base, LoopsHaveFiles, LoopHasFile

\* A poll that ends, or goes on to select, holds nothing that has to exist.
LEMMA PollGoesOn ==
    ASSUME BoundsAssumption, NEW state \in Scheds, NEW due \in BOOLEAN,
           poll' \in {Idle, GoesOn(state, due)}
    PROVE  PollHoldsOne' /\ poll'.at \in {"idle", "selecting"}
           /\ (poll'.at = "selecting" => poll'.seen = state)
<1>1. NoSched \in Scheds /\ NoGoal \in GoalFiles
  BY DEF NoSched, Scheds, NoGoal, GoalFiles, BoundsAssumption
<1>2. Idle \in Polls /\ Idle.at = "idle"
  BY <1>1 DEF Idle, Polls, BoundsAssumption
<1>3. GoesOn(state, due) = Idle
      \/ GoesOn(state, due) = [Idle EXCEPT !.at = "selecting", !.seen = state, !.due = due]
  BY DEF GoesOn
<1>4. poll' = Idle
      \/ poll' = [Idle EXCEPT !.at = "selecting", !.seen = state, !.due = due]
  BY <1>3
<1>5. CASE poll' = Idle
  BY <1>2, <1>5 DEF PollHoldsOne
<1>6. CASE poll' = [Idle EXCEPT !.at = "selecting", !.seen = state, !.due = due]
  BY <1>2, <1>6 DEF PollHoldsOne, Polls
<1> QED BY <1>4, <1>5, <1>6

-----------------------------------------------------------------------------
(* Every step keeps them *)

\* A waiting task, and the poll, resume the sprint.
LEMMA ResumesBase ==
    ASSUME Base, BoundsAssumption, PollResumes \/ \E s \in Sprints : TaskResumes(s)
    PROVE  Base'
<1>1. CASE PollResumes
  <2> DEFINE s == poll.seen.active
  <2>1. /\ s \in Sprints /\ sched \in Scheds /\ loop \in [Sites -> Loops] /\ PollHoldsOne
        /\ "service" \in Sites /\ MaxSprints \in Nat /\ poll \in Polls
        /\ (sprint[s].status = "completed") \in BOOLEAN /\ s \in 0..MaxSprints
    BY <1>1, Typed DEF Base, PollHoldsOne, PollResumes, Polling, Sites, Sprints
  <2> HIDE DEF s
  <2>2. UNCHANGED <<mode, made, sprint, goal, current, ready, waiting, crossed, torn, commands, faults>>
    BY <1>1 DEF PollResumes
  <2>3. CASE Workable(s)
    <3>1. ResumeAt("service", s, "poll") /\ poll' = [poll EXCEPT !.at = "resumed"]
      BY <1>1, <2>3 DEF PollResumes, GoPoll, s
    <3>2. PollHoldsOne'
      BY <2>1, <3>1 DEF PollHoldsOne, Polls
    <3>3. sched' \in Scheds /\ loop' \in [Sites -> Loops] /\ LoopsHaveFiles'
      BY <2>1, <2>2, <2>3, <3>1, ResumeShape, FilesStay DEF Workable
    <3> QED BY <2>2, <3>2, <3>3, Typed, TypedBase DEF Base, IdsAreFresh
  <2>4. CASE ~Workable(s)
    <3>1. /\ sched' = Deferred(Finished(sched, s, sprint[s].status = "completed"))
          /\ poll' = Idle /\ loop' = loop
      BY <1>1, <2>4 DEF PollResumes, PollEnds, s
    <3>2. sched' \in Scheds /\ Idle \in Polls
      BY <2>1, <3>1, SavedScheds
    <3>3. PollHoldsOne'
      BY <3>1, <3>2 DEF PollHoldsOne, Idle
    <3>4. LoopsHaveFiles' /\ IdsAreFresh'
      BY <2>2, <3>1 DEF Base, LoopsHaveFiles, LoopHasFile, IdsAreFresh
    <3> QED BY <2>2, <3>1, <3>2, <3>3, <3>4, Typed, TypedBase
  <2> QED BY <2>3, <2>4
<1>2. ASSUME NEW s \in Sprints, TaskResumes(s) PROVE Base'
  <2>1. /\ ResumeAt("service", s, "task") /\ "service" \in Sites /\ waiting' \subseteq waiting
        /\ UNCHANGED <<mode, made, sprint, goal, current, poll, ready, crossed, torn, commands, faults>>
    BY <1>2 DEF TaskResumes, Sites
  <2>2. sched' \in Scheds /\ loop' \in [Sites -> Loops] /\ LoopsHaveFiles'
    BY <2>1, ResumeShape, FilesStay DEF Workable
  <2>3. PollHoldsOne' /\ IdsAreFresh'
    BY <2>1 DEF Base, PollHoldsOne, IdsAreFresh
  <2> QED BY <2>1, <2>2, <2>3, Typed, TypedBase
<1> QED BY <1>1, <1>2

\* The returns and ends of a sprint's loop.
LEMMA LoopStepBase ==
    ASSUME Base, BoundsAssumption, NEW site \in Sites, LoopStep(site)
    PROVE  Base'
<1> DEFINE s == loop[site].sprint
<1>1. /\ sched \in Scheds /\ loop \in [Sites -> Loops] /\ PollHoldsOne /\ MaxSprints \in Nat
      /\ poll \in Polls /\ sprint \in [Sprints -> SprintFiles] /\ goal \in [Goals -> GoalFiles]
  BY Typed DEF Base
<1>2. /\ UNCHANGED <<mode, made, current, ready, waiting, commands, faults>>
      /\ torn' \subseteq torn /\ torn \subseteq Sprints /\ crossed' \in BOOLEAN
  BY Typed DEF LoopStep, LoopReturns, LoopEnds, LoopReported, OutcomeRecorded
<1>3. s \in Sprints /\ s \in 0..MaxSprints /\ sprint[s].status # "absent"
  <2>1. loop[site].at \in {"working", "reporting"}
    BY DEF LoopStep, LoopReturns, LoopEnds, LoopReported
  <2>2. loop[site] # NoLoop
    BY <2>1 DEF NoLoop
  <2> QED BY <1>1, <2>2 DEF Base, LoopsHaveFiles, LoopHasFile, Sprints
<1>4. ASSUME NEW state \in Scheds, LoopIsOver(site, state), UNCHANGED <<sprint, goal>>
      PROVE  Base'
  <2>1. NoLoop \in Loops
    BY <1>1 DEF NoLoop, Loops
  <2>2. loop' \in [Sites -> Loops] /\ \A k \in Sites : loop'[k] = loop[k] \/ loop'[k] = NoLoop
    BY <1>1, <1>4, <2>1 DEF LoopIsOver
  <2>3. LoopsHaveFiles'
    BY <1>4, <2>2, FilesStay
  <2>4. sched' \in Scheds /\ Idle \in Polls
    BY <1>1, <1>3, <1>4, SavedScheds DEF LoopIsOver
  <2>5. poll' = poll \/ poll' = Idle
    BY <1>4 DEF LoopIsOver
  <2>6. PollHoldsOne'
    <3>1. CASE poll' = poll
      BY <1>1, <3>1 DEF PollHoldsOne
    <3>2. CASE poll' = Idle
      <4>1. Idle.at = "idle"
        BY DEF Idle
      <4> QED BY <2>4, <3>2, <4>1 DEF PollHoldsOne
    <3> QED BY <2>5, <3>1, <3>2
  <2>7. IdsAreFresh'
    BY <1>2, <1>4 DEF Base, IdsAreFresh
  <2> QED BY <1>1, <1>2, <1>4, <2>2, <2>3, <2>4, <2>6, <2>7, Typed, TypedBase
<1>5. CASE LoopReturns(site)
  BY <1>1, <1>4, <1>5 DEF LoopReturns
<1>6. CASE LoopReported(site)
  <2>1. ClearsActive(s) \in BOOLEAN
    BY DEF ClearsActive
  <2>2. Finished(sched, s, ClearsActive(s)) \in Scheds
    BY <1>1, <1>3, <2>1, SavedScheds
  <2> QED BY <1>4, <1>6, <2>2 DEF LoopReported
<1>7. ASSUME NEW status \in Ended, LoopEnds(site, status) PROVE Base'
  <2>1. /\ sprint' = [sprint EXCEPT ![s].status = status]
        /\ loop' = [loop EXCEPT ![site].at = "reporting"]
        /\ OutcomeRecorded(s) /\ UNCHANGED <<sched, poll>>
    BY <1>7 DEF LoopEnds
  <2> HIDE DEF s
  <2>2. sprint' \in [Sprints -> SprintFiles] /\ sprint'[s].status = status /\ status # "absent"
        /\ \A u \in Sprints : u # s => sprint'[u] = sprint[u]
    BY <1>1, <1>3, <2>1 DEF SprintFiles, Ended
  <2>3. goal' \in [Goals -> GoalFiles]
    <3>1. sprint[s].goal \in 0..MaxGoals
      BY <1>1, <1>3 DEF SprintFiles
    <3> QED BY <1>1, <1>3, <2>1, <3>1 DEF OutcomeRecorded, GoalFiles, Goals
  <2>4. loop' \in [Sites -> Loops] /\ loop'[site].sprint = s
        /\ \A k \in Sites : k # site => loop'[k] = loop[k]
    BY <1>1, <2>1 DEF Loops, s
  <2>5. LoopsHaveFiles'
    <3>1. \A u \in Sprints : sprint[u].status # "absent" => sprint'[u].status # "absent"
      BY <2>2
    <3> QED BY <1>3, <2>2, <2>4, <3>1, FilesStay
  <2>6. IdsAreFresh'
    <3>1. ASSUME NEW u \in Sprints, u > made PROVE sprint'[u] = NoSprint
      <4>1. sprint[u] = NoSprint
        BY <3>1 DEF Base, IdsAreFresh
      <4>2. u # s
        BY <1>3, <4>1 DEF NoSprint
      <4> QED BY <2>2, <4>1, <4>2
    <3> QED BY <1>2, <3>1 DEF IdsAreFresh
  <2>7. PollHoldsOne'
    BY <1>1, <2>1 DEF PollHoldsOne
  <2> QED BY <1>1, <1>2, <2>1, <2>2, <2>3, <2>4, <2>5, <2>6, <2>7, Typed, TypedBase
<1> QED BY <1>5, <1>6, <1>7 DEF LoopStep

\* What the loaded pointer is, and whose goal is sourced for.
LEMMA CurrentGoals ==
    ASSUME Base, BoundsAssumption
    PROVE  /\ CurrentGoal \in 0..MaxGoals /\ ActiveGoal \in 0..MaxGoals
           /\ CurrentGoal # 0 =>
                CurrentGoal \in Goals /\ goal[CurrentGoal].status \in {"active", "paused"}
           /\ ActiveGoal # 0 => ActiveGoal \in Goals /\ goal[ActiveGoal].status = "active"
<1>1. current \in 0..MaxGoals /\ MaxGoals \in Nat
  BY Typed
<1> QED BY <1>1 DEF CurrentGoal, ActiveGoal, Resumable, Goals

\* The poll begins.
LEMMA PollBeginsBase ==
    ASSUME Base, BoundsAssumption, NEW due \in BOOLEAN, PollBegins(due)
    PROVE  Base'
<1>1. /\ sched \in Scheds /\ goal \in [Goals -> GoalFiles] /\ current \in 0..MaxGoals
      /\ MaxSprints \in Nat /\ MaxGoals \in Nat
  BY Typed
<1>2. UNCHANGED <<mode, sched, made, sprint, goal, ready, waiting, loop, crossed, torn, commands, faults>>
  BY DEF PollBegins
<1>3. Idle \in Polls /\ NoSched \in Scheds /\ Idle.seen = NoSched
  <2>1. NoSched \in Scheds /\ NoGoal \in GoalFiles
    BY <1>1 DEF NoSched, Scheds, NoGoal, GoalFiles
  <2> QED BY <1>1, <2>1 DEF Idle, Polls
<1>4. current' \in 0..MaxGoals
  BY <1>1, CurrentGoals DEF PollBegins, PointerLoaded
<1>5. PollHoldsOne'
  <2>1. CASE sched.active # 0
    <3> DEFINE d == due /\ ~sched.deferred
    <3>1. poll' = [Idle EXCEPT !.at = "resuming", !.seen.active = sched.active, !.due = d]
      BY <2>1 DEF PollBegins
    <3>2. d \in BOOLEAN /\ sched.active \in Sprints
      BY <1>1, <2>1 DEF Scheds, Sprints
    <3> HIDE DEF d
    <3>3. [NoSched EXCEPT !.active = sched.active] \in Scheds
      BY <1>1, <1>3 DEF Scheds
    <3>4. poll' \in Polls /\ poll'.at = "resuming" /\ poll'.seen.active = sched.active
      BY <1>3, <3>1, <3>2, <3>3 DEF Polls, NoSched
    <3> QED BY <3>2, <3>4 DEF PollHoldsOne
  <2>2. CASE sched.active = 0 /\ ActiveGoal # 0
    <3>1. poll' = [Idle EXCEPT !.at = "sourcing", !.goal = ActiveGoal, !.copy = goal[ActiveGoal]]
      BY <2>2 DEF PollBegins
    <3>2. ActiveGoal \in Goals /\ ActiveGoal \in 0..MaxGoals /\ goal[ActiveGoal] \in GoalFiles
      BY <1>1, <2>2, CurrentGoals
    <3> QED BY <1>3, <3>1, <3>2 DEF PollHoldsOne, Polls
  <2>3. CASE sched.active = 0 /\ ActiveGoal = 0 /\ sched.asked
    BY <1>1, <2>3, PollGoesOn DEF PollBegins
  <2>4. CASE sched.active = 0 /\ ActiveGoal = 0 /\ ~sched.asked
    <3>1. poll' = [Idle EXCEPT !.at = "asking", !.seen = sched, !.due = due]
      BY <2>4 DEF PollBegins
    <3> QED BY <1>1, <1>3, <3>1 DEF PollHoldsOne, Polls
  <2> QED BY <2>1, <2>2, <2>3, <2>4
<1>6. LoopsHaveFiles' /\ IdsAreFresh'
  BY <1>2 DEF Base, LoopsHaveFiles, LoopHasFile, IdsAreFresh
<1> QED BY <1>2, <1>4, <1>5, <1>6, Typed, TypedBase

\* The poll asks, and selects nothing.
LEMMA PollGoesOnBase ==
    ASSUME Base, BoundsAssumption, NothingSelected \/ \E sent \in BOOLEAN : Asked(sent)
    PROVE  Base'
<1>1. sched \in Scheds /\ poll \in Polls /\ poll.seen \in Scheds /\ poll.due \in BOOLEAN
  BY Typed DEF Polls
<1>2. UNCHANGED <<mode, made, sprint, goal, current, ready, waiting, loop, crossed, torn, commands, faults>>
  BY DEF NothingSelected, Asked
<1>3. sched' \in {sched, poll.seen, [poll.seen EXCEPT !.deferred = FALSE],
                  [poll.seen EXCEPT !.asked = TRUE]}
  BY DEF NothingSelected, Asked
<1>4. sched' \in Scheds
  BY <1>1, <1>3 DEF Scheds
<1>5. poll' \in {Idle, GoesOn(sched', poll.due)}
  BY DEF NothingSelected, Asked, PollEnds
<1>6. PollHoldsOne'
  BY <1>1, <1>4, <1>5, PollGoesOn
<1>7. LoopsHaveFiles' /\ IdsAreFresh'
  BY <1>2 DEF Base, LoopsHaveFiles, LoopHasFile, IdsAreFresh
<1> QED BY <1>2, <1>4, <1>6, <1>7, Typed, TypedBase

\* The poll starts a sprint of its own.
LEMMA RunAutonomousBase ==
    ASSUME Base, BoundsAssumption, NEW backlogReady \in BOOLEAN, RunAutonomous(backlogReady)
    PROVE  Base'
<1> DEFINE s == made + 1
<1>1. /\ s \in Sprints /\ s \in 0..MaxSprints /\ made' = s /\ MaxSprints \in Nat
      /\ MaxGoals \in Nat /\ 0 \in 0..MaxGoals
      /\ sched' = [active |-> s, deferred |-> FALSE, asked |-> FALSE]
      /\ sprint' = [sprint EXCEPT ![s] = [status |-> "live", kind |-> "auto", goal |-> 0]]
      /\ LoopBegins("auto", s, "auto") /\ "auto" \in Sites
      /\ poll' = [Idle EXCEPT !.at = "auto"]
      /\ crossed' = (crossed \/ HeldElsewhere)
      /\ UNCHANGED <<mode, goal, current, ready, waiting, torn, commands, faults>>
  BY Typed DEF RunAutonomous, Sites, Sprints
<1>2. /\ made' \in 0..MaxSprints /\ sprint' \in [Sprints -> SprintFiles] /\ IdsAreFresh'
      /\ sprint'[s].status = "live" /\ \A u \in Sprints : u # s => sprint'[u] = sprint[u]
  BY <1>1, StartedFiles
<1> HIDE DEF s
<1>3. sched' \in Scheds
  BY <1>1 DEF Scheds
<1>4. loop' \in [Sites -> Loops] /\ LoopsHaveFiles'
  <2>1. /\ loop' \in [Sites -> Loops] /\ loop'["auto"].sprint = s
        /\ \A k \in Sites : k # "auto" => loop'[k] = loop[k]
    BY <1>1, LoopBegun
  <2>2. \A u \in Sprints : sprint[u].status # "absent" => sprint'[u].status # "absent"
    BY <1>2
  <2> QED BY <1>1, <1>2, <2>1, <2>2, FilesStay
<1>5. PollHoldsOne'
  <2>1. Idle \in Polls
    BY <1>1 DEF Idle, Polls, NoSched, Scheds, NoGoal, GoalFiles
  <2> QED BY <1>1, <2>1 DEF PollHoldsOne, Polls
<1>6. crossed' \in BOOLEAN
  BY <1>1 DEF HeldElsewhere
<1> QED BY <1>1, <1>2, <1>3, <1>4, <1>5, <1>6, Typed, TypedBase

\* A start by a command, or by the sourcer.
LEMMA StartedSprint ==
    ASSUME Base, BoundsAssumption, NEW kind \in {"manual", "goal"}, NEW g \in 0..MaxGoals,
           Started(kind, g)
    PROVE  /\ made + 1 \in Sprints /\ made' = made + 1
           /\ made' \in 0..MaxSprints /\ sprint' \in [Sprints -> SprintFiles] /\ IdsAreFresh'
           /\ sprint[made + 1] = NoSprint
           /\ sprint'[made + 1] = [status |-> "live", kind |-> kind, goal |-> g]
           /\ \A s \in Sprints : s # made + 1 => sprint'[s] = sprint[s]
           /\ \A s \in Sprints : sprint[s].status # "absent" => sprint'[s].status # "absent"
           /\ sched' \in Scheds /\ sched'.active = made + 1
<1>1. made \in 0..MaxSprints /\ sched \in Scheds /\ MaxSprints \in Nat
  BY Typed
<1>2. made + 1 \in Sprints /\ made + 1 \in 0..MaxSprints
  BY <1>1 DEF Started, Sprints
<1>3. sched' \in Scheds /\ sched'.active = made + 1
  BY <1>1, <1>2 DEF Started, Scheds
<1>4. /\ made' \in 0..MaxSprints /\ sprint' \in [Sprints -> SprintFiles] /\ IdsAreFresh'
      /\ sprint[made + 1] = NoSprint
      /\ sprint'[made + 1] = [status |-> "live", kind |-> kind, goal |-> g]
      /\ \A s \in Sprints : s # made + 1 => sprint'[s] = sprint[s]
  BY <1>2, StartedFiles DEF Started
<1> QED BY <1>2, <1>3, <1>4 DEF Started

\* The sourcer's answer.
LEMMA SourcingBase ==
    ASSUME Base, BoundsAssumption, SourcingReturns
    PROVE  Base'
<1>1. /\ poll.goal \in Goals /\ poll.copy \in GoalFiles /\ goal \in [Goals -> GoalFiles]
      /\ poll.goal \in 0..MaxGoals /\ current \in 0..MaxGoals /\ sched \in Scheds
      /\ waiting \subseteq Sprints /\ MaxGoals \in Nat /\ MaxSprints \in Nat /\ 0 \in 0..MaxGoals
  BY Typed DEF Base, PollHoldsOne, SourcingReturns, Polling, Polls
<1>2. poll' = Idle /\ UNCHANGED <<mode, ready, loop, torn, commands, faults>>
  BY DEF SourcingReturns, PollEnds
<1>3. PollHoldsOne'
  <2>1. Idle \in Polls /\ Idle.at = "idle"
    BY <1>1 DEF Idle, Polls, NoSched, Scheds, NoGoal, GoalFiles
  <2> QED BY <1>2, <2>1 DEF PollHoldsOne
<1>4. PICK verdict \in Verdicts :
         GoalEnds(verdict) \/ MilestoneStarts(verdict) \/ NothingSourced(verdict)
  BY DEF SourcingReturns
<1>5. CASE GoalEnds(verdict)
  <2>1. goal' \in [Goals -> GoalFiles]
    BY <1>1, <1>5 DEF GoalEnds, GoalSaved, GoalFiles, TerminalGoal
  <2>2. current' \in 0..MaxGoals
    BY <1>1, <1>5 DEF GoalEnds, PointerCleared
  <2>3. UNCHANGED <<made, sched, sprint, waiting, crossed>>
    BY <1>5 DEF GoalEnds
  <2>4. LoopsHaveFiles' /\ IdsAreFresh'
    BY <1>2, <2>3 DEF Base, LoopsHaveFiles, LoopHasFile, IdsAreFresh
  <2> QED BY <1>2, <1>3, <2>1, <2>2, <2>3, <2>4, Typed, TypedBase
<1>6. CASE NothingSourced(verdict)
  <2>1. goal' \in [Goals -> GoalFiles]
    BY <1>1, <1>6 DEF NothingSourced, GoalSaved
  <2>2. UNCHANGED <<made, sched, sprint, waiting, current, crossed>>
    BY <1>6 DEF NothingSourced
  <2>3. LoopsHaveFiles' /\ IdsAreFresh'
    BY <1>2, <2>2 DEF Base, LoopsHaveFiles, LoopHasFile, IdsAreFresh
  <2> QED BY <1>2, <1>3, <2>1, <2>2, <2>3, Typed, TypedBase
<1>7. CASE MilestoneStarts(verdict)
  <2>1. /\ made' \in 0..MaxSprints /\ sprint' \in [Sprints -> SprintFiles] /\ IdsAreFresh'
        /\ \A s \in Sprints : sprint[s].status # "absent" => sprint'[s].status # "absent"
        /\ sched' \in Scheds /\ sched'.active \in Sprints /\ waiting' \subseteq Sprints
    <3>1. CASE ActiveFile
      <4>1. UNCHANGED <<made, sched, sprint, waiting>>
        BY <1>7, <3>1 DEF MilestoneStarts
      <4>2. sched.active \in Sprints
        BY <1>1, <3>1 DEF ActiveFile, Scheds, Sprints
      <4> QED BY <1>1, <4>1, <4>2, Typed DEF Base, IdsAreFresh
    <3>2. CASE ~ActiveFile
      <4>1. Started("goal", poll.goal) /\ waiting' = waiting \cup {made + 1}
        BY <1>7, <3>2 DEF MilestoneStarts
      <4> QED BY <1>1, <4>1, StartedSprint
    <3> QED BY <3>1, <3>2
  <2>2. goal' = [goal EXCEPT ![poll.goal] = [poll.copy EXCEPT !.linked = @ \cup {sched'.active}]]
    BY <1>7 DEF MilestoneStarts, GoalSaved
  <2>3. [poll.copy EXCEPT !.linked = @ \cup {sched'.active}] \in GoalFiles
    BY <1>1, <2>1 DEF GoalFiles
  <2>4. goal' \in [Goals -> GoalFiles]
    BY <1>1, <2>2, <2>3
  <2>5. crossed' \in BOOLEAN /\ current' = current
    BY <1>7 DEF MilestoneStarts
  <2>6. LoopsHaveFiles'
    BY <1>2, <2>1, FilesStay
  <2> QED BY <1>2, <1>3, <2>1, <2>4, <2>5, <2>6, Typed, TypedBase
<1> QED BY <1>4, <1>5, <1>6, <1>7

\* The start of the process, its reconnections and its ends.
LEMMA ProcessBase ==
    ASSUME Base, BoundsAssumption, ReadyStep \/ Reconnects \/ Crash \/ CrashInStart
    PROVE  Base'
<1>1. /\ sched \in Scheds /\ ready.seen \in Scheds /\ waiting \subseteq Sprints
      /\ ready \in [at : {"idle", "starting", "asking"}, seen : Scheds] /\ PollHoldsOne
      /\ loop \in [Sites -> Loops] /\ faults \in 0..MaxEvents /\ commands \in 0..MaxEvents
      /\ {MaxSprints, MaxGoals, MaxEvents} \subseteq Nat /\ made \in 0..MaxSprints
  BY Typed DEF Base
<1>2. NoSched \in Scheds
  BY <1>1 DEF NoSched, Scheds
<1>3. CASE ReadyStep
  <2>1. UNCHANGED <<mode, made, sprint, goal, current, poll, loop, crossed, torn, commands, faults>>
    BY <1>3 DEF ReadyStep, OnReady, ReadyAsked
  <2>2. sched' \in {sched, [ready.seen EXCEPT !.asked = TRUE]}
    BY <1>3 DEF ReadyStep, OnReady, ReadyAsked
  <2>3. sched' \in Scheds
    BY <1>1, <2>2 DEF Scheds
  <2>4. ready' \in {[at |-> "idle", seen |-> NoSched], [at |-> "asking", seen |-> sched]}
    BY <1>3 DEF ReadyStep, OnReady, ReadyAsked
  <2>5. waiting' \subseteq Sprints
    <3>1. sched.active # 0 => sched.active \in Sprints
      BY <1>1 DEF Scheds, Sprints
    <3> QED BY <1>1, <1>3, <3>1 DEF ReadyStep, OnReady, ReadyAsked
  <2>6. LoopsHaveFiles' /\ IdsAreFresh' /\ PollHoldsOne'
    BY <2>1 DEF Base, LoopsHaveFiles, LoopHasFile, IdsAreFresh, PollHoldsOne
  <2> QED BY <1>1, <1>2, <2>1, <2>3, <2>4, <2>5, <2>6, Typed, TypedBase
<1>4. CASE Reconnects
  <2>1. UNCHANGED <<mode, sched, made, sprint, goal, current, poll, waiting, loop, crossed, torn, commands>>
        /\ faults' = faults + 1 /\ commands + faults < MaxEvents
        /\ ready' = [ready EXCEPT !.at = "starting"]
    BY <1>4 DEF Reconnects
  <2>2. faults' \in 0..MaxEvents
        /\ ready' \in [at : {"idle", "starting", "asking"}, seen : Scheds]
    BY <1>1, <2>1
  <2>3. LoopsHaveFiles' /\ IdsAreFresh' /\ PollHoldsOne'
    BY <2>1 DEF Base, LoopsHaveFiles, LoopHasFile, IdsAreFresh, PollHoldsOne
  <2> QED BY <2>1, <2>2, <2>3, Typed, TypedBase
<1>5. CASE Crash \/ CrashInStart
  <2>1. /\ UNCHANGED <<mode, sprint, goal, current, crossed, torn, commands>>
        /\ commands + faults < MaxEvents /\ faults' = faults + 1 /\ poll' = Idle
        /\ ready' = [at |-> "starting", seen |-> NoSched] /\ waiting' = {}
        /\ loop' = [loop EXCEPT !["service"] = NoLoop, !["auto"] = NoLoop]
    BY <1>5 DEF Crash, CrashInStart, ProcessRestarted
  <2>2. \/ UNCHANGED <<sched, made>>
        \/ /\ made < MaxSprints /\ made' = made + 1
           /\ sched' = [sched EXCEPT !.active = made + 1, !.asked = FALSE]
    BY <1>5 DEF Crash, CrashInStart
  <2>3. made' \in 0..MaxSprints /\ made <= made' /\ sched' \in Scheds
    <3>1. made < MaxSprints => made + 1 \in 0..MaxSprints
      BY <1>1
    <3>2. made' \in 0..MaxSprints /\ made <= made'
      BY <1>1, <2>2, <3>1
    <3>3. sched' \in Scheds
      BY <1>1, <2>2, <3>1 DEF Scheds
    <3> QED BY <3>2, <3>3
  <2>4. NoLoop \in Loops
    BY <1>1 DEF NoLoop, Loops
  <2>5. loop' \in [Sites -> Loops] /\ \A k \in Sites : loop'[k] = loop[k] \/ loop'[k] = NoLoop
    BY <1>1, <2>1, <2>4
  <2>6. LoopsHaveFiles'
    BY <2>1, <2>5, FilesStay
  <2>7. IdsAreFresh'
    BY <1>1, <2>1, <2>3 DEF Base, IdsAreFresh, Sprints
  <2>8. PollHoldsOne'
    <3>1. Idle \in Polls /\ Idle.at = "idle"
      BY <1>1, <1>2 DEF Idle, Polls, NoGoal, GoalFiles
    <3> QED BY <2>1, <3>1 DEF PollHoldsOne
  <2>9. ready' \in [at : {"idle", "starting", "asking"}, seen : Scheds] /\ faults' \in 0..MaxEvents
        /\ waiting' \subseteq Sprints
    BY <1>1, <1>2, <2>1
  <2> QED BY <2>1, <2>3, <2>5, <2>6, <2>7, <2>8, <2>9, Typed, TypedBase
<1> QED BY <1>3, <1>4, <1>5

\* What the process held is gone when it starts again.
LEMMA RestartedHolds ==
    ASSUME Base, BoundsAssumption, ProcessRestarted
    PROVE  /\ PollHoldsOne' /\ poll'.at = "idle" /\ ready'.at = "starting" /\ waiting' = {}
           /\ ready' \in [at : {"idle", "starting", "asking"}, seen : Scheds]
           /\ waiting' \subseteq Sprints /\ faults' \in 0..MaxEvents
           /\ loop' \in [Sites -> Loops]
           /\ \A k \in Sites : loop'[k] = loop[k] \/ loop'[k] = NoLoop
           /\ \A k \in Sites : k # "cli" => loop'[k] = NoLoop
<1>1. /\ loop \in [Sites -> Loops] /\ faults \in 0..MaxEvents /\ commands \in 0..MaxEvents
      /\ {MaxSprints, MaxGoals, MaxEvents} \subseteq Nat
  BY Typed
<1>2. NoSched \in Scheds /\ NoLoop \in Loops
  BY <1>1 DEF NoSched, Scheds, NoLoop, Loops
<1>3. Idle \in Polls /\ Idle.at = "idle"
  BY <1>1, <1>2 DEF Idle, Polls, NoGoal, GoalFiles
<1>4. /\ commands + faults < MaxEvents /\ faults' = faults + 1 /\ poll' = Idle
      /\ ready' = [at |-> "starting", seen |-> NoSched] /\ waiting' = {}
      /\ loop' = [loop EXCEPT !["service"] = NoLoop, !["auto"] = NoLoop]
  BY DEF ProcessRestarted
<1>5. PollHoldsOne' /\ poll'.at = "idle"
  BY <1>3, <1>4 DEF PollHoldsOne
<1>6. /\ loop' \in [Sites -> Loops]
      /\ \A k \in Sites : loop'[k] = loop[k] \/ loop'[k] = NoLoop
      /\ \A k \in Sites : k # "cli" => loop'[k] = NoLoop
  BY <1>1, <1>2, <1>4 DEF Sites
<1>7. faults' \in 0..MaxEvents
  BY <1>1, <1>4
<1>8. ready'.at = "starting" /\ ready' \in [at : {"idle", "starting", "asking"}, seen : Scheds]
  BY <1>2, <1>4
<1> QED BY <1>4, <1>5, <1>6, <1>7, <1>8

\* A crash between the save of a sprint and that of its goal.
LEMMA TornBase ==
    ASSUME Base, BoundsAssumption,
           CrashInMilestone \/ \E site \in Sites, status \in Ended : CrashInEnd(site, status)
    PROVE  Base'
<1>1. /\ sched \in Scheds /\ loop \in [Sites -> Loops] /\ MaxSprints \in Nat
      /\ poll \in Polls /\ sprint \in [Sprints -> SprintFiles] /\ torn \subseteq Sprints
      /\ waiting \subseteq Sprints /\ made \in 0..MaxSprints
      /\ ready \in [at : {"idle", "starting", "asking"}, seen : Scheds]
      /\ faults \in 0..MaxEvents /\ commands \in 0..MaxEvents /\ MaxEvents \in Nat
      /\ PollHoldsOne
  BY Typed DEF Base
<1>2. CASE CrashInMilestone
  <2>1. /\ Started("goal", poll.goal) /\ Torn(made + 1) /\ ProcessRestarted
        /\ UNCHANGED <<mode, goal, current, commands>> /\ crossed' \in BOOLEAN
        /\ poll.goal \in 0..MaxGoals
    BY <1>1, <1>2 DEF CrashInMilestone, Polls
  <2>2. /\ made + 1 \in Sprints /\ made' \in 0..MaxSprints
        /\ sprint' \in [Sprints -> SprintFiles] /\ IdsAreFresh' /\ sched' \in Scheds
        /\ \A s \in Sprints : sprint[s].status # "absent" => sprint'[s].status # "absent"
    BY <2>1, StartedSprint
  <2>3. torn' \subseteq Sprints
    BY <1>1, <2>1, <2>2 DEF Torn
  <2>4. /\ PollHoldsOne' /\ waiting' \subseteq Sprints /\ faults' \in 0..MaxEvents
        /\ ready' \in [at : {"idle", "starting", "asking"}, seen : Scheds]
        /\ loop' \in [Sites -> Loops]
        /\ \A k \in Sites : loop'[k] = loop[k] \/ loop'[k] = NoLoop
    BY <2>1, RestartedHolds
  <2>5. LoopsHaveFiles'
    BY <2>2, <2>4, FilesStay
  <2> QED BY <2>1, <2>2, <2>3, <2>4, <2>5, Typed, TypedBase
<1>3. ASSUME NEW site \in Sites, NEW status \in Ended, CrashInEnd(site, status) PROVE Base'
  <2> PICK s : s = loop[site].sprint
    OBVIOUS
  <2>1. /\ sprint' = [sprint EXCEPT ![s].status = status] /\ Torn(s)
        /\ UNCHANGED <<mode, sched, made, goal, current, crossed, commands>>
    BY <1>3 DEF CrashInEnd
  <2>2. s \in Sprints /\ sprint[s].status # "absent"
    <3>1. loop[site] # NoLoop
      BY <1>3 DEF CrashInEnd, NoLoop
    <3> QED BY <3>1 DEF Base, LoopsHaveFiles, LoopHasFile
  <2>3. sprint' \in [Sprints -> SprintFiles] /\ sprint'[s].status = status /\ status # "absent"
        /\ \A u \in Sprints : u # s => sprint'[u] = sprint[u]
    BY <1>1, <2>1, <2>2 DEF SprintFiles, Ended
  <2>4. torn' \subseteq Sprints
    BY <1>1, <2>1, <2>2 DEF Torn
  <2>5. /\ PollHoldsOne' /\ waiting' \subseteq Sprints /\ faults' \in 0..MaxEvents
        /\ ready' \in [at : {"idle", "starting", "asking"}, seen : Scheds]
        /\ loop' \in [Sites -> Loops]
        /\ \A k \in Sites : loop'[k] = loop[k] \/ loop'[k] = NoLoop
    <3>1. CASE site # "cli"
      BY <1>3, <3>1, RestartedHolds DEF CrashInEnd
    <3>2. CASE site = "cli"
      <4>1. /\ commands + faults < MaxEvents /\ faults' = faults + 1
            /\ loop' = [loop EXCEPT !["cli"] = NoLoop] /\ UNCHANGED <<poll, ready, waiting>>
        BY <1>3, <3>2 DEF CrashInEnd
      <4>2. NoLoop \in Loops
        BY <1>1 DEF NoLoop, Loops
      <4>3. PollHoldsOne'
        BY <1>1, <4>1 DEF PollHoldsOne
      <4>4. faults' \in 0..MaxEvents
        BY <1>1, <4>1
      <4> QED BY <1>1, <4>1, <4>2, <4>3, <4>4
    <3> QED BY <3>1, <3>2
  <2>6. LoopsHaveFiles'
    <3>1. \A u \in Sprints : sprint[u].status # "absent" => sprint'[u].status # "absent"
      BY <2>3
    <3> QED BY <2>5, <3>1, FilesStay
  <2>7. IdsAreFresh'
    <3>1. ASSUME NEW u \in Sprints, u > made PROVE sprint'[u] = NoSprint
      <4>1. sprint[u] = NoSprint
        BY <3>1 DEF Base, IdsAreFresh
      <4>2. u # s
        BY <2>2, <4>1 DEF NoSprint
      <4> QED BY <2>3, <4>1, <4>2
    <3> QED BY <2>1, <3>1 DEF IdsAreFresh
  <2> QED BY <2>1, <2>3, <2>4, <2>5, <2>6, <2>7, Typed, TypedBase
<1> QED BY <1>2, <1>3

\* What a command has in common with others.
LEMMA CommandCounts ==
    ASSUME Base, BoundsAssumption, NEW from \in {"service", "cli"}, Command(from)
    PROVE  /\ commands' \in 0..MaxEvents /\ PollHoldsOne'
           /\ UNCHANGED <<mode, poll, ready, torn, faults>>
<1>1. commands \in 0..MaxEvents /\ faults \in 0..MaxEvents /\ MaxEvents \in Nat
  BY Typed
<1> QED BY <1>1 DEF Command, Base, PollHoldsOne

\* A sprint is resumed in the background, or by a loop at one site.
TakesUp(s) ==
    /\ sched' \in Scheds /\ loop' \in [Sites -> Loops]
    /\ waiting' \subseteq waiting \cup {s}
    /\ \A k \in Sites : loop'[k] = loop[k]
                        \/ (loop'[k].sprint = s /\ sprint'[s].status # "absent")

LEMMA ResumesTakesUp ==
    ASSUME Base, BoundsAssumption, NEW from \in {"service", "cli"}, NEW s \in Sprints,
           Resumes(from, s), sprint' = sprint
    PROVE  TakesUp(s) /\ (Workable(s) => sched' = sched)
<1>1. sched \in Scheds /\ loop \in [Sites -> Loops] /\ "cli" \in Sites
  BY Typed DEF Sites
<1>2. CASE from = "cli"
  <2>1. ResumeAt("cli", s, "cli") /\ waiting' = waiting
    BY <1>2 DEF Resumes
  <2> QED BY <1>1, <2>1, ResumeShape DEF TakesUp, Workable
<1>3. CASE from # "cli"
  BY <1>1, <1>3 DEF Resumes, TakesUp
<1> QED BY <1>2, <1>3

\* What takes a sprint up keeps the rest.
LEMMA TakesUpBase ==
    ASSUME Base, BoundsAssumption, NEW s \in Sprints, TakesUp(s),
           \A u \in Sprints : sprint[u].status # "absent" => sprint'[u].status # "absent"
    PROVE  sched' \in Scheds /\ loop' \in [Sites -> Loops] /\ waiting' \subseteq Sprints
           /\ LoopsHaveFiles'
<1>1. waiting \subseteq Sprints
  BY Typed
<1>2. LoopsHaveFiles'
  BY FilesStay DEF TakesUp
<1> QED BY <1>1, <1>2 DEF TakesUp

\* What a command takes up of a new sprint, or one to be restarted.
LEMMA BegunTakesUp ==
    ASSUME Base, BoundsAssumption, NEW from \in {"service", "cli"}, NEW s \in Sprints,
           IF from = "cli" THEN LoopBegins("cli", s, "cli") /\ UNCHANGED waiting
           ELSE waiting' = waiting \cup {s} /\ UNCHANGED loop,
           sched' \in Scheds, sprint'[s].status # "absent"
    PROVE  TakesUp(s)
<1>1. loop \in [Sites -> Loops] /\ "cli" \in Sites
  BY Typed DEF Sites
<1>2. CASE from = "cli"
  BY <1>1, <1>2, LoopBegun DEF TakesUp
<1>3. CASE from # "cli"
  BY <1>1, <1>3 DEF TakesUp
<1> QED BY <1>2, <1>3

\* The latest sprint has a file.
LEMMA RestartsAFile ==
    ASSUME Base, BoundsAssumption,
           NEW s, s = IF ActiveFile THEN sched.active ELSE Latest, s # 0
    PROVE  s \in Sprints
<1>1. sched \in Scheds /\ made \in 0..MaxSprints /\ MaxSprints \in Nat
  BY Typed
<1>2. CASE ActiveFile
  BY <1>1, <1>2 DEF Scheds, Sprints
<1>3. CASE ~ActiveFile
  <2> DEFINE P(u) == u \in Sprints /\ sprint[u].status # "absent"
             Q(u) == P(u) /\ \A t \in Sprints : sprint[t].status # "absent" => t <= u
  <2>1. \E u \in Sprints : P(u)
    BY <1>3 DEF Latest
  <2>2. \E u \in Sprints : Q(u)
    <3>1. \A u \in Sprints : P(u) => u <= made
      <4>1. ASSUME NEW u \in Sprints, P(u), ~(u <= made) PROVE FALSE
        <5>1. u > made
          BY <1>1, <4>1 DEF Sprints
        <5>2. sprint[u] = NoSprint
          BY <5>1 DEF Base, IdsAreFresh
        <5> QED BY <4>1, <5>2 DEF NoSprint
      <4> QED BY <4>1
    <3> DEFINE R(n) == n \in Nat /\ \E u \in Sprints : P(u) /\ u + n = MaxSprints
               NS == {n \in Nat : R(n)}
    <3>2. NS # {}
      <4>1. PICK u \in Sprints : P(u)
        BY <2>1
      <4>2. MaxSprints - u \in Nat /\ u + (MaxSprints - u) = MaxSprints
        BY <1>1 DEF Sprints
      <4> QED BY <4>1, <4>2
    <3>3. PICK n \in NS : \A k \in NS : n <= k
      <4>1. NS \subseteq Nat
        OBVIOUS
      <4> HIDE DEF NS
      <4> QED BY <3>2, <4>1, LeastOf
    <3>4. PICK u \in Sprints : P(u) /\ u + n = MaxSprints
      BY <3>3
    <3>5. ASSUME NEW t \in Sprints, sprint[t].status # "absent" PROVE t <= u
      <4>1. MaxSprints - t \in Nat /\ t + (MaxSprints - t) = MaxSprints
        BY <1>1 DEF Sprints
      <4>2. MaxSprints - t \in NS
        BY <3>5, <4>1
      <4>3. n <= MaxSprints - t /\ n \in Nat
        BY <3>3, <4>2
      <4> QED BY <1>1, <3>4, <4>1, <4>3 DEF Sprints
    <3> QED BY <3>4, <3>5
  <2>3. s = CHOOSE u \in Sprints : /\ sprint[u].status # "absent"
                                   /\ \A t \in Sprints : sprint[t].status # "absent" => t <= u
    BY <1>3, <2>1 DEF Latest
  <2> QED BY <2>2, <2>3
<1> QED BY <1>2, <1>3

\* Commands on sprints.
LEMMA SprintCommandBase ==
    ASSUME Base, BoundsAssumption, NEW from \in {"service", "cli"},
           StartSprint(from) \/ StopSprint(from) \/ RestartSprint(from)
    PROVE  Base'
<1>1. /\ sched \in Scheds /\ waiting \subseteq Sprints /\ loop \in [Sites -> Loops]
      /\ {MaxSprints, MaxGoals, MaxEvents} \subseteq Nat /\ 0 \in 0..MaxGoals
  BY Typed DEF BoundsAssumption
<1>2. /\ commands' \in 0..MaxEvents /\ PollHoldsOne'
      /\ UNCHANGED <<mode, poll, ready, torn, faults>>
  BY CommandCounts DEF StartSprint, StopSprint, RestartSprint
<1>3. UNCHANGED <<goal, current>> /\ crossed' \in BOOLEAN
  BY DEF StartSprint, StopSprint, RestartSprint
<1>4. CASE StartSprint(from)
  <2>1. Started("manual", 0)
    BY <1>4 DEF StartSprint
  <2>2. /\ made + 1 \in Sprints /\ sched' \in Scheds
        /\ made' \in 0..MaxSprints /\ sprint' \in [Sprints -> SprintFiles] /\ IdsAreFresh'
        /\ sprint'[made + 1].status = "live"
        /\ \A s \in Sprints : sprint[s].status # "absent" => sprint'[s].status # "absent"
    <3>1. sprint'[made + 1] = [status |-> "live", kind |-> "manual", goal |-> 0]
      BY <1>1, <2>1, StartedSprint
    <3>2. /\ made + 1 \in Sprints /\ sched' \in Scheds
          /\ made' \in 0..MaxSprints /\ sprint' \in [Sprints -> SprintFiles] /\ IdsAreFresh'
          /\ \A s \in Sprints : sprint[s].status # "absent" => sprint'[s].status # "absent"
      BY <1>1, <2>1, StartedSprint
    <3> QED BY <3>1, <3>2
  <2> DEFINE s == made + 1
  <2>3. IF from = "cli" THEN LoopBegins("cli", s, "cli") /\ UNCHANGED waiting
        ELSE waiting' = waiting \cup {s} /\ UNCHANGED loop
    BY <1>4 DEF StartSprint
  <2> HIDE DEF s
  <2>4. s \in Sprints /\ sprint'[s].status # "absent"
    BY <2>2 DEF s
  <2>5. TakesUp(s)
    BY <2>2, <2>3, <2>4, BegunTakesUp
  <2>6. loop' \in [Sites -> Loops] /\ waiting' \subseteq Sprints /\ LoopsHaveFiles'
    BY <2>2, <2>4, <2>5, TakesUpBase
  <2> QED BY <1>2, <1>3, <2>2, <2>6, Typed, TypedBase
<1>5. CASE StopSprint(from)
  <2> DEFINE s == sched.active
  <2>1. s \in Sprints /\ s \in 0..MaxSprints
    BY <1>1, <1>5 DEF StopSprint, ActiveFile, Scheds, Sprints
  <2>2. UNCHANGED <<made, sprint>> /\ IdsAreFresh'
    BY <1>5 DEF StopSprint, Base, IdsAreFresh
  <2> HIDE DEF s
  <2>3. CASE sprint[s].status \in {"failed", "blocked"}
    <3>1. sched' = Finished(sched, s, TRUE) /\ UNCHANGED <<waiting, loop>>
      BY <1>5, <2>3 DEF StopSprint, s
    <3>2. sched' \in Scheds
      BY <1>1, <3>1 DEF Finished, Scheds
    <3>3. LoopsHaveFiles'
      BY <2>2, <3>1 DEF Base, LoopsHaveFiles, LoopHasFile
    <3> QED BY <1>2, <1>3, <2>2, <3>1, <3>2, <3>3, Typed, TypedBase
  <2>4. CASE sprint[s].status \notin {"failed", "blocked"}
    <3>1. Resumes(from, s)
      BY <1>5, <2>4 DEF StopSprint, s
    <3>2. TakesUp(s)
      BY <2>1, <2>2, <3>1, ResumesTakesUp
    <3>3. /\ sched' \in Scheds /\ loop' \in [Sites -> Loops] /\ waiting' \subseteq Sprints
          /\ LoopsHaveFiles'
      BY <2>1, <2>2, <3>2, TakesUpBase
    <3> QED BY <1>2, <1>3, <2>2, <3>3, Typed, TypedBase
  <2> QED BY <2>3, <2>4
<1>6. CASE RestartSprint(from)
  <2> DEFINE s == IF ActiveFile THEN sched.active ELSE Latest
  <2>1. s \in Sprints
    BY <1>6, RestartsAFile DEF RestartSprint
  <2>2. /\ UNCHANGED <<made, sprint>> /\ Workable(s) /\ sched' = [sched EXCEPT !.active = s]
        /\ IF from = "cli" THEN LoopBegins("cli", s, "cli") /\ UNCHANGED waiting
           ELSE waiting' = waiting \cup {s} /\ UNCHANGED loop
    BY <1>6 DEF RestartSprint
  <2> HIDE DEF s
  <2>3. sched' \in Scheds
    BY <1>1, <2>1, <2>2 DEF Scheds, Sprints
  <2>4. TakesUp(s)
    BY <2>1, <2>2, <2>3, BegunTakesUp DEF Workable
  <2>5. /\ loop' \in [Sites -> Loops] /\ waiting' \subseteq Sprints /\ LoopsHaveFiles'
    BY <2>1, <2>2, <2>4, TakesUpBase
  <2>6. IdsAreFresh'
    BY <2>2 DEF Base, IdsAreFresh
  <2> QED BY <1>2, <1>3, <2>2, <2>3, <2>5, <2>6, Typed, TypedBase
<1> QED BY <1>4, <1>5, <1>6

\* A sprint of the goal, if it is the active one, is taken up; otherwise nothing is.
LEMMA WrapUpTakesUp ==
    ASSUME Base, BoundsAssumption, sprint' = sprint,
           GoalSprintWrapsUp \/ UNCHANGED <<sched, waiting, loop>>
    PROVE  UNCHANGED <<sched, waiting, loop>>
           \/ (ActiveFile /\ sched.active \in Sprints /\ TakesUp(sched.active)
               /\ (Workable(sched.active) => sched' = sched))
<1>1. sched \in Scheds /\ MaxSprints \in Nat
  BY Typed
<1>2. CASE ActiveFile /\ Resumes("cli", sched.active)
  <2>1. sched.active \in Sprints
    BY <1>1, <1>2 DEF ActiveFile, Scheds, Sprints
  <2> QED BY <1>2, <2>1, ResumesTakesUp
<1> QED BY <1>2 DEF GoalSprintWrapsUp

\* Commands on goals.
LEMMA GoalCommandBase ==
    ASSUME Base, BoundsAssumption, StartGoal \/ StopGoal \/ ResumeGoal \/ CancelGoal
    PROVE  Base'
<1>1. /\ goal \in [Goals -> GoalFiles] /\ current \in 0..MaxGoals /\ MaxGoals \in Nat
  BY Typed
<1>2. /\ commands' \in 0..MaxEvents /\ PollHoldsOne'
      /\ UNCHANGED <<mode, poll, ready, torn, faults>>
  BY CommandCounts DEF StartGoal, StopGoal, ResumeGoal, CancelGoal, GoalCommand
<1>3. UNCHANGED <<made, sprint>> /\ crossed' \in BOOLEAN
  BY DEF StartGoal, StopGoal, ResumeGoal, CancelGoal, GoalCommand
<1>4. goal' \in [Goals -> GoalFiles]
  <2>1. CASE StartGoal
    BY <1>1, <2>1 DEF StartGoal, GoalSaved, NoGoal, GoalFiles
  <2>2. ASSUME NEW status \in {"paused", "active", "cancelled"}, GoalCommand(status)
        PROVE  goal' \in [Goals -> GoalFiles]
    BY <1>1, <2>2, CurrentGoals DEF GoalCommand, GoalSaved, GoalFiles, TerminalGoal
  <2> QED BY <2>1, <2>2 DEF StopGoal, ResumeGoal, CancelGoal
<1>5. current' \in 0..MaxGoals
  BY <1>1, CurrentGoals DEF StartGoal, StopGoal, ResumeGoal, CancelGoal, PointerLoaded,
     PointerCleared, Goals
<1>6. /\ sched' \in Scheds /\ loop' \in [Sites -> Loops] /\ waiting' \subseteq Sprints
      /\ LoopsHaveFiles'
  <2>1. GoalSprintWrapsUp \/ UNCHANGED <<sched, waiting, loop>>
    BY DEF StartGoal, StopGoal, ResumeGoal, CancelGoal
  <2>2. CASE UNCHANGED <<sched, waiting, loop>>
    BY <1>3, <2>2, Typed DEF Base, LoopsHaveFiles, LoopHasFile
  <2>3. CASE sched.active \in Sprints /\ TakesUp(sched.active)
    BY <1>3, <2>3, TakesUpBase
  <2> QED BY <1>3, <2>1, <2>2, <2>3, WrapUpTakesUp
<1>7. IdsAreFresh'
  BY <1>3 DEF Base, IdsAreFresh
<1> QED BY <1>2, <1>3, <1>4, <1>5, <1>6, <1>7, Typed, TypedBase

\* Types, files and ids, whatever is crossed.
LEMMA NextBase ==
    ASSUME Base, BoundsAssumption, Next
    PROVE  Base'
<1>1. CASE PollStep
  BY <1>1, PollBeginsBase, ResumesBase, PollGoesOnBase, SourcingBase, RunAutonomousBase DEF PollStep
<1>2. CASE ReadyStep \/ Reconnects \/ Crash \/ CrashInStart
  BY <1>2, ProcessBase
<1>3. CASE \E s \in Sprints : TaskResumes(s)
  BY <1>3, ResumesBase
<1>4. CASE \E site \in Sites : LoopStep(site)
  BY <1>4, LoopStepBase
<1>5. CASE \E from \in {"service", "cli"} : StartSprint(from) \/ StopSprint(from) \/ RestartSprint(from)
  BY <1>5, SprintCommandBase
<1>6. CASE StartGoal \/ StopGoal \/ ResumeGoal \/ CancelGoal
  BY <1>6, GoalCommandBase
<1>7. CASE CrashInMilestone \/ \E site \in Sites, status \in Ended : CrashInEnd(site, status)
  BY <1>7, TornBase
<1> QED BY <1>1, <1>2, <1>3, <1>4, <1>5, <1>6, <1>7 DEF Next

-----------------------------------------------------------------------------
(* The live sprint is alone *)

\* What is held for no sprint, or before one is known, is held while none is live.
LEMMA NoneIsLive ==
    ASSUME Base, BoundsAssumption, LiveIsAlone,
           \/ sched.active = 0 \/ ~ActiveFile \/ ready.at = "asking"
           \/ poll.at \in {"asking", "selecting", "sourcing"}
    PROVE  \A t \in Sprints : ~Live(t)
<1>1. \A t \in Sprints : Live(t) => t # 0 /\ sprint[t].status # "absent"
  BY DEF Live, Sprints
<1> QED BY <1>1 DEF LiveIsAlone, Alone, ActiveFile

\* A new sprint that starts while nothing is held is alone.
LEMMA NewIsAlone ==
    ASSUME Base, BoundsAssumption, LiveIsAlone, \A t \in Sprints : ~Live(t),
           NEW s \in Sprints, \A t \in Sprints : t # s => sprint'[t] = sprint[t],
           Alone(s)'
    PROVE  LiveIsAlone'
BY DEF LiveIsAlone, Live

\* The steps of the poll that start nothing.
LEMMA PollAlone ==
    ASSUME Base, BoundsAssumption, LiveIsAlone,
           \/ \E due \in BOOLEAN : PollBegins(due)
           \/ PollResumes \/ NothingSelected
           \/ \E sent \in BOOLEAN : Asked(sent)
    PROVE  LiveIsAlone'
<1>1. sprint' = sprint /\ waiting' = waiting /\ ready' = ready
  BY DEF PollBegins, PollResumes, NothingSelected, Asked
<1>2. CASE NothingSelected \/ \E sent \in BOOLEAN : Asked(sent)
  <2>1. \A t \in Sprints : ~Live(t)
    BY <1>2, NoneIsLive DEF NothingSelected, Asked, Polling
  <2> QED BY <1>1, <2>1 DEF LiveIsAlone, Live
<1>3. ASSUME NEW t \in Sprints, Live(t), NEW due \in BOOLEAN, PollBegins(due)
      PROVE  Alone(t)'
  <2>1. Alone(t) /\ t # 0
    BY <1>3 DEF LiveIsAlone, Sprints
  <2>2. poll' = [Idle EXCEPT !.at = "resuming", !.seen.active = sched.active,
                             !.due = due /\ ~sched.deferred]
        /\ sched' = sched /\ loop' = loop
    BY <1>3, <2>1 DEF PollBegins, Alone
  <2>3. poll'.at = "resuming" /\ poll'.seen.active = t
    BY <2>1, <2>2 DEF Idle, NoSched, Alone
  <2> QED BY <1>1, <2>1, <2>2, <2>3 DEF Alone
<1>4. ASSUME NEW t \in Sprints, Live(t), PollResumes
      PROVE  Alone(t)'
  <2>1. Alone(t) /\ Workable(t) /\ poll \in Polls
    BY <1>3, <1>4, Typed DEF LiveIsAlone, Live, Workable
  <2>2. poll.seen.active = t
    BY <1>4, <2>1 DEF Alone, PollResumes, Polling
  <2>3. ResumeAt("service", t, "poll") /\ poll' = [poll EXCEPT !.at = "resumed"]
    BY <1>4, <2>1, <2>2 DEF PollResumes, GoPoll
  <2>4. sched' = sched /\ loop'["service"].sprint = t
        /\ \A k \in Sites : k # "service" => loop'[k] = loop[k]
    BY <2>1, <2>3, ResumeShape DEF Sites
  <2>5. poll'.at = "resumed"
    BY <2>1, <2>3 DEF Polls
  <2> QED BY <1>1, <2>1, <2>4, <2>5 DEF Alone
<1>5. CASE PollResumes \/ \E due \in BOOLEAN : PollBegins(due)
  BY <1>1, <1>3, <1>4, <1>5 DEF LiveIsAlone, Live
<1> QED BY <1>2, <1>5

\* The poll's own start.
LEMMA RunAutonomousAlone ==
    ASSUME Base, BoundsAssumption, LiveIsAlone, ~crossed',
           NEW backlogReady \in BOOLEAN, RunAutonomous(backlogReady)
    PROVE  LiveIsAlone'
<1> PICK s : s = made + 1
  OBVIOUS
<1>1. \A t \in Sprints : ~Live(t)
  BY NoneIsLive DEF RunAutonomous, Polling
<1>2. /\ s \in Sprints
      /\ sched' = [active |-> s, deferred |-> FALSE, asked |-> FALSE]
      /\ sprint' = [sprint EXCEPT ![s] = [status |-> "live", kind |-> "auto", goal |-> 0]]
      /\ LoopBegins("auto", s, "auto") /\ "auto" \in Sites
      /\ poll' = [Idle EXCEPT !.at = "auto"]
      /\ ~HeldElsewhere /\ ready' = ready /\ waiting' = waiting
  BY DEF RunAutonomous, Sites
<1>3. \A t \in Sprints : t # s => sprint'[t] = sprint[t]
  BY <1>2, Typed
<1>4. /\ loop'["auto"].sprint = s
      /\ \A k \in Sites : k # "auto" => loop'[k].sprint = 0
  <2>1. \A k \in Sites : loop[k].sprint = 0
    BY <1>2 DEF HeldElsewhere, NoLoop
  <2> QED BY <1>2, <2>1, LoopBegun
<1>5. poll'.at = "auto"
  BY <1>2 DEF Idle
<1>6. Alone(s)'
  BY <1>2, <1>4, <1>5 DEF Alone, HeldElsewhere, HeldByReady
<1> QED BY <1>1, <1>2, <1>3, <1>6, NewIsAlone

\* The sourcer's start, and what else it does.
LEMMA SourcingAlone ==
    ASSUME Base, BoundsAssumption, LiveIsAlone, ~crossed', SourcingReturns
    PROVE  LiveIsAlone'
<1>1. \A t \in Sprints : ~Live(t)
  BY NoneIsLive DEF SourcingReturns, Polling
<1>2. poll' = Idle /\ ready' = ready /\ loop' = loop
  BY DEF SourcingReturns, PollEnds
<1>3. PICK verdict \in Verdicts :
         GoalEnds(verdict) \/ MilestoneStarts(verdict) \/ NothingSourced(verdict)
  BY DEF SourcingReturns
<1>4. CASE GoalEnds(verdict) \/ NothingSourced(verdict)
  BY <1>1, <1>4 DEF GoalEnds, NothingSourced, LiveIsAlone, Live
<1>5. CASE MilestoneStarts(verdict)
  <2>1. ~ActiveFile /\ ~Held
    BY <1>5 DEF MilestoneStarts
  <2>2. Started("goal", poll.goal) /\ waiting' = waiting \cup {made + 1}
    BY <1>5, <2>1 DEF MilestoneStarts
  <2>3. poll.goal \in 0..MaxGoals
    BY Typed DEF Polls
  <2> PICK s : s = made + 1
    OBVIOUS
  <2>4. /\ s \in Sprints /\ sched'.active = s
        /\ \A t \in Sprints : t # s => sprint'[t] = sprint[t]
    BY <2>2, <2>3, StartedSprint
  <2>5. waiting' = {s}
    BY <2>1, <2>2 DEF Held, HeldElsewhere
  <2>6. \A k \in Sites : loop'[k].sprint = 0
    BY <1>2, <2>1 DEF Held, HeldElsewhere, NoLoop
  <2>7. poll'.at = "idle"
    BY <1>2 DEF Idle
  <2>8. Alone(s)'
    BY <1>2, <2>1, <2>4, <2>5, <2>6, <2>7 DEF Alone, Held, HeldElsewhere, HeldByReady
  <2> QED BY <1>1, <2>4, <2>8, NewIsAlone
<1> QED BY <1>3, <1>4, <1>5

\* The process and its tasks.
LEMMA ProcessAlone ==
    ASSUME Base, BoundsAssumption, LiveIsAlone,
           ReadyStep \/ Reconnects \/ Crash \/ CrashInStart \/ \E s \in Sprints : TaskResumes(s)
    PROVE  LiveIsAlone'
<1>1. sprint' = sprint
  BY DEF ReadyStep, OnReady, ReadyAsked, Reconnects, Crash, CrashInStart, TaskResumes
<1>2. ASSUME NEW t \in Sprints, Live(t) PROVE Alone(t)'
  <2>1. Alone(t) /\ t # 0 /\ ActiveFile
    BY <1>2, NoneIsLive DEF LiveIsAlone, Sprints
  <2>2. CASE OnReady
    <3>1. waiting' = waiting \cup {t} /\ ready'.at = "idle"
      BY <2>1, <2>2 DEF OnReady, Alone
    <3> QED BY <2>1, <2>2, <3>1 DEF OnReady, Alone
  <2>3. CASE ReadyAsked(TRUE) \/ ReadyAsked(FALSE)
    BY <2>1, <2>3 DEF ReadyAsked, HeldByReady, Alone
  <2>4. CASE Reconnects
    <3>1. ready'.at = "starting"
      BY <2>4, Typed DEF Reconnects
    <3> QED BY <2>1, <2>4, <3>1 DEF Reconnects, Alone
  <2>5. CASE Crash
    <3>1. /\ poll'.at = "idle" /\ ready'.at = "starting" /\ waiting' = {} /\ sched' = sched
      BY <2>5 DEF Crash, ProcessRestarted, Idle
    <3>2. \A k \in Sites : loop'[k].sprint \in {0, loop[k].sprint}
      BY <2>5, Typed DEF Crash, ProcessRestarted, NoLoop
    <3> QED BY <2>1, <3>1, <3>2 DEF Alone
  <2>6. CASE CrashInStart
    BY <2>1, <2>6 DEF CrashInStart
  <2>7. ASSUME NEW s \in Sprints, TaskResumes(s) PROVE Alone(t)'
    <3>1. s = t /\ Workable(s) /\ ResumeAt("service", s, "task")
      BY <1>2, <2>1, <2>7 DEF TaskResumes, Alone, Live, Workable
    <3>2. sched' = sched /\ loop'["service"].sprint = t
          /\ \A k \in Sites : k # "service" => loop'[k] = loop[k]
      BY <3>1, ResumeShape DEF Sites
    <3> QED BY <2>1, <2>7, <3>2 DEF TaskResumes, Alone
  <2> QED BY <2>2, <2>3, <2>4, <2>5, <2>6, <2>7 DEF ReadyStep
<1> QED BY <1>1, <1>2 DEF LiveIsAlone, Live

\* A crash between the save of a sprint and that of its goal: a new sprint is the
\* only one that is live, or the one that was is no longer.
LEMMA TornAlone ==
    ASSUME Base, BoundsAssumption, LiveIsAlone, ~crossed',
           CrashInMilestone \/ \E site \in Sites, status \in Ended : CrashInEnd(site, status)
    PROVE  LiveIsAlone'
<1>1. CASE CrashInMilestone
  <2> PICK s : s = made + 1
    OBVIOUS
  <2>1. /\ Started("goal", poll.goal) /\ ProcessRestarted /\ ~ActiveFile
        /\ loop["cli"] = NoLoop /\ poll.goal \in 0..MaxGoals
    BY <1>1, Typed DEF CrashInMilestone, Polls
  <2>2. /\ s \in Sprints /\ sched'.active = s
        /\ \A t \in Sprints : t # s => sprint'[t] = sprint[t]
    BY <2>1, StartedSprint
  <2>3. \A t \in Sprints : ~Live(t)
    BY <2>1, NoneIsLive
  <2>4. poll'.at = "idle" /\ ready'.at = "starting" /\ waiting' = {}
    BY <2>1, RestartedHolds
  <2>5. \A k \in Sites : loop'[k].sprint = 0
    <3>1. \A k \in Sites : loop'[k] = NoLoop
      BY <2>1, RestartedHolds
    <3> QED BY <3>1 DEF NoLoop
  <2>6. Alone(s)'
    BY <2>2, <2>4, <2>5 DEF Alone
  <2> QED BY <2>2, <2>3, <2>6, NewIsAlone
<1>2. ASSUME NEW site \in Sites, NEW status \in Ended, CrashInEnd(site, status)
      PROVE  LiveIsAlone'
  <2> PICK s : s = loop[site].sprint
    OBVIOUS
  <2>1. loop[site] # NoLoop
    BY <1>2 DEF CrashInEnd, NoLoop
  <2>2. s \in Sprints /\ s # 0 /\ sprint \in [Sprints -> SprintFiles]
    BY <2>1, Typed DEF Base, LoopsHaveFiles, LoopHasFile, Sprints
  <2>3. \A t \in Sprints : Live(t) => s = t
    BY <2>2 DEF LiveIsAlone, Alone
  <2>4. sprint' = [sprint EXCEPT ![s].status = status]
    BY <1>2 DEF CrashInEnd
  <2>5. sprint'[s].status # "live" /\ \A t \in Sprints : t # s => sprint'[t] = sprint[t]
    BY <2>2, <2>4 DEF Ended, SprintFiles
  <2> QED BY <2>3, <2>5 DEF LiveIsAlone, Live
<1> QED BY <1>1, <1>2

\* A sprint's loop.
LEMMA LoopStepAlone ==
    ASSUME Base, BoundsAssumption, LiveIsAlone, NEW site \in Sites, LoopStep(site)
    PROVE  LiveIsAlone'
<1> DEFINE s == loop[site].sprint
<1>1. s \in Sprints /\ s # 0 /\ sched \in Scheds /\ sprint \in [Sprints -> SprintFiles]
      /\ loop \in [Sites -> Loops] /\ PollHoldsOne
  <2>1. loop[site].at \in {"working", "reporting"}
    BY DEF LoopStep, LoopReturns, LoopEnds, LoopReported
  <2>2. loop[site] # NoLoop
    BY <2>1 DEF NoLoop
  <2> QED BY <2>2, Typed DEF Base, LoopsHaveFiles, LoopHasFile, Sprints
<1>2. waiting' = waiting /\ ready' = ready
  BY DEF LoopStep, LoopReturns, LoopEnds, LoopReported
<1> HIDE DEF s
<1>3. \A t \in Sprints : Live(t) => Alone(t) /\ s = t
  BY <1>1 DEF LiveIsAlone, Alone, s
<1>4. ASSUME NEW state \in Scheds, LoopIsOver(site, state), sprint' = sprint,
             \A t \in Sprints : Live(t) => state.active = t
      PROVE  LiveIsAlone'
  <2>1. ASSUME NEW t \in Sprints, Live(t) PROVE Alone(t)'
    <3>1. Alone(t) /\ state.active = t
      BY <1>3, <1>4, <2>1
    <3>2. sched'.active = t
      BY <1>1, <1>4, <3>1 DEF LoopIsOver, Deferred, Scheds
    <3>3. \A k \in Sites : loop'[k].sprint \in {0, loop[k].sprint}
      BY <1>1, <1>4 DEF LoopIsOver, NoLoop
    <3>4. poll' = poll \/ poll'.at = "idle"
      BY <1>4 DEF LoopIsOver, Idle
    <3> QED BY <1>2, <3>1, <3>2, <3>3, <3>4 DEF Alone
  <2> QED BY <1>4, <2>1 DEF LiveIsAlone, Live
<1>5. CASE LoopReturns(site)
  BY <1>1, <1>3, <1>4, <1>5 DEF LoopReturns, Alone
<1>6. CASE LoopReported(site)
  <2> DEFINE state == Finished(sched, s, ClearsActive(s))
  <2>1. state = [sched EXCEPT !.active = IF ClearsActive(s) THEN 0 ELSE s]
    BY DEF Finished
  <2>2. state \in Scheds
    BY <1>1, <2>1, Typed DEF Scheds, Sprints
  <2>3. ASSUME NEW t \in Sprints, Live(t) PROVE state.active = t
    <3>1. s = t /\ ~ClearsActive(s)
      BY <1>3, <2>3 DEF ClearsActive, Live
    <3> QED BY <1>1, <2>1, <3>1 DEF Scheds
  <2>4. LoopIsOver(site, state) /\ sprint' = sprint
    BY <1>6 DEF LoopReported, s
  <2> HIDE DEF state
  <2> QED BY <1>4, <2>2, <2>3, <2>4
<1>7. ASSUME NEW status \in Ended, LoopEnds(site, status) PROVE LiveIsAlone'
  <2>1. sprint' = [sprint EXCEPT ![s].status = status]
    BY <1>7 DEF LoopEnds, s
  <2>2. sprint'[s].status # "live" /\ \A t \in Sprints : t # s => sprint'[t] = sprint[t]
    BY <1>1, <2>1 DEF Ended, SprintFiles
  <2> QED BY <1>3, <2>2 DEF LiveIsAlone, Live
<1> QED BY <1>5, <1>6, <1>7 DEF LoopStep

\* The live sprint is taken up once more.
LEMMA TakenUpIsAlone ==
    ASSUME NEW t \in Sprints, Alone(t), TakesUp(t), sched'.active = t, UNCHANGED <<poll, ready>>
    PROVE  Alone(t)'
BY DEF Alone, TakesUp

\* Commands on sprints.
LEMMA SprintCommandAlone ==
    ASSUME Base, BoundsAssumption, LiveIsAlone, ~crossed', NEW from \in {"service", "cli"},
           StartSprint(from) \/ StopSprint(from) \/ RestartSprint(from)
    PROVE  LiveIsAlone'
<1>0. UNCHANGED <<poll, ready>>
  BY DEF StartSprint, StopSprint, RestartSprint, Command
<1>1. UNCHANGED <<poll, ready>> /\ 0 \in 0..MaxGoals /\ sched \in Scheds /\ MaxSprints \in Nat
  <2>1. MaxGoals \in Nat /\ MaxSprints \in Nat
    BY DEF BoundsAssumption
  <2> QED BY <1>0, <2>1, Typed
<1>2. CASE StartSprint(from)
  <2> PICK s : s = made + 1
    OBVIOUS
  <2>1. Started("manual", 0) /\ ~ActiveFile /\ ~Held /\ ~Polling("sourcing")
    BY <1>2 DEF StartSprint
  <2>2. /\ s \in Sprints /\ sched' \in Scheds /\ sched'.active = s
        /\ \A t \in Sprints : t # s => sprint'[t] = sprint[t]
    BY <1>1, <2>1, StartedSprint
  <2>3. \A t \in Sprints : ~Live(t)
    BY <2>1, NoneIsLive
  <2>4. IF from = "cli" THEN LoopBegins("cli", s, "cli") /\ UNCHANGED waiting
        ELSE waiting' = waiting \cup {s} /\ UNCHANGED loop
    BY <1>2 DEF StartSprint
  <2>5. sprint'[s].status # "absent"
    <3>1. sprint'[s] = [status |-> "live", kind |-> "manual", goal |-> 0]
      BY <1>1, <2>1, StartedSprint
    <3> QED BY <3>1
  <2>6. TakesUp(s)
    BY <2>2, <2>4, <2>5, BegunTakesUp
  <2>7. /\ poll.at \notin {"asking", "selecting", "sourcing", "resuming"} /\ ready.at # "asking"
        /\ waiting = {} /\ \A k \in Sites : loop[k].sprint = 0
    BY <2>1 DEF Held, HeldByPoll, HeldElsewhere, HeldByReady, Polling, NoLoop
  <2>8. Alone(s)'
    BY <1>1, <2>2, <2>6, <2>7 DEF Alone, TakesUp
  <2> QED BY <2>2, <2>3, <2>8, NewIsAlone
<1>3. CASE StopSprint(from)
  <2>1. sprint' = sprint
    BY <1>3 DEF StopSprint
  <2>2. ASSUME NEW t \in Sprints, Live(t) PROVE Alone(t)'
    <3>1. Alone(t) /\ sched.active = t
      BY <2>2 DEF LiveIsAlone, Alone
    <3>2. Resumes(from, t)
      BY <1>3, <2>2, <3>1 DEF StopSprint, Live
    <3>3. TakesUp(t) /\ sched' = sched
      BY <2>1, <2>2, <3>2, ResumesTakesUp DEF Workable, Live
    <3> QED BY <1>1, <3>1, <3>3, TakenUpIsAlone
  <2> QED BY <2>1, <2>2 DEF LiveIsAlone, Live
<1>4. CASE RestartSprint(from)
  <2>1. sprint' = sprint
    BY <1>4 DEF RestartSprint
  <2>2. ASSUME NEW t \in Sprints, Live(t) PROVE Alone(t)'
    <3>1. Alone(t) /\ sched.active = t /\ ActiveFile
      BY <2>2, NoneIsLive DEF LiveIsAlone, Alone
    <3>2. /\ sched' = [sched EXCEPT !.active = t]
          /\ IF from = "cli" THEN LoopBegins("cli", t, "cli") /\ UNCHANGED waiting
             ELSE waiting' = waiting \cup {t} /\ UNCHANGED loop
      BY <1>4, <3>1 DEF RestartSprint
    <3>3. sched' \in Scheds /\ sched'.active = t /\ sprint'[t].status # "absent"
      BY <1>1, <2>1, <2>2, <3>2 DEF Scheds, Sprints, Live
    <3>4. TakesUp(t)
      BY <3>2, <3>3, BegunTakesUp
    <3> QED BY <1>1, <3>1, <3>3, <3>4, TakenUpIsAlone
  <2> QED BY <2>1, <2>2 DEF LiveIsAlone, Live
<1> QED BY <1>2, <1>3, <1>4

\* Commands on goals.
LEMMA GoalCommandAlone ==
    ASSUME Base, BoundsAssumption, LiveIsAlone, StartGoal \/ StopGoal \/ ResumeGoal \/ CancelGoal
    PROVE  LiveIsAlone'
<1>1. sprint' = sprint /\ UNCHANGED <<poll, ready>>
  BY DEF StartGoal, StopGoal, ResumeGoal, CancelGoal, GoalCommand, Command
<1>2. GoalSprintWrapsUp \/ UNCHANGED <<sched, waiting, loop>>
  BY DEF StartGoal, StopGoal, ResumeGoal, CancelGoal
<1>3. ASSUME NEW t \in Sprints, Live(t) PROVE Alone(t)'
  <2>1. Alone(t) /\ sched.active = t /\ Workable(t)
    BY <1>3 DEF LiveIsAlone, Alone, Live, Workable
  <2>2. UNCHANGED <<sched, waiting, loop>> \/ (TakesUp(t) /\ sched' = sched)
    BY <1>1, <1>2, <2>1, WrapUpTakesUp
  <2> QED BY <1>1, <2>1, <2>2, TakenUpIsAlone DEF Alone
<1> QED BY <1>1, <1>3 DEF LiveIsAlone, Live

\* As long as no command crosses a held copy, one sprint at most is live, the
\* scheduler knows it and whatever is held is held for it.
LEMMA NextAlone ==
    ASSUME Base, BoundsAssumption, LiveIsAlone, ~crossed', Next
    PROVE  LiveIsAlone'
<1>1. CASE PollStep
  BY <1>1, PollAlone, SourcingAlone, RunAutonomousAlone DEF PollStep
<1>2. CASE ReadyStep \/ Reconnects \/ Crash \/ CrashInStart \/ \E s \in Sprints : TaskResumes(s)
  BY <1>2, ProcessAlone
<1>3. CASE \E site \in Sites : LoopStep(site)
  BY <1>3, LoopStepAlone
<1>4. CASE \E from \in {"service", "cli"} : StartSprint(from) \/ StopSprint(from) \/ RestartSprint(from)
  BY <1>4, SprintCommandAlone
<1>5. CASE StartGoal \/ StopGoal \/ ResumeGoal \/ CancelGoal
  BY <1>5, GoalCommandAlone
<1>6. CASE CrashInMilestone \/ \E site \in Sites, status \in Ended : CrashInEnd(site, status)
  BY <1>6, TornAlone
<1> QED BY <1>1, <1>2, <1>3, <1>4, <1>5, <1>6 DEF Next

-----------------------------------------------------------------------------
(* Goals know their sprints *)

\* Most steps touch neither sprints nor goals, nor begin sourcing.
LEMMA QuietGoals ==
    ASSUME GoalsAreKept, SourcingIsCurrent, sprint' = sprint, goal' = goal, torn' = torn,
           poll' = poll \/ poll'.at # "sourcing"
    PROVE  GoalsAreKept' /\ SourcingIsCurrent'
<1>1. GoalsAreKept'
  BY DEF GoalsAreKept, GoalIsKept, Linked
<1>2. SourcingIsCurrent'
  BY DEF SourcingIsCurrent
<1> QED BY <1>1, <1>2

\* A new sprint without a goal changes no goal.
LEMMA NewIsNoGoals ==
    ASSUME Base, BoundsAssumption, GoalsAreKept, SourcingIsCurrent,
           NEW s \in Sprints, sprint[s] = NoSprint, sprint'[s].goal = 0,
           \A t \in Sprints : t # s => sprint'[t] = sprint[t],
           goal' = goal, torn' = torn, poll' = poll \/ poll'.at # "sourcing"
    PROVE  GoalsAreKept' /\ SourcingIsCurrent'
<1>1. sprint[s].goal = 0
  BY DEF NoSprint
<1>2. ASSUME NEW g \in Goals PROVE GoalIsKept(g)'
  <2>1. g # 0
    BY DEF Goals
  <2>2. Linked(g)' = Linked(g) /\ s \notin Linked(g)
    BY <1>1, <2>1 DEF Linked
  <2>3. \A t \in Linked(g) : sprint'[t] = sprint[t]
    BY <2>2 DEF Linked
  <2> QED BY <2>2, <2>3 DEF GoalsAreKept, GoalIsKept
<1>3. SourcingIsCurrent'
  BY DEF SourcingIsCurrent
<1> QED BY <1>2, <1>3 DEF GoalsAreKept

\* The poll reads the goal it sources for.
LEMMA PollBeginsGoals ==
    ASSUME Base, BoundsAssumption, GoalsAreKept, SourcingIsCurrent,
           NEW due \in BOOLEAN, PollBegins(due)
    PROVE  GoalsAreKept' /\ SourcingIsCurrent'
<1>1. sprint' = sprint /\ goal' = goal /\ torn' = torn
  BY DEF PollBegins
<1>2. CASE sched.active = 0 /\ ActiveGoal # 0
  <2>1. poll' = [Idle EXCEPT !.at = "sourcing", !.goal = ActiveGoal, !.copy = goal[ActiveGoal]]
    BY <1>2 DEF PollBegins
  <2>2. poll'.goal = ActiveGoal /\ poll'.copy = goal[ActiveGoal]
        /\ goal[ActiveGoal].status = "active"
    BY <1>2, <2>1, CurrentGoals DEF Idle
  <2>3. SourcingIsCurrent'
    BY <1>1, <2>2 DEF SourcingIsCurrent
  <2> QED BY <1>1, <2>3 DEF GoalsAreKept, GoalIsKept, Linked
<1>3. CASE ~(sched.active = 0 /\ ActiveGoal # 0)
  <2>1. CASE sched.active # 0
    <3>1. poll' = [Idle EXCEPT !.at = "resuming", !.seen.active = sched.active,
                               !.due = due /\ ~sched.deferred]
      BY <2>1 DEF PollBegins
    <3>2. poll'.at = "resuming"
      BY <3>1 DEF Idle
    <3> QED BY <1>1, <3>2, QuietGoals
  <2>2. CASE sched.active = 0 /\ ActiveGoal = 0 /\ sched.asked
    <3>1. poll' = GoesOn(sched, due) /\ sched \in Scheds
      BY <2>2, Typed DEF PollBegins
    <3>2. poll'.at # "sourcing"
      BY <3>1, PollGoesOn
    <3> QED BY <1>1, <3>2, QuietGoals
  <2>3. CASE sched.active = 0 /\ ActiveGoal = 0 /\ ~sched.asked
    <3>1. poll' = [Idle EXCEPT !.at = "asking", !.seen = sched, !.due = due]
      BY <2>3 DEF PollBegins
    <3>2. poll'.at = "asking"
      BY <3>1 DEF Idle
    <3> QED BY <1>1, <3>2, QuietGoals
  <2> QED BY <1>3, <2>1, <2>2, <2>3
<1> QED BY <1>2, <1>3

\* The sourcer's answer is about the goal as it is.
LEMMA SourcingGoals ==
    ASSUME Base, BoundsAssumption, GoalsAreKept, SourcingIsCurrent, ~crossed', SourcingReturns
    PROVE  GoalsAreKept' /\ SourcingIsCurrent'
<1> DEFINE g == poll.goal
<1>1. /\ goal[g] = poll.copy /\ poll.copy.status = "active" /\ g \in Goals /\ g \in 0..MaxGoals
      /\ goal \in [Goals -> GoalFiles] /\ poll.copy \in GoalFiles /\ g # 0
  BY Typed DEF SourcingIsCurrent, SourcingReturns, Polling, Base, PollHoldsOne, Polls, Goals
<1>2. poll'.at = "idle" /\ torn' = torn
  BY DEF SourcingReturns, PollEnds, Idle
<1>3. SourcingIsCurrent'
  BY <1>2 DEF SourcingIsCurrent
<1>4. PICK verdict \in Verdicts :
         GoalEnds(verdict) \/ MilestoneStarts(verdict) \/ NothingSourced(verdict)
  BY DEF SourcingReturns
<1>5. PICK h : h = g
  OBVIOUS
<1>6. h \in Goals /\ goal[h] \in GoalFiles /\ h # 0 /\ GoalIsKept(h)
  BY <1>1, <1>5 DEF GoalsAreKept
<1>7. CASE GoalEnds(verdict)
  <2>1. /\ goal' = [goal EXCEPT ![h] = [goal[h] EXCEPT !.status = verdict.what]]
        /\ verdict.what \in {"completed", "failed"} /\ sprint' = sprint
    BY <1>1, <1>5, <1>7 DEF GoalEnds, GoalSaved
  <2>2. /\ goal'[h].linked = goal[h].linked /\ goal'[h].outcomes = goal[h].outcomes
        /\ goal'[h].status # "absent" /\ \A f \in Goals : f # h => goal'[f] = goal[f]
    BY <1>1, <1>6, <2>1 DEF GoalFiles
  <2>3. \A f \in Goals : GoalIsKept(f)'
    BY <1>2, <1>6, <2>1, <2>2, <1>1, <1>5 DEF GoalsAreKept, GoalIsKept, Linked
  <2> QED BY <1>3, <2>3 DEF GoalsAreKept
<1>8. CASE NothingSourced(verdict)
  <2>1. goal' = goal /\ sprint' = sprint
    BY <1>1, <1>8 DEF NothingSourced, GoalSaved
  <2> QED BY <1>2, <2>1, QuietGoals
<1>9. CASE MilestoneStarts(verdict)
  <2> PICK s : s = made + 1
    OBVIOUS
  <2>1. Started("goal", g)
    BY <1>9 DEF MilestoneStarts
  <2>2. /\ s \in Sprints /\ sched'.active = s /\ sprint[s] = NoSprint
        /\ sprint'[s] = [status |-> "live", kind |-> "goal", goal |-> h]
        /\ \A t \in Sprints : t # s => sprint'[t] = sprint[t]
    BY <1>1, <1>5, <2>1, StartedSprint
  <2>3. goal' = [goal EXCEPT ![h] = [goal[h] EXCEPT !.linked = @ \cup {s}]]
    BY <1>1, <1>5, <1>9, <2>2 DEF MilestoneStarts, GoalSaved
  <2>4. /\ goal'[h].linked = goal[h].linked \cup {s} /\ goal'[h].outcomes = goal[h].outcomes
        /\ goal'[h].status = "active" /\ \A f \in Goals : f # h => goal'[f] = goal[f]
    BY <1>1, <1>5, <1>6, <2>3 DEF GoalFiles
  <2>5. sprint'[s].goal = h /\ sprint'[s].status = "live" /\ sprint[s].goal = 0
    BY <2>2 DEF NoSprint
  <2>6. Linked(h)' = Linked(h) \cup {s}
    BY <2>2, <2>5 DEF Linked
  <2>7. GoalIsKept(h)'
    <3>1. \A t \in (Linked(h) \ torn)' : sprint'[t].status \in Ended => t \in goal'[h].outcomes
      BY <1>2, <1>6, <2>2, <2>4, <2>5, <2>6 DEF GoalIsKept, Linked, Ended
    <3> QED BY <1>2, <1>6, <2>4, <2>6, <3>1 DEF GoalIsKept
  <2>8. ASSUME NEW f \in Goals, f # h PROVE GoalIsKept(f)'
    <3>1. f # 0
      BY DEF Goals
    <3>2. Linked(f)' = Linked(f) /\ s \notin Linked(f)
      BY <2>2, <2>5, <2>8, <3>1 DEF Linked
    <3>3. \A t \in Linked(f) : sprint'[t] = sprint[t]
      BY <2>2, <3>2 DEF Linked
    <3> QED BY <1>2, <2>4, <2>8, <3>2, <3>3 DEF GoalsAreKept, GoalIsKept
  <2> QED BY <1>3, <2>7, <2>8 DEF GoalsAreKept
<1> QED BY <1>4, <1>7, <1>8, <1>9

\* A sprint's loop saves the outcome with the goal that knows the sprint.
LEMMA LoopStepGoals ==
    ASSUME Base, BoundsAssumption, Uncrossing, ~crossed', NEW site \in Sites, LoopStep(site)
    PROVE  GoalsAreKept' /\ SourcingIsCurrent'
<1>s. PICK s : s = loop[site].sprint
  OBVIOUS
<1>g. PICK g : g = sprint[s].goal
  OBVIOUS
<1>1. /\ s \in Sprints /\ sprint[s].status # "absent" /\ g \in 0..MaxGoals
      /\ sprint \in [Sprints -> SprintFiles] /\ goal \in [Goals -> GoalFiles]
      /\ poll \in Polls /\ MaxGoals \in Nat
  <2>1. loop[site].at \in {"working", "reporting"}
    BY DEF LoopStep, LoopReturns, LoopEnds, LoopReported
  <2>2. loop[site] # NoLoop
    BY <2>1 DEF NoLoop
  <2>3. s \in Sprints /\ sprint[s].status # "absent"
    BY <1>s, <2>2 DEF Base, LoopsHaveFiles, LoopHasFile
  <2> QED BY <1>g, <2>3, Typed DEF SprintFiles
<1>2. GoalsAreKept /\ SourcingIsCurrent /\ LiveIsAlone
  BY DEF Uncrossing
<1>3. CASE LoopReturns(site) \/ LoopReported(site)
  <2>1. sprint' = sprint /\ goal' = goal /\ torn' = torn /\ (poll' = poll \/ poll' = Idle)
    BY <1>3 DEF LoopReturns, LoopReported, LoopIsOver
  <2>2. poll' = poll \/ poll'.at # "sourcing"
    BY <2>1 DEF Idle
  <2> QED BY <1>2, <2>1, <2>2, QuietGoals
<1>4. ASSUME NEW status \in Ended, LoopEnds(site, status)
      PROVE  GoalsAreKept' /\ SourcingIsCurrent'
  <2>1. /\ sprint' = [sprint EXCEPT ![s].status = status]
        /\ goal' = IF g = 0 THEN goal
                   ELSE [goal EXCEPT ![g].outcomes = @ \cup {s}, ![g].linked = @ \cup {s}]
        /\ poll' = poll /\ torn' = torn \ {s}
    BY <1>s, <1>g, <1>4 DEF LoopEnds, OutcomeRecorded
  <2>2. /\ sprint'[s].status = status /\ sprint'[s].goal = sprint[s].goal
        /\ \A t \in Sprints : t # s => sprint'[t] = sprint[t]
    BY <1>1, <2>1 DEF SprintFiles
  <2>3. \A f \in Goals : Linked(f)' = Linked(f)
    BY <2>2 DEF Linked
  <2>4. sprint[s].goal = g
    BY <1>g
  <2>5. ASSUME NEW f \in Goals, f # g PROVE GoalIsKept(f)'
    <3>1. goal'[f] = goal[f]
      BY <1>1, <2>1, <2>5
    <3>2. s \notin Linked(f) /\ GoalIsKept(f) /\ Linked(f)' = Linked(f)
      BY <1>2, <2>3, <2>4, <2>5 DEF Linked, GoalsAreKept
    <3>3. \A t \in Linked(f) : sprint'[t] = sprint[t]
      BY <2>2, <3>2 DEF Linked
    <3> QED BY <2>1, <3>1, <3>2, <3>3 DEF GoalIsKept
  <2>6. ASSUME g # 0 PROVE GoalIsKept(g)'
    <3>1. g \in Goals
      BY <1>1, <2>6 DEF Goals
    <3>2. GoalIsKept(g) /\ goal[g] \in GoalFiles /\ s \in Linked(g)
      BY <1>1, <1>2, <2>4, <3>1 DEF GoalsAreKept, Linked
    <3>3. /\ goal'[g].outcomes = goal[g].outcomes \cup {s}
          /\ goal'[g].linked = goal[g].linked \cup {s} /\ goal'[g].status = goal[g].status
      BY <1>1, <2>1, <2>6, <3>1 DEF GoalFiles
    <3>4. goal[g].status # "absent"
      BY <3>2 DEF GoalIsKept
    <3>5. \A t \in Linked(g) \ torn' : sprint'[t].status \in Ended => t \in goal'[g].outcomes
      BY <2>1, <2>2, <3>2, <3>3 DEF GoalIsKept, Linked
    <3>6. /\ goal'[g].linked \subseteq Linked(g)'
          /\ Linked(g)' \subseteq goal'[g].linked \cup torn'
      BY <2>1, <2>3, <3>1, <3>2, <3>3 DEF GoalIsKept
    <3> QED BY <2>3, <3>1, <3>3, <3>4, <3>5, <3>6 DEF GoalIsKept
  <2>7. GoalsAreKept'
    BY <2>5, <2>6 DEF GoalsAreKept, Goals
  <2>8. SourcingIsCurrent'
    <3>1. poll.at = "sourcing" => goal' = goal
      BY <1>4 DEF LoopEnds, Polling
    <3> QED BY <1>2, <2>1, <3>1 DEF SourcingIsCurrent
  <2> QED BY <2>7, <2>8
<1> QED BY <1>3, <1>4 DEF LoopStep

\* What a crash tears apart is remembered as torn.
LEMMA TornGoals ==
    ASSUME Base, BoundsAssumption, Uncrossing,
           CrashInMilestone \/ \E site \in Sites, status \in Ended : CrashInEnd(site, status)
    PROVE  GoalsAreKept' /\ SourcingIsCurrent'
<1>1. /\ sprint \in [Sprints -> SprintFiles] /\ goal \in [Goals -> GoalFiles] /\ poll \in Polls
      /\ GoalsAreKept /\ SourcingIsCurrent
  BY Typed DEF Uncrossing
<1>2. CASE CrashInMilestone
  <2> PICK s, h : s = made + 1 /\ h = poll.goal
    OBVIOUS
  <2>1. /\ Started("goal", h) /\ Torn(s) /\ ProcessRestarted /\ goal' = goal
        /\ h \in Goals /\ h \in 0..MaxGoals /\ h # 0 /\ goal[h].status = "active"
    BY <1>1, <1>2 DEF CrashInMilestone, Polling, SourcingIsCurrent, Base, PollHoldsOne, Polls, Goals
  <2>2. /\ s \in Sprints /\ sprint[s] = NoSprint
        /\ sprint'[s] = [status |-> "live", kind |-> "goal", goal |-> h]
        /\ \A t \in Sprints : t # s => sprint'[t] = sprint[t]
    BY <2>1, StartedSprint
  <2>3. sprint'[s].goal = h /\ sprint'[s].status = "live" /\ sprint[s].goal = 0
    BY <2>2 DEF NoSprint
  <2>4. torn' = torn \cup {s}
    BY <2>1, <2>3 DEF Torn
  <2>5. ASSUME NEW f \in Goals PROVE GoalIsKept(f)'
    <3>1. GoalIsKept(f) /\ f # 0
      BY <1>1 DEF GoalsAreKept, Goals
    <3>2. Linked(f) \subseteq Linked(f)' /\ Linked(f)' \subseteq Linked(f) \cup {s}
      BY <2>2, <2>3, <3>1 DEF Linked
    <3>3. f # h => Linked(f)' = Linked(f)
      BY <2>2, <2>3, <3>1 DEF Linked
    <3>4. \A t \in Linked(f)' \ torn' : t \in Linked(f) \ torn /\ sprint'[t] = sprint[t]
      BY <2>2, <2>4, <3>2 DEF Linked
    <3>5. goal'[f].status = "absent" => goal'[f] = NoGoal /\ Linked(f)' = {}
      BY <2>1, <3>1, <3>3 DEF GoalIsKept
    <3>6. \A t \in Linked(f)' \ torn' : sprint'[t].status \in Ended => t \in goal'[f].outcomes
      BY <2>1, <3>1, <3>4 DEF GoalIsKept
    <3>7. goal'[f].linked \subseteq Linked(f)' /\ Linked(f)' \subseteq goal'[f].linked \cup torn'
      BY <2>1, <2>4, <3>1, <3>2 DEF GoalIsKept
    <3> QED BY <3>5, <3>6, <3>7 DEF GoalIsKept
  <2>6. poll'.at = "idle"
    BY <2>1, RestartedHolds
  <2> QED BY <2>5, <2>6 DEF GoalsAreKept, SourcingIsCurrent
<1>3. ASSUME NEW site \in Sites, NEW status \in Ended, CrashInEnd(site, status)
      PROVE  GoalsAreKept' /\ SourcingIsCurrent'
  <2> PICK s : s = loop[site].sprint
    OBVIOUS
  <2>1. loop[site] # NoLoop
    BY <1>3 DEF CrashInEnd, NoLoop
  <2>2. s \in Sprints
    BY <2>1 DEF Base, LoopsHaveFiles, LoopHasFile
  <2>3. sprint' = [sprint EXCEPT ![s].status = status] /\ Torn(s) /\ goal' = goal
    BY <1>3 DEF CrashInEnd
  <2>4. /\ sprint'[s].goal = sprint[s].goal
        /\ \A t \in Sprints : t # s => sprint'[t] = sprint[t]
    BY <1>1, <2>2, <2>3 DEF SprintFiles
  <2>5. torn \subseteq torn' /\ (sprint[s].goal # 0 => s \in torn')
    BY <2>3, <2>4 DEF Torn
  <2>6. ASSUME NEW f \in Goals PROVE GoalIsKept(f)'
    <3>1. GoalIsKept(f) /\ f # 0 /\ Linked(f)' = Linked(f)
      BY <1>1, <2>4 DEF GoalsAreKept, Goals, Linked
    <3>2. \A t \in Linked(f) \ torn' : t \notin torn /\ sprint'[t] = sprint[t]
      BY <2>4, <2>5, <3>1 DEF Linked
    <3> QED BY <2>3, <2>5, <3>1, <3>2 DEF GoalIsKept
  <2>7. poll' = poll \/ poll'.at = "idle"
    BY <1>3, RestartedHolds DEF CrashInEnd
  <2>8. SourcingIsCurrent'
    BY <1>1, <2>3, <2>7 DEF SourcingIsCurrent
  <2> QED BY <2>6, <2>8 DEF GoalsAreKept
<1> QED BY <1>2, <1>3

\* A command starts a sprint without a goal, or changes no file.
LEMMA SprintCommandGoals ==
    ASSUME Base, BoundsAssumption, GoalsAreKept, SourcingIsCurrent, NEW from \in {"service", "cli"},
           StartSprint(from) \/ StopSprint(from) \/ RestartSprint(from)
    PROVE  GoalsAreKept' /\ SourcingIsCurrent'
<1>1. poll' = poll /\ goal' = goal /\ torn' = torn
  BY DEF StartSprint, StopSprint, RestartSprint, Command
<1>2. CASE StartSprint(from)
  <2> PICK s : s = made + 1
    OBVIOUS
  <2>1. 0 \in 0..MaxGoals /\ Started("manual", 0)
    BY <1>2 DEF BoundsAssumption, StartSprint
  <2>2. /\ s \in Sprints /\ sprint[s] = NoSprint
        /\ sprint'[s] = [status |-> "live", kind |-> "manual", goal |-> 0]
        /\ \A t \in Sprints : t # s => sprint'[t] = sprint[t]
    BY <2>1, StartedSprint
  <2>3. sprint'[s].goal = 0
    BY <2>2
  <2> QED BY <1>1, <2>2, <2>3, NewIsNoGoals
<1>3. CASE StopSprint(from) \/ RestartSprint(from)
  <2>1. sprint' = sprint
    BY <1>3 DEF StopSprint, RestartSprint
  <2> QED BY <1>1, <2>1, QuietGoals
<1> QED BY <1>2, <1>3

\* The poll's own start changes no goal.
LEMMA RunAutonomousGoals ==
    ASSUME Base, BoundsAssumption, GoalsAreKept, SourcingIsCurrent,
           NEW backlogReady \in BOOLEAN, RunAutonomous(backlogReady)
    PROVE  GoalsAreKept' /\ SourcingIsCurrent'
<1> PICK s : s = made + 1
  OBVIOUS
<1>1. /\ s \in Sprints /\ made' = made + 1 /\ goal' = goal /\ torn' = torn /\ 0 \in 0..MaxGoals
      /\ sprint' = [sprint EXCEPT ![made + 1] = [status |-> "live", kind |-> "auto", goal |-> 0]]
      /\ poll' = [Idle EXCEPT !.at = "auto"]
  BY DEF RunAutonomous, BoundsAssumption
<1>2. /\ sprint[s] = NoSprint /\ sprint'[s] = [status |-> "live", kind |-> "auto", goal |-> 0]
      /\ \A t \in Sprints : t # s => sprint'[t] = sprint[t]
  BY <1>1, StartedFiles
<1>3. sprint'[s].goal = 0 /\ poll'.at # "sourcing"
  BY <1>1, <1>2 DEF Idle
<1> QED BY <1>1, <1>2, <1>3, NewIsNoGoals

\* Commands on goals come while nothing is sourced.
LEMMA GoalCommandGoals ==
    ASSUME Base, BoundsAssumption, GoalsAreKept, SourcingIsCurrent, ~crossed',
           StartGoal \/ StopGoal \/ ResumeGoal \/ CancelGoal
    PROVE  GoalsAreKept' /\ SourcingIsCurrent'
<1>1. sprint' = sprint /\ poll' = poll /\ torn' = torn /\ poll.at # "sourcing"
  BY DEF StartGoal, StopGoal, ResumeGoal, CancelGoal, GoalCommand, Command, Polling
<1>2. goal \in [Goals -> GoalFiles] /\ \A f \in Goals : Linked(f)' = Linked(f)
  BY <1>1, Typed DEF Linked
<1>3. SourcingIsCurrent'
  BY <1>1 DEF SourcingIsCurrent
<1>4. CASE StartGoal
  <2>1. PICK g \in Goals : /\ goal[g].status = "absent"
                           /\ goal' = [goal EXCEPT ![g] = [NoGoal EXCEPT !.status = "active"]]
    BY <1>4 DEF StartGoal, GoalSaved
  <2>2. goal[g] = NoGoal
    BY <2>1 DEF GoalsAreKept, GoalIsKept
  <2>3. /\ goal'[g].linked = goal[g].linked /\ goal'[g].outcomes = goal[g].outcomes
        /\ goal'[g].status = "active" /\ \A f \in Goals : f # g => goal'[f] = goal[f]
    BY <1>2, <2>1, <2>2 DEF NoGoal
  <2>4. \A f \in Goals : GoalIsKept(f)'
    BY <1>1, <1>2, <2>3 DEF GoalsAreKept, GoalIsKept
  <2> QED BY <1>3, <2>4 DEF GoalsAreKept
<1>5. ASSUME NEW status \in {"paused", "active", "cancelled"}, GoalCommand(status)
      PROVE  GoalsAreKept'
  <2> PICK g : g = CurrentGoal
    OBVIOUS
  <2>1. g \in Goals /\ goal' = [goal EXCEPT ![g] = [goal[g] EXCEPT !.status = status]]
    BY <1>5, CurrentGoals DEF GoalCommand, GoalSaved
  <2>2. /\ goal'[g].linked = goal[g].linked /\ goal'[g].outcomes = goal[g].outcomes
        /\ goal'[g].status = status /\ \A f \in Goals : f # g => goal'[f] = goal[f]
    BY <1>2, <2>1 DEF GoalFiles
  <2>3. \A f \in Goals : GoalIsKept(f)'
    BY <1>1, <1>2, <2>2 DEF GoalsAreKept, GoalIsKept
  <2> QED BY <2>3 DEF GoalsAreKept
<1>6. CASE StopGoal \/ ResumeGoal \/ CancelGoal
  BY <1>3, <1>5, <1>6 DEF StopGoal, ResumeGoal, CancelGoal
<1> QED BY <1>4, <1>6

\* As long as no command crosses a held copy, goals know their sprints and the
\* sourcer's copy is the goal.
LEMMA NextGoals ==
    ASSUME Base, BoundsAssumption, Uncrossing, ~crossed', Next
    PROVE  GoalsAreKept' /\ SourcingIsCurrent'
<1>0. GoalsAreKept /\ SourcingIsCurrent
  BY DEF Uncrossing
<1>1. CASE PollStep
  <2>1. CASE PollResumes \/ NothingSelected \/ \E sent \in BOOLEAN : Asked(sent)
    <3>1. sprint' = sprint /\ goal' = goal /\ torn' = torn
      BY <2>1 DEF PollResumes, NothingSelected, Asked
    <3>2. CASE PollResumes
      <4>1. poll' = Idle \/ poll' = [poll EXCEPT !.at = "resumed"]
        BY <3>2 DEF PollResumes, PollEnds, GoPoll
      <4>2. poll'.at # "sourcing"
        BY <4>1, Typed DEF Idle, Polls
      <4> QED BY <1>0, <3>1, <4>2, QuietGoals
    <3>3. CASE NothingSelected
      <4>1. poll'.at # "sourcing"
        BY <3>3 DEF NothingSelected, PollEnds, Idle
      <4> QED BY <1>0, <3>1, <4>1, QuietGoals
    <3>4. ASSUME NEW sent \in BOOLEAN, Asked(sent) PROVE GoalsAreKept' /\ SourcingIsCurrent'
      <4>1. poll \in Polls /\ sched \in Scheds
        BY Typed
      <4>2. sched' \in Scheds /\ poll.due \in BOOLEAN /\ poll' = GoesOn(sched', poll.due)
        BY <3>4, <4>1 DEF Asked, Polls, Scheds
      <4>3. poll'.at # "sourcing"
        BY <4>2, PollGoesOn
      <4> QED BY <1>0, <3>1, <4>3, QuietGoals
    <3> QED BY <2>1, <3>2, <3>3, <3>4
  <2> QED BY <1>0, <1>1, <2>1, PollBeginsGoals, SourcingGoals, RunAutonomousGoals DEF PollStep
<1>2. CASE ReadyStep \/ Reconnects \/ Crash \/ CrashInStart \/ \E s \in Sprints : TaskResumes(s)
  <2>1. sprint' = sprint /\ goal' = goal /\ torn' = torn /\ (poll' = poll \/ poll' = Idle)
    BY <1>2 DEF ReadyStep, OnReady, ReadyAsked, Reconnects, Crash, CrashInStart, TaskResumes,
                ProcessRestarted
  <2>2. poll' = poll \/ poll'.at # "sourcing"
    BY <2>1 DEF Idle
  <2> QED BY <1>0, <2>1, <2>2, QuietGoals
<1>3. CASE \E site \in Sites : LoopStep(site)
  BY <1>3, LoopStepGoals
<1>4. CASE \E from \in {"service", "cli"} : StartSprint(from) \/ StopSprint(from) \/ RestartSprint(from)
  BY <1>0, <1>4, SprintCommandGoals
<1>5. CASE StartGoal \/ StopGoal \/ ResumeGoal \/ CancelGoal
  BY <1>0, <1>5, GoalCommandGoals
<1>6. CASE CrashInMilestone \/ \E site \in Sites, status \in Ended : CrashInEnd(site, status)
  BY <1>6, TornGoals
<1> QED BY <1>1, <1>2, <1>3, <1>4, <1>5, <1>6 DEF Next

-----------------------------------------------------------------------------
(* The invariant, and the theorems *)

\* What was crossed stays crossed.
LEMMA CrossedStays ==
    ASSUME Next, ~crossed'
    PROVE  ~crossed
<1>1. CASE PollStep
  BY <1>1 DEF PollStep, PollBegins, PollResumes, Asked, SourcingReturns, GoalEnds,
     MilestoneStarts, NothingSourced, NothingSelected, RunAutonomous
<1>2. CASE ReadyStep \/ Reconnects \/ Crash \/ CrashInStart \/ \E s \in Sprints : TaskResumes(s)
  BY <1>2 DEF ReadyStep, OnReady, ReadyAsked, Reconnects, Crash, CrashInStart, TaskResumes
<1>3. CASE \E site \in Sites : LoopStep(site)
  BY <1>3 DEF LoopStep, LoopReturns, LoopEnds, LoopReported
<1>4. CASE \E from \in {"service", "cli"} : StartSprint(from) \/ StopSprint(from) \/ RestartSprint(from)
  BY <1>4 DEF StartSprint, StopSprint, RestartSprint
<1>5. CASE StartGoal \/ StopGoal \/ ResumeGoal \/ CancelGoal
  BY <1>5 DEF StartGoal, StopGoal, ResumeGoal, CancelGoal, GoalCommand
<1>6. CASE CrashInMilestone \/ \E site \in Sites, status \in Ended : CrashInEnd(site, status)
  BY <1>6 DEF CrashInMilestone, CrashInEnd
<1> QED BY <1>1, <1>2, <1>3, <1>4, <1>5, <1>6 DEF Next

\* Nothing is held and no file exists when the process first starts.
LEMMA InitHolds ==
    ASSUME Init, BoundsAssumption
    PROVE  IInv
<1>1. /\ NoSched \in Scheds /\ NoGoal \in GoalFiles /\ NoSprint \in SprintFiles
      /\ NoLoop \in Loops /\ Idle \in Polls /\ Idle.at = "idle"
  <2>1. NoSched \in Scheds /\ NoGoal \in GoalFiles
    BY DEF NoSched, Scheds, NoGoal, GoalFiles, BoundsAssumption
  <2>2. NoSprint \in SprintFiles /\ NoLoop \in Loops
    BY DEF NoSprint, SprintFiles, NoLoop, Loops, BoundsAssumption
  <2>3. Idle \in Polls /\ Idle.at = "idle"
    BY <2>1 DEF Idle, Polls, BoundsAssumption
  <2> QED BY <2>1, <2>2, <2>3
<1>2. /\ {0} \subseteq 0..MaxSprints /\ {0} \subseteq 0..MaxGoals /\ {0} \subseteq 0..MaxEvents
  BY DEF BoundsAssumption
<1>3. PollHoldsOne /\ poll.at = "idle"
  BY <1>1 DEF Init, PollHoldsOne
<1>4. sprint \in [Sprints -> SprintFiles] /\ goal \in [Goals -> GoalFiles]
      /\ loop \in [Sites -> Loops]
  BY <1>1 DEF Init
<1>5. ready \in [at : {"idle", "starting", "asking"}, seen : Scheds]
  BY <1>1 DEF Init
<1>6. TypeOK
  BY <1>1, <1>2, <1>3, <1>4, <1>5 DEF Init, TypeOK, PollHoldsOne, Polls, Loops
<1>7. LoopsHaveFiles /\ IdsAreFresh
  BY DEF Init, LoopsHaveFiles, LoopHasFile, IdsAreFresh
<1>8. LiveIsAlone
  BY DEF Init, LiveIsAlone, Live, NoSprint
<1>9. GoalsAreKept
  BY DEF Init, GoalsAreKept, GoalIsKept, Linked, NoSprint, NoGoal, Goals
<1>10. SourcingIsCurrent
  BY <1>3 DEF SourcingIsCurrent
<1> QED BY <1>3, <1>6, <1>7, <1>8, <1>9, <1>10 DEF IInv, Base, Uncrossing

\* Every step keeps the invariant.
LEMMA StepHolds ==
    ASSUME IInv, BoundsAssumption, [Next]_vars
    PROVE  IInv'
<1>1. CASE Next
  <2>1. Base'
    BY <1>1, NextBase DEF IInv
  <2>2. ASSUME ~crossed' PROVE Uncrossing'
    <3>1. Base /\ Uncrossing /\ LiveIsAlone
      BY <1>1, <2>2, CrossedStays DEF IInv, Uncrossing
    <3> QED BY <1>1, <2>2, <3>1, NextAlone, NextGoals DEF Uncrossing
  <2> QED BY <2>1, <2>2 DEF IInv
<1>2. CASE UNCHANGED vars
  <2> USE <1>2 DEF vars
  <2>1. TypeOK'
    BY DEF IInv, Base, TypeOK
  <2>2. PollHoldsOne' /\ LoopsHaveFiles' /\ IdsAreFresh'
    BY DEF IInv, Base, PollHoldsOne, LoopsHaveFiles, LoopHasFile, IdsAreFresh
  <2>3. ASSUME Uncrossing PROVE Uncrossing'
    <3>1. LiveIsAlone'
      BY <2>3 DEF Uncrossing, LiveIsAlone, Live, Alone
    <3>2. GoalsAreKept' /\ SourcingIsCurrent'
      BY <2>3, QuietGoals DEF Uncrossing
    <3> QED BY <3>1, <3>2 DEF Uncrossing
  <2> QED BY <2>1, <2>2, <2>3 DEF IInv, Base
<1> QED BY <1>1, <1>2

\* The inductive invariant: types and files always; and, as long as no command
\* has crossed a held copy, the live sprint is alone, goals know their sprints
\* and the sourcer's copy of a goal is the goal.
THEOREM InvariantHolds == Spec => []IInv
<1> USE BoundsAssumption
<1>1. Init => IInv
  BY InitHolds
<1>2. IInv /\ [Next]_vars => IInv'
  BY StepHolds
<1> QED BY <1>1, <1>2, PTL DEF Spec

\* The scheduler's state, the goals and the sprints' files tell of the same
\* sprints, through starts, crashes, restarts and resumptions, as long as no
\* command crosses a held copy; a goal may lack a sprint that a crash separated
\* it from and that did not end since: resume_active_sprint,
\* record_goal_sprint_outcome and _start_goal_sourced_sprint.
THEOREM SprintsStayKnown == Spec => []SprintsAreKnown
<1>1. IInv => SprintsAreKnown
  <2> SUFFICES ASSUME IInv PROVE SprintsAreKnown
    OBVIOUS
  <2>1. TypeOK
    BY DEF IInv, Base
  <2>2. SprintIsKnown
    BY DEF IInv, Uncrossing, LiveIsAlone, Alone, SprintIsKnown
  <2>3. GoalKnowsItsSprints
    <3>1. ASSUME ~crossed, NEW g \in Goals
          PROVE  LET own == {s \in Sprints : sprint[s].goal = g} IN
                 /\ goal[g].linked \subseteq own /\ own \subseteq goal[g].linked \cup torn
                 /\ \A s \in own \ torn : sprint[s].status \in Ended => s \in goal[g].outcomes
      BY <3>1 DEF IInv, Uncrossing, GoalsAreKept, GoalIsKept, Linked
    <3> QED BY <3>1 DEF GoalKnowsItsSprints
  <2> QED BY <2>1, <2>2, <2>3 DEF SprintsAreKnown
<1> QED BY <1>1, InvariantHolds, PTL

\* The one step that starts a sprint for a goal is the sourcer's, and its copy
\* of the goal is the goal, which is active.
LEMMA StepSources ==
    ASSUME IInv, BoundsAssumption, Next, ~crossed'
    PROVE  SourcedWhileActive
<1>1. Base /\ SourcingIsCurrent
  BY CrossedStays DEF IInv, Uncrossing
<1>2. ASSUME NEW s \in Sprints, Live(s)', ~Live(s), sprint'[s].kind = "goal",
             sprint[s].kind = "none"
      PROVE  goal[sprint'[s].goal].status = "active"
  <2>1. CASE SourcingReturns
    <3>1. PICK verdict \in Verdicts :
             GoalEnds(verdict) \/ MilestoneStarts(verdict) \/ NothingSourced(verdict)
      BY <2>1 DEF SourcingReturns
    <3>2. sprint' # sprint
      BY <1>2 DEF Live
    <3>3. MilestoneStarts(verdict) /\ Started("goal", poll.goal) /\ poll.goal \in 0..MaxGoals
      BY <1>1, <3>1, <3>2, Typed DEF GoalEnds, MilestoneStarts, NothingSourced, Polls
    <3>4. PICK t : t = made + 1
      OBVIOUS
    <3>5. /\ sprint'[t] = [status |-> "live", kind |-> "goal", goal |-> poll.goal]
          /\ \A u \in Sprints : u # t => sprint'[u] = sprint[u]
      BY <1>1, <3>3, <3>4, StartedSprint
    <3>6. s = t
      BY <1>2, <3>5 DEF Live
    <3>7. sprint'[s].goal = poll.goal
      BY <3>5, <3>6
    <3>8. goal[poll.goal].status = "active"
      BY <1>1, <2>1 DEF SourcingIsCurrent, SourcingReturns, Polling
    <3> QED BY <3>7, <3>8
  <2>2. CASE (\E backlogReady \in BOOLEAN : RunAutonomous(backlogReady))
             \/ \E from \in {"service", "cli"} : StartSprint(from)
    <3>1. PICK t : t = made + 1
      OBVIOUS
    <3>2. /\ t \in Sprints /\ sprint \in [Sprints -> SprintFiles]
          /\ \/ sprint' = [sprint EXCEPT ![t] = [status |-> "live", kind |-> "auto", goal |-> 0]]
             \/ sprint' = [sprint EXCEPT ![t] = [status |-> "live", kind |-> "manual", goal |-> 0]]
      BY <1>1, <2>2, <3>1, Typed DEF RunAutonomous, StartSprint, Started, Sprints
    <3>3. sprint'[s] = sprint[s] \/ sprint'[s].kind \in {"auto", "manual"}
      BY <1>2, <3>2
    <3> QED BY <1>2, <3>3 DEF Live
  <2>3. CASE \E site \in Sites : LoopStep(site)
    <3>1. PICK site \in Sites : LoopStep(site)
      BY <2>3
    <3>2. sprint' # sprint
      BY <1>2 DEF Live
    <3>3. PICK status \in Ended : LoopEnds(site, status)
      BY <3>1, <3>2 DEF LoopStep, LoopReturns, LoopReported
    <3>4. PICK t : sprint' = [sprint EXCEPT ![t].status = status]
      BY <3>3 DEF LoopEnds
    <3>5. sprint'[s] = sprint[s] \/ sprint'[s].status = status
      BY <1>1, <1>2, <3>4, Typed DEF SprintFiles
    <3> QED BY <1>2, <3>5 DEF Live, Ended
  <2>4. CASE sprint' = sprint
    BY <1>2, <2>4 DEF Live
  <2>6. CASE CrashInMilestone
    <3>1. PICK t : t = made + 1
      OBVIOUS
    <3>2. Started("goal", poll.goal) /\ poll.goal \in 0..MaxGoals
      BY <1>1, <2>6, Typed DEF CrashInMilestone, Polls
    <3>3. /\ sprint'[t] = [status |-> "live", kind |-> "goal", goal |-> poll.goal]
          /\ \A u \in Sprints : u # t => sprint'[u] = sprint[u]
      BY <1>1, <3>1, <3>2, StartedSprint
    <3>4. s = t
      BY <1>2, <3>3 DEF Live
    <3>5. sprint'[s].goal = poll.goal
      BY <3>3, <3>4
    <3>6. goal[poll.goal].status = "active"
      BY <1>1, <2>6 DEF SourcingIsCurrent, CrashInMilestone, Polling
    <3> QED BY <3>5, <3>6
  <2>7. CASE \E site \in Sites, status \in Ended : CrashInEnd(site, status)
    <3>1. PICK site \in Sites, status \in Ended : CrashInEnd(site, status)
      BY <2>7
    <3>2. PICK t : sprint' = [sprint EXCEPT ![t].status = status]
      BY <3>1 DEF CrashInEnd
    <3>3. sprint'[s] = sprint[s] \/ sprint'[s].status = status
      BY <1>1, <1>2, <3>2, Typed DEF SprintFiles
    <3> QED BY <1>2, <3>3 DEF Live, Ended
  <2>5. SourcingReturns \/ (\E backlogReady \in BOOLEAN : RunAutonomous(backlogReady))
        \/ (\E from \in {"service", "cli"} : StartSprint(from))
        \/ (\E site \in Sites : LoopStep(site)) \/ sprint' = sprint \/ CrashInMilestone
        \/ (\E site \in Sites, status \in Ended : CrashInEnd(site, status))
    BY DEF Next, PollStep, PollBegins, PollResumes, Asked, NothingSelected, ReadyStep, OnReady,
       ReadyAsked, Reconnects, Crash, CrashInStart, TaskResumes, StopSprint, RestartSprint,
       StartGoal, StopGoal, ResumeGoal, CancelGoal, GoalCommand
  <2> QED BY <2>1, <2>2, <2>3, <2>4, <2>5, <2>6, <2>7
<1> QED BY <1>2 DEF SourcedWhileActive

\* A goal that is over is not what the pointer or the sourcer's copy is.
LEMMA StepKeepsTerminal ==
    ASSUME IInv, BoundsAssumption, Next, ~crossed'
    PROVE  TerminalIsTerminal
<1>1. Base /\ SourcingIsCurrent /\ goal \in [Goals -> GoalFiles]
  BY CrossedStays, Typed DEF IInv, Uncrossing
<1>2. ASSUME NEW g \in Goals, goal[g].status \in TerminalGoal
      PROVE  goal'[g].status = goal[g].status
  <2>1. CASE SourcingReturns
    <3>1. /\ goal[poll.goal] = poll.copy /\ poll.copy.status = "active"
          /\ poll.goal # g
      BY <1>1, <1>2, <2>1 DEF SourcingIsCurrent, SourcingReturns, Polling, TerminalGoal
    <3>2. PICK file : goal' = goal \/ goal' = [goal EXCEPT ![poll.goal] = file]
      BY <2>1 DEF SourcingReturns, GoalEnds, MilestoneStarts, NothingSourced, GoalSaved
    <3> QED BY <1>1, <3>1, <3>2
  <2>2. CASE \E site \in Sites : LoopStep(site)
    <3>1. PICK site \in Sites : LoopStep(site)
      BY <2>2
    <3>2. PICK h, s : goal' = goal
            \/ goal' = [goal EXCEPT ![h].outcomes = @ \cup {s}, ![h].linked = @ \cup {s}]
      BY <3>1 DEF LoopStep, LoopReturns, LoopReported, LoopEnds, OutcomeRecorded
    <3> QED BY <1>1, <3>2 DEF GoalFiles
  <2>3. CASE StartGoal
    <3>1. PICK h \in Goals : goal[h].status = "absent"
                             /\ goal' = [goal EXCEPT ![h] = [NoGoal EXCEPT !.status = "active"]]
      BY <2>3 DEF StartGoal, GoalSaved
    <3>2. h # g
      BY <1>2, <3>1 DEF TerminalGoal
    <3> QED BY <1>1, <3>1, <3>2
  <2>4. CASE StopGoal \/ ResumeGoal \/ CancelGoal
    <3>1. PICK status : GoalCommand(status)
      BY <2>4 DEF StopGoal, ResumeGoal, CancelGoal
    <3>2. CurrentGoal # g
      BY <1>1, <1>2, <3>1, CurrentGoals DEF GoalCommand, TerminalGoal
    <3>3. PICK file : goal' = [goal EXCEPT ![CurrentGoal] = file]
      BY <3>1 DEF GoalCommand, GoalSaved
    <3> QED BY <1>1, <3>2, <3>3
  <2>5. goal' = goal \/ SourcingReturns \/ (\E site \in Sites : LoopStep(site)) \/ StartGoal
        \/ StopGoal \/ ResumeGoal \/ CancelGoal
    BY DEF Next, PollStep, PollBegins, PollResumes, Asked, NothingSelected, RunAutonomous,
       ReadyStep, OnReady, ReadyAsked, Reconnects, Crash, CrashInStart, CrashInMilestone,
       CrashInEnd, TaskResumes, StartSprint, StopSprint, RestartSprint
  <2> QED BY <2>1, <2>2, <2>3, <2>4, <2>5
<1> QED BY <1>2 DEF TerminalIsTerminal

\* operations_guide.md:65: no sprint is sourced for a goal that is not active,
\* and a goal that is over stays as it ended (_handle_goal_sourcing_result,
\* pause_active_goal, cancel_active_goal), as long as no command comes while the
\* sourcer runs.
THEOREM GoalsAreObeyed == Spec => GoalIsObeyed
<1> USE BoundsAssumption
<1>1. IInv /\ [Next]_vars => [~crossed' => SourcedWhileActive /\ TerminalIsTerminal]_vars
  BY StepSources, StepKeepsTerminal
<1> QED BY <1>1, InvariantHolds, PTL DEF Spec, GoalIsObeyed

-----------------------------------------------------------------------------
(***************************************************************************)
(* The backlog the scheduler fills its sprints from.  The rest is about    *)
(* SprintBacklog, which shares no variable with SprintScheduler.           *)
(***************************************************************************)

(* Items and faults                                                         *)

\* A fault is counted, and none is forgotten.
LEMMA FaultCounts ==
    ASSUME BacklogTypeOK, NEW kind, Fault(kind)
    PROVE  /\ mishaps' \in [FaultKinds -> Nat]
           /\ \A k : Never(k)' => Never(k)
           /\ ~Never(kind)'
<1>1. /\ mishaps \in [FaultKinds -> Nat] /\ kind \in FaultKinds
      /\ mishaps' = [mishaps EXCEPT ![kind] = @ + 1]
  BY DEF BacklogTypeOK, Fault
<1>2. mishaps[kind] \in Nat
  BY <1>1
<1>3. /\ mishaps' \in [FaultKinds -> Nat] /\ mishaps'[kind] = mishaps[kind] + 1
      /\ \A k \in FaultKinds : k # kind => mishaps'[k] = mishaps[k]
  BY <1>1, <1>2
<1>4. mishaps'[kind] # 0
  BY <1>2, <1>3
<1>5. QED
  BY <1>1, <1>3, <1>4 DEF Never

LEMMA ZeroIsNone ==
    ASSUME BacklogAssumption
    PROVE  0 \in 0..MaxStarts /\ SprintNumbers \subseteq 0..MaxStarts /\ 0 \notin SprintNumbers
BY DEF BacklogAssumption, SprintNumbers

\* What a todo makes of an item: one that is done or selected is so by its todo,
\* unless the sprint has none for it.
LEMMA AppliedIsItem ==
    ASSUME BacklogAssumption, NEW item \in Item, NEW todo \in TodoStatus, NEW s \in SprintNumbers
    PROVE  LET synced == Applied(item, todo, s) IN
           /\ synced \in Item
           /\ synced.status = "done" => \/ todo = "completed" /\ synced.completed = s
                                        \/ todo = "none" /\ synced = item
           /\ synced.status = "selected" => \/ todo \in {"queued", "running"} /\ synced.selected = s
                                            \/ todo = "none" /\ synced = item
           /\ item.status = "done" /\ todo \in {"none", "completed"} => synced.status = "done"
<1> USE ZeroIsNone DEF Applied, Item, ItemStatus
<1>1. CASE todo \in {"queued", "running"}
  BY <1>1
<1>2. CASE todo = "completed"
  BY <1>2
<1>3. CASE todo \in {"blocked", "uncommitted", "failed"}
  BY <1>3
<1>4. CASE todo = "none"
  BY <1>4
<1>5. QED
  BY <1>1, <1>2, <1>3, <1>4 DEF TodoStatus

\* A repair and a count put items aside, and make none done or selected.
LEMMA CountedIsItem ==
    ASSUME BacklogAssumption, NEW its \in [Items -> Item]
    PROVE  /\ Counted(its) \in [Items -> Item]
           /\ \A i \in Items :
                /\ Counted(its)[i] = its[i] \/ Counted(its)[i].status \in {"blocked", "dropped"}
                /\ its[i].status = "done" /\ i \notin Journal => Counted(its)[i] = its[i]
<1>1. /\ Dropped(its) \in [Items -> Item]
      /\ \A i \in Items :
           /\ Dropped(its)[i] = its[i] \/ Dropped(its)[i].status = "dropped"
           /\ i \notin Journal => Dropped(its)[i] = its[i]
  <2>1. ASSUME NEW item \in Item
        PROVE  [item EXCEPT !.status = "dropped", !.selected = 0, !.completed = 0]
                 \in [status : {"dropped"}, selected : 0..MaxStarts,
                      completed : 0..MaxStarts, planned : 0..MaxStarts]
    BY ZeroIsNone DEF Item
  <2>2. QED
    BY <2>1 DEF Dropped, IsInsight, Item, ItemStatus
<1>2. ASSUME NEW d \in [Items -> Item]
      PROVE  /\ Repaired(d) \in [Items -> Item]
             /\ \A i \in Items :
                  /\ Repaired(d)[i] = d[i] \/ Repaired(d)[i].status = "blocked"
                  /\ d[i].status \in {"done", "dropped"} => Repaired(d)[i] = d[i]
  BY ZeroIsNone DEF Repaired, Item, ItemStatus
<1>3. QED
  BY <1>1, <1>2 DEF Counted

LEMMA SyncedIsItems ==
    ASSUME BacklogAssumption, NEW its \in [Items -> Item], NEW ts \in [SprintNumbers -> [Items -> TodoStatus]],
           NEW s \in SprintNumbers
    PROVE  /\ Synced(its, ts, s) \in [Items -> Item]
           /\ \A i \in Items : Synced(its, ts, s)[i] = Applied(its[i], ts[s][i], s)
BY AppliedIsItem DEF Synced

\* The item that carries a failed todo over was none before.
LEMMA FreshIsNone ==
    ASSUME BacklogAssumption, Fresh # {}
    PROVE  Min(Fresh) \in Items /\ items[Min(Fresh)].status = "none"
<1>1. Fresh \subseteq Nat /\ Fresh \subseteq WithStatus(items, "none")
  BY DEF Fresh, WithStatus, Items
<1>2. \E n \in Fresh : \A m \in Fresh : n <= m
  BY <1>1, LeastOf
<1>3. Min(Fresh) \in Fresh
  BY <1>2 DEF Min
<1>4. QED
  BY <1>1, <1>3 DEF WithStatus

------------------------------------------------------------------------------
(* The inductive invariant *)

\* What is done has no todo left in the active sprint that would undo it.
DoneIsOver ==
    Undisturbed =>
        \A i \in WithStatus(items, "done") :
            active # 0 => todos[active][i] \in {"none", "completed"}

BacklogInv == BacklogTypeOK /\ SelectedIsWorked /\ DoneIsOver

\* What a load or a save of the active sprint writes.
LEMMA SyncedKeeps ==
    ASSUME BacklogAssumption, NEW its \in [Items -> Item], NEW ts \in [SprintNumbers -> [Items -> TodoStatus]],
           NEW s \in SprintNumbers
    PROVE  LET synced == Synced(its, ts, s) IN
           /\ synced \in [Items -> Item]
           /\ \A i \in Items : synced[i].status = "done" =>
                /\ ts[s][i] \in {"none", "completed"}
                /\ synced[i].completed # 0 \/ synced[i] = its[i]
           /\ \A i \in Items : synced[i].status = "selected" =>
                \/ ts[s][i] \in {"queued", "running"} /\ synced[i].selected = s
                \/ ts[s][i] = "none" /\ synced[i] = its[i]
           /\ \A i \in Items :
                its[i].status = "done" /\ ts[s][i] \in {"none", "completed"}
                    => synced[i].status = "done"
<1>1. \A i \in Items : ts[s][i] \in TodoStatus /\ its[i] \in Item
  OBVIOUS
<1>2. s # 0
  BY ZeroIsNone
<1> DEFINE synced == Synced(its, ts, s)
<1>4. synced \in [Items -> Item] /\ \A i \in Items : synced[i] = Applied(its[i], ts[s][i], s)
  BY SyncedIsItems
<1> HIDE DEF synced
<1>5. ASSUME NEW i \in Items
      PROVE  /\ synced[i].status = "done" => /\ ts[s][i] \in {"none", "completed"}
                                             /\ synced[i].completed # 0 \/ synced[i] = its[i]
             /\ synced[i].status = "selected" =>
                   \/ ts[s][i] \in {"queued", "running"} /\ synced[i].selected = s
                   \/ ts[s][i] = "none" /\ synced[i] = its[i]
             /\ its[i].status = "done" /\ ts[s][i] \in {"none", "completed"}
                   => synced[i].status = "done"
  <2>1. synced[i] = Applied(its[i], ts[s][i], s)
    BY <1>4
  <2>2. QED
    BY <1>1, <1>2, <2>1, AppliedIsItem
<1>6. QED
  BY <1>4, <1>5 DEF synced

LEMMA InitKeeps ==
    ASSUME BacklogAssumption, BacklogInit
    PROVE  BacklogInv
<1>1. items \in [Items -> Item] /\ \A i \in Items : items[i].status \in {"none", "pending"}
  BY ZeroIsNone DEF BacklogInit, Item, ItemStatus
<1>2. todos \in [SprintNumbers -> [Items -> TodoStatus]]
  BY DEF BacklogInit, TodoStatus
<1>3. /\ reviews \in [SUBSET Items -> {"none", "open", "qa"} \cup Concluded]
      /\ last \in [of : SUBSET Items, status : {"none", "queued"} \cup Terminal]
      /\ pollState \in [at : {"idle", "collected", "going"}, blocked : SUBSET Items]
      /\ merge \in Merge \cup {Unread}
  BY DEF BacklogInit, Unmade
<1>4. /\ active \in 0..started /\ started \in 0..MaxStarts /\ manual \in BOOLEAN
      /\ merges \in 0..MaxMerges /\ raced \in BOOLEAN
  <2>1. MaxStarts \in Nat /\ MaxMerges \in Nat
    BY DEF BacklogAssumption
  <2>2. active = 0 /\ started = 0 /\ merges = 0 /\ manual = FALSE /\ raced = FALSE
    BY DEF BacklogInit
  <2>3. 0 \in 0..0 /\ 0 \in 0..MaxStarts /\ 0 \in 0..MaxMerges
    BY <2>1
  <2>4. QED
    BY <2>2, <2>3
<1>5. BacklogTypeOK
  <2>1. \A s \in SprintNumbers : \A i \in Items : todos[s][i] = "none"
    BY DEF BacklogInit
  <2>2. mishaps \in [FaultKinds -> Nat]
    BY DEF BacklogInit
  <2>3. QED
    BY <1>1, <1>2, <1>3, <1>4, <2>1, <2>2 DEF BacklogTypeOK
<1>6. SelectedIsWorked /\ DoneIsOver
  BY <1>1 DEF SelectedIsWorked, DoneIsOver, WithStatus
<1>7. QED
  BY <1>5, <1>6 DEF BacklogInv

\* Steps that change neither the items nor a sprint and its todos.
LEMMA AsideKeeps ==
    ASSUME BacklogInv, BacklogTypeOK', UNCHANGED <<items, todos, active, raced>>,
           \A k : Never(k)' => Never(k)
    PROVE  BacklogInv'
<1>1. Undisturbed' => Undisturbed
  BY DEF Undisturbed
<1>2. SelectedIsWorked' /\ DoneIsOver'
  BY <1>1 DEF BacklogInv, SelectedIsWorked, DoneIsOver, WithStatus
<1>3. QED
  BY <1>2 DEF BacklogInv

LEMMA UnfaultedNever ==
    ASSUME UNCHANGED mishaps
    PROVE  \A k : Never(k)' => Never(k)
BY DEF Never

\* The poll and the reviews.
LEMMA ReviewKeeps ==
    ASSUME BacklogInv, Collect \/ Decide \/ Reviewed \/ \E c \in SUBSET Items : DayPasses(c)
    PROVE  BacklogInv'
<1> USE DEF BacklogInv
<1>1. UNCHANGED <<items, todos, active, manual, started, merge, merges, raced>>
  BY DEF Collect, Decide, Reviewed, PlannerReports, QaPasses, DayPasses, board,
         sprintVars, planner
<1>2. /\ \A k : Never(k)' => Never(k)
      /\ mishaps' \in [FaultKinds -> Nat]
  <2>1. CASE UNCHANGED mishaps
    BY <2>1, UnfaultedNever DEF BacklogTypeOK
  <2>2. CASE \E c \in SUBSET Items : DayPasses(c)
    BY <2>2, FaultCounts DEF DayPasses
  <2>3. QED
    BY <2>1, <2>2 DEF Collect, Decide, Reviewed, PlannerReports, QaPasses
<1>3. /\ reviews' \in [SUBSET Items -> {"none", "open", "qa"} \cup Concluded]
      /\ last' \in [of : SUBSET Items, status : {"none", "queued"} \cup Terminal]
      /\ pollState' \in [at : {"idle", "collected", "going"}, blocked : SUBSET Items]
  <2> USE DEF BacklogTypeOK
  <2>1. CASE Collect
    BY <2>1 DEF Collect, WithStatus, review
  <2>2. CASE Decide /\ NothingBlocked
    BY <2>2 DEF NothingBlocked, Stale, Unmade, Concluded, Terminal
  <2>3. CASE Decide /\ (Waits \/ WasReviewed \/ HasReviewed)
    BY <2>3 DEF Waits, WasReviewed, HasReviewed, Concluded, Terminal
  <2>4. CASE \E c \in SUBSET Items : DayPasses(c)
    BY <2>4 DEF DayPasses, Concluded
  <2>5. ASSUME NEW c \in SUBSET Items, NEW status \in Terminal, PlannerReports(c, status)
        PROVE  /\ reviews' \in [SUBSET Items -> {"none", "open", "qa"} \cup Concluded]
               /\ last' \in [of : SUBSET Items, status : {"none", "queued"} \cup Terminal]
    BY <2>5 DEF PlannerReports, Ends, Concluded, Terminal
  <2>6. ASSUME NEW c \in SUBSET Items, QaPasses(c)
        PROVE  /\ reviews' \in [SUBSET Items -> {"none", "open", "qa"} \cup Concluded]
               /\ last' \in [of : SUBSET Items, status : {"none", "queued"} \cup Terminal]
    BY <2>6 DEF QaPasses, Ends, Concluded, Terminal
  <2>7. CASE Reviewed
    <3>1. UNCHANGED pollState
      BY <2>7 DEF Reviewed, PlannerReports, QaPasses
    <3>2. QED
      BY <2>5, <2>6, <2>7, <3>1 DEF Reviewed
  <2>8. QED
    BY <2>1, <2>2, <2>3, <2>4, <2>7 DEF Decide
<1>4. BacklogTypeOK'
  BY <1>1, <1>2, <1>3 DEF BacklogTypeOK
<1>5. QED
  BY <1>1, <1>2, <1>4, AsideKeeps

\* Steps that write the backlog and the active sprint's todos.  Worked: an item
\* that is selected or done keeps to its todo.
Kept ==
    /\ items' \in [Items -> Item] /\ todos' \in [SprintNumbers -> [Items -> TodoStatus]]
    /\ active' \in 0..started' /\ started' \in 0..MaxStarts /\ manual' \in BOOLEAN
    /\ mishaps' \in [FaultKinds -> Nat] /\ \A k : Never(k)' => Never(k)
    /\ \A s \in SprintNumbers : s > started' => \A i \in Items : todos'[s][i] = "none"
    /\ UNCHANGED <<reviews, last, merge, merges, raced>>
    /\ pollState' \in [at : {"idle", "collected", "going"}, blocked : SUBSET Items]
    /\ \A i \in Items : items'[i].status = "done" =>
          items'[i].completed # 0 \/ items'[i] = items[i]
WorkedNext ==
    Undisturbed' =>
        \A i \in Items :
            /\ items'[i].status = "selected" =>
                  /\ items'[i].selected # 0
                  /\ todos'[items'[i].selected][i] \in {"queued", "running"}
            /\ items'[i].status = "done" /\ active' # 0 =>
                  todos'[active'][i] \in {"none", "completed"}

LEMMA KeptKeeps ==
    ASSUME BacklogInv, Kept, WorkedNext
    PROVE  BacklogInv'
<1>1. BacklogTypeOK'
  BY DEF BacklogInv, BacklogTypeOK, Kept
<1>2. SelectedIsWorked' /\ DoneIsOver'
  BY DEF WorkedNext, SelectedIsWorked, DoneIsOver, WithStatus
<1>3. QED
  BY <1>1, <1>2 DEF BacklogInv

\* What the invariant says of one item, when nothing disturbed it.
LEMMA ItemIsWorked ==
    ASSUME BacklogInv, Undisturbed, NEW i \in Items
    PROVE  /\ items[i].status = "selected" =>
                /\ items[i].selected \in SprintNumbers
                /\ items[i].selected <= started
                /\ todos[items[i].selected][i] \in {"queued", "running"}
           /\ items[i].status = "done" /\ active # 0 =>
                todos[active][i] \in {"none", "completed"}
<1>1. items[i] \in Item /\ started \in Nat
  BY DEF BacklogInv, BacklogTypeOK
<1>2. items[i].selected \in 0..MaxStarts
  BY <1>1 DEF Item
<1>3. CASE items[i].status = "selected"
  <2>1. /\ items[i].selected # 0
        /\ todos[items[i].selected][i] \in {"queued", "running"}
    BY <1>3 DEF BacklogInv, SelectedIsWorked, WithStatus
  <2>2. items[i].selected \in SprintNumbers
    BY <1>2, <2>1 DEF SprintNumbers
  <2>3. ~ (items[i].selected > started)
    BY <2>1, <2>2 DEF BacklogInv, BacklogTypeOK
  <2>4. QED
    BY <1>1, <1>3, <2>1, <2>2, <2>3 DEF SprintNumbers
<1>4. QED
  BY <1>3 DEF BacklogInv, DoneIsOver, WithStatus

LEMMA UndisturbedBefore ==
    ASSUME UNCHANGED raced, \A k : Never(k)' => Never(k), Undisturbed'
    PROVE  Undisturbed
BY DEF Undisturbed

LEMMA CountKeeps ==
    ASSUME BacklogAssumption, BacklogInv, Count
    PROVE  BacklogInv'
<1>1. items \in [Items -> Item]
  BY DEF BacklogInv, BacklogTypeOK
<1>2. /\ items' \in [Items -> Item]
      /\ \A i \in Items : items'[i] = items[i] \/ items'[i].status \in {"blocked", "dropped"}
  BY <1>1, CountedIsItem DEF Count
<1>3. /\ UNCHANGED <<todos, active, started, manual, reviews, last, pollState, merge, merges, raced>>
      /\ mishaps' \in [FaultKinds -> Nat] /\ \A k : Never(k)' => Never(k)
  BY UnfaultedNever DEF Count, sprintVars, review, planner, BacklogInv, BacklogTypeOK
<1>4. Kept
  BY <1>2, <1>3 DEF Kept, BacklogInv, BacklogTypeOK
<1>5. WorkedNext
  BY <1>2, <1>3, UndisturbedBefore, ItemIsWorked, ZeroIsNone DEF WorkedNext
<1>6. QED
  BY <1>4, <1>5, KeptKeeps

\* A step that saves the active sprint, having made its of the backlog.
Saves(its) ==
    /\ active # 0
    /\ its \in [Items -> Item] /\ todos' \in [SprintNumbers -> [Items -> TodoStatus]]
    /\ \A s \in SprintNumbers : s # active => todos'[s] = todos[s]
    /\ items' \in [Items -> Item]
    /\ \A i \in Items : \/ items'[i] = Synced(its, todos', active)[i]
                          \/ items'[i].status = "pending"
    /\ \A i \in Items : todos'[active][i] = "none" \/ its[i].status = "done" => its[i] = items[i]
    /\ \A i \in Items :
          /\ items[i].status = "selected" /\ items[i].selected = active
          /\ todos[active][i] \in {"queued", "running"}
          => todos'[active][i] # "none"
    /\ UNCHANGED <<active, started, manual, reviews, last, pollState, merge, merges, raced>>
    /\ mishaps' \in [FaultKinds -> Nat] /\ \A k : Never(k)' => Never(k)

LEMMA SaveKeeps ==
    ASSUME BacklogAssumption, BacklogInv, NEW its, Saves(its)
    PROVE  BacklogInv'
<1> USE DEF Saves
<1>1. active \in SprintNumbers /\ active <= started /\ started \in 0..MaxStarts
  BY DEF BacklogInv, BacklogTypeOK, SprintNumbers, BacklogAssumption
<1>2. /\ \A i \in Items : items'[i].status = "done" =>
           /\ todos'[active][i] \in {"none", "completed"}
           /\ items'[i].completed # 0 \/ items'[i] = its[i]
      /\ \A i \in Items : items'[i].status = "selected" =>
           \/ todos'[active][i] \in {"queued", "running"} /\ items'[i].selected = active
           \/ todos'[active][i] = "none" /\ items'[i] = its[i]
  <2>1. PICK synced : synced = Synced(its, todos', active)
    OBVIOUS
  <2>2. /\ \A i \in Items : synced[i].status = "done" =>
             /\ todos'[active][i] \in {"none", "completed"}
             /\ synced[i].completed # 0 \/ synced[i] = its[i]
        /\ \A i \in Items : synced[i].status = "selected" =>
             \/ todos'[active][i] \in {"queued", "running"} /\ synced[i].selected = active
             \/ todos'[active][i] = "none" /\ synced[i] = its[i]
    BY <1>1, <2>1, SyncedKeeps
  <2>3. \A i \in Items : items'[i] = synced[i] \/ items'[i].status = "pending"
    BY <2>1
  <2>4. QED
    BY <2>2, <2>3
<1>3. UNCHANGED <<active, started, manual, reviews, last, pollState, merge, merges, raced>>
  OBVIOUS
<1>4. Kept
  <2>1. \A s \in SprintNumbers : s > started' => s # active
    BY <1>1, <1>3 DEF SprintNumbers, BacklogAssumption
  <2>2. \A s \in SprintNumbers : s > started' => \A i \in Items : todos'[s][i] = "none"
    BY <1>3, <2>1 DEF BacklogInv, BacklogTypeOK
  <2>3. \A i \in Items : items'[i].status = "done" =>
           items'[i].completed # 0 \/ items'[i] = items[i]
    BY <1>2
  <2>4. QED
    BY <1>2, <1>3, <2>2, <2>3 DEF Kept, BacklogInv, BacklogTypeOK
<1>5. ASSUME NEW i \in Items, Undisturbed', items'[i].status = "selected"
      PROVE  /\ items'[i].selected # 0
             /\ todos'[items'[i].selected][i] \in {"queued", "running"}
  <2>1. CASE todos'[active][i] \in {"queued", "running"} /\ items'[i].selected = active
    BY <2>1
  <2>2. CASE todos'[active][i] = "none" /\ items'[i] = items[i]
    <3>1. Undisturbed
      BY <1>3, <1>5, UndisturbedBefore
    <3>2. /\ items[i].selected \in SprintNumbers
          /\ todos[items[i].selected][i] \in {"queued", "running"}
      BY <1>5, <2>2, <3>1, ItemIsWorked
    <3>3. items[i].selected # active
      BY <1>5, <2>2, <3>2
    <3>4. QED
      BY <2>2, <3>2, <3>3, ZeroIsNone
  <2>3. QED
    BY <1>2, <1>5, <2>1, <2>2
<1>6. WorkedNext
  BY <1>2, <1>3, <1>5 DEF WorkedNext
<1>7. QED
  BY <1>4, <1>6, KeptKeeps

\* A load reads what the active sprint has become; any other is too late.
LEMMA LoadKeeps ==
    ASSUME BacklogAssumption, BacklogInv, NEW s \in 1..started, Load(s)
    PROVE  BacklogInv'
<1>1. /\ items \in [Items -> Item] /\ todos \in [SprintNumbers -> [Items -> TodoStatus]]
      /\ started \in 0..MaxStarts /\ mishaps \in [FaultKinds -> Nat]
  BY DEF BacklogInv, BacklogTypeOK
<1>2. s \in SprintNumbers /\ s # 0
  BY <1>1 DEF SprintNumbers, BacklogAssumption
<1>3. /\ items' = Synced(items, todos, s)
      /\ UNCHANGED <<todos, sprintVars, review, pollState, planner>>
  BY DEF Load
<1>4. CASE s = active
  <2>1. mishaps' \in [FaultKinds -> Nat] /\ \A k : Never(k)' => Never(k)
    BY <1>1, <1>4, UnfaultedNever DEF Load
  <2>2. Saves(items)
    BY <1>1, <1>2, <1>3, <1>4, <2>1, SyncedIsItems DEF Saves, sprintVars, review, planner
  <2>3. QED
    BY <2>2, SaveKeeps
<1>5. CASE s # active
  <2>1. Fault("late")
    BY <1>5 DEF Load
  <2>2. /\ mishaps' \in [FaultKinds -> Nat] /\ \A k : Never(k)' => Never(k)
        /\ ~Never("late")'
    BY <2>1, FaultCounts DEF BacklogInv
  <2>3. /\ items' \in [Items -> Item]
        /\ \A i \in Items : items'[i].status = "done" =>
              items'[i].completed # 0 \/ items'[i] = items[i]
    BY <1>1, <1>2, <1>3, SyncedKeeps
  <2>4. UNCHANGED <<todos, active, started, manual, reviews, last, pollState, merge, merges, raced>>
    BY <1>3 DEF sprintVars, review, planner
  <2>5. Kept
    BY <2>2, <2>3, <2>4 DEF Kept, BacklogInv, BacklogTypeOK
  <2>6. WorkedNext
    BY <2>2 DEF WorkedNext, Undisturbed
  <2>7. QED
    BY <2>5, <2>6, KeptKeeps
<1>6. QED
  BY <1>4, <1>5

LEMMA TodoBeginsKeeps ==
    ASSUME BacklogAssumption, BacklogInv, NEW i \in Items, TodoBegins(i)
    PROVE  BacklogInv'
<1>1. /\ items \in [Items -> Item] /\ todos \in [SprintNumbers -> [Items -> TodoStatus]]
      /\ active \in 0..started /\ started \in 0..MaxStarts /\ mishaps \in [FaultKinds -> Nat]
  BY DEF BacklogInv, BacklogTypeOK
<1>2. active # 0 /\ active \in SprintNumbers
  BY <1>1 DEF TodoBegins, SprintNumbers, BacklogAssumption
<1>3. todos' = [todos EXCEPT ![active][i] = "running"]
  BY DEF TodoBegins
<1>4. /\ todos' \in [SprintNumbers -> [Items -> TodoStatus]]
      /\ \A s \in SprintNumbers : s # active => todos'[s] = todos[s]
      /\ \A j \in Items : todos'[active][j] = IF j = i THEN "running" ELSE todos[active][j]
  BY <1>1, <1>2, <1>3 DEF TodoStatus
<1>5. mishaps' \in [FaultKinds -> Nat] /\ \A k : Never(k)' => Never(k)
  BY <1>1, UnfaultedNever DEF TodoBegins
<1>6. items' = Synced(items, todos', active) /\ UNCHANGED <<sprintVars, review, pollState, planner>>
  BY DEF TodoBegins
<1>7. Saves(items)
  BY <1>1, <1>2, <1>4, <1>5, <1>6, SyncedIsItems DEF Saves, sprintVars, review, planner
<1>8. QED
  BY <1>7, SaveKeeps

LEMMA RestartKeeps ==
    ASSUME BacklogAssumption, BacklogInv, NEW i \in Items, Restart(i)
    PROVE  BacklogInv'
<1>1. /\ items \in [Items -> Item] /\ todos \in [SprintNumbers -> [Items -> TodoStatus]]
      /\ active \in 0..started /\ started \in 0..MaxStarts
  BY DEF BacklogInv, BacklogTypeOK
<1>2. active # 0 /\ active \in SprintNumbers
  BY <1>1 DEF Restart, SprintNumbers, BacklogAssumption
<1>3. todos' = [todos EXCEPT ![active][i] = "queued"]
  BY DEF Restart
<1>4. /\ todos' \in [SprintNumbers -> [Items -> TodoStatus]]
      /\ \A s \in SprintNumbers : s # active => todos'[s] = todos[s]
      /\ \A j \in Items : todos'[active][j] = IF j = i THEN "queued" ELSE todos[active][j]
  BY <1>1, <1>2, <1>3 DEF TodoStatus
<1>5. mishaps' \in [FaultKinds -> Nat] /\ \A k : Never(k)' => Never(k)
  BY FaultCounts DEF Restart, BacklogInv
<1>6. items' = Synced(items, todos', active) /\ UNCHANGED <<sprintVars, review, pollState, planner>>
  BY DEF Restart
<1>7. Saves(items)
  BY <1>1, <1>2, <1>4, <1>5, <1>6, SyncedIsItems DEF Saves, sprintVars, review, planner
<1>8. QED
  BY <1>7, SaveKeeps

\* An end that is saved with the sprint, or lost with its process.
LEMMA TodoEndsKeeps ==
    ASSUME BacklogAssumption, BacklogInv, NEW i \in Items,
           NEW status \in {"completed", "blocked", "failed", "uncommitted"}, TodoEnds(i, status)
    PROVE  BacklogInv'
<1>1. /\ items \in [Items -> Item] /\ todos \in [SprintNumbers -> [Items -> TodoStatus]]
      /\ active \in 0..started /\ started \in 0..MaxStarts /\ mishaps \in [FaultKinds -> Nat]
  BY DEF BacklogInv, BacklogTypeOK
<1>2. active # 0 /\ active \in SprintNumbers
  BY <1>1 DEF TodoEnds, SprintNumbers, BacklogAssumption
<1>3. PICK ended : ended = [todos EXCEPT ![active][i] = status]
  OBVIOUS
<1>4. /\ ended \in [SprintNumbers -> [Items -> TodoStatus]]
      /\ \A s \in SprintNumbers : s # active => ended[s] = todos[s]
      /\ \A j \in Items : ended[active][j] = IF j = i THEN status ELSE todos[active][j]
  BY <1>1, <1>2, <1>3 DEF TodoStatus
<1>5. PICK synced : synced = Synced(items, ended, active)
  OBVIOUS
<1>6. /\ synced \in [Items -> Item]
      /\ \A j \in Items : synced[j].status = "done" => synced[j].completed # 0 \/ synced[j] = items[j]
  BY <1>1, <1>2, <1>4, <1>5, SyncedKeeps
<1>7. items' = CarryOver(synced, status)
  BY <1>3, <1>5 DEF TodoEnds
<1>8. /\ items' \in [Items -> Item]
      /\ \A j \in Items : items'[j] = synced[j] \/ items'[j].status = "pending"
  <2>1. CASE status # "failed"
    BY <1>6, <1>7, <2>1 DEF CarryOver
  <2>2. CASE status = "failed"
    <3>1. PICK m \in Items : m = Min(Fresh)
      BY <2>2, FreshIsNone DEF TodoEnds
    <3>2. items' = [synced EXCEPT ![m] = [@ EXCEPT !.status = "pending"]]
      BY <1>7, <2>2, <3>1 DEF CarryOver
    <3>3. /\ [synced[m] EXCEPT !.status = "pending"] \in Item
          /\ [synced[m] EXCEPT !.status = "pending"].status = "pending"
      BY <1>6 DEF Item, ItemStatus
    <3>4. QED
      BY <1>6, <3>2, <3>3
  <2>3. QED
    BY <2>1, <2>2
<1>9. UNCHANGED <<active, started, manual, reviews, last, pollState, merge, merges, raced>>
  BY DEF TodoEnds, sprintVars, review, planner
<1>10. CASE todos' = ended /\ UNCHANGED mishaps
  <2>1. Saves(items)
    BY <1>1, <1>2, <1>4, <1>5, <1>8, <1>9, <1>10, UnfaultedNever DEF Saves
  <2>2. QED
    BY <2>1, SaveKeeps
<1>11. CASE Fault("crash") /\ UNCHANGED todos
  <2>1. /\ mishaps' \in [FaultKinds -> Nat] /\ \A k : Never(k)' => Never(k)
        /\ ~Never("crash")'
    BY <1>11, FaultCounts DEF BacklogInv
  <2>2. \A j \in Items : items'[j].status = "done" => items'[j].completed # 0 \/ items'[j] = items[j]
    BY <1>6, <1>8
  <2>3. Kept
    BY <1>8, <1>9, <1>11, <2>1, <2>2 DEF Kept, BacklogInv, BacklogTypeOK
  <2>4. WorkedNext
    BY <2>1 DEF WorkedNext, Undisturbed
  <2>5. QED
    BY <2>3, <2>4, KeptKeeps
<1>12. QED
  BY <1>3, <1>10, <1>11 DEF TodoEnds

\* The planned items of the active sprint are selected and queued.
LEMMA QueueKeeps ==
    ASSUME BacklogAssumption, BacklogInv, Queue
    PROVE  BacklogInv'
<1>1. /\ items \in [Items -> Item] /\ todos \in [SprintNumbers -> [Items -> TodoStatus]]
      /\ active \in 0..started /\ started \in 0..MaxStarts /\ mishaps \in [FaultKinds -> Nat]
  BY DEF BacklogInv, BacklogTypeOK
<1>2. active # 0 /\ active \in SprintNumbers
  <2>1. active # 0
    BY DEF Queue
  <2>2. QED
    BY <1>1, <2>1 DEF SprintNumbers, BacklogAssumption
<1>3. PICK mine : mine = Mine(active)
  OBVIOUS
<1>4. /\ \A s \in SprintNumbers : s # active => todos'[s] = todos[s]
      /\ \A j \in Items : todos'[active][j] =
            IF j \in mine THEN IF todos[active][j] = "none" THEN "queued" ELSE todos[active][j]
            ELSE IF todos[active][j] = "queued" THEN "none" ELSE todos[active][j]
      /\ todos' \in [SprintNumbers -> [Items -> TodoStatus]]
  <2>1. PICK row : row = [j \in Items |->
              CASE j \in mine -> IF todos[active][j] = "none" THEN "queued" ELSE todos[active][j]
                [] j \notin mine /\ todos[active][j] = "queued" -> "none"
                [] OTHER -> todos[active][j]]
    OBVIOUS
  <2>2. \A j \in Items : row[j] =
            IF j \in mine THEN IF todos[active][j] = "none" THEN "queued" ELSE todos[active][j]
            ELSE IF todos[active][j] = "queued" THEN "none" ELSE todos[active][j]
    BY <2>1
  <2>3. row \in [Items -> TodoStatus]
    BY <1>1, <1>2, <2>1, <2>2 DEF TodoStatus
  <2>4. todos' = [todos EXCEPT ![active] = row]
    BY <1>3, <2>1 DEF Queue
  <2>5. QED
    BY <1>1, <1>2, <2>2, <2>3, <2>4
<1>5. PICK its : its = [i \in Items |->
          IF i \in mine /\ items[i].status = "pending"
          THEN [items[i] EXCEPT !.status = "selected", !.selected = active] ELSE items[i]]
  OBVIOUS
<1>6. /\ its \in [Items -> Item]
      /\ \A i \in Items : its[i] = items[i] \/ (i \in mine /\ its[i].status = "selected")
  <2>1. ASSUME NEW item \in Item
        PROVE  /\ [item EXCEPT !.status = "selected", !.selected = active] \in Item
               /\ [item EXCEPT !.status = "selected", !.selected = active].status = "selected"
    BY <1>2, ZeroIsNone DEF Item, ItemStatus
  <2>2. ASSUME NEW i \in Items
        PROVE  /\ its[i] \in Item
               /\ its[i] = items[i] \/ (i \in mine /\ its[i].status = "selected")
    <3>1. items[i] \in Item
      BY <1>1
    <3>2. its[i] = IF i \in mine /\ items[i].status = "pending"
          THEN [items[i] EXCEPT !.status = "selected", !.selected = active] ELSE items[i]
      BY <1>5
    <3>3. CASE i \in mine /\ items[i].status = "pending"
      BY <2>1, <3>1, <3>2, <3>3
    <3>4. CASE ~ (i \in mine /\ items[i].status = "pending")
      BY <3>1, <3>2, <3>4
    <3>5. QED
      BY <3>3, <3>4
  <2>3. QED
    BY <1>5, <2>2
<1>7. items' = Synced(its, todos', active)
  BY <1>3, <1>5 DEF Queue
<1>8. items' \in [Items -> Item]
  BY <1>2, <1>4, <1>6, <1>7, SyncedIsItems
<1>9. \A i \in Items : todos'[active][i] = "none" \/ its[i].status = "done" => its[i] = items[i]
  BY <1>4, <1>6
<1>10. \A i \in Items : items[i].status = "selected" /\ items[i].selected = active => i \in mine
  BY <1>3 DEF Mine
<1>11. \A i \in Items :
          /\ items[i].status = "selected" /\ items[i].selected = active
          /\ todos[active][i] \in {"queued", "running"}
          => todos'[active][i] # "none"
  BY <1>4, <1>10
<1>12. UNCHANGED <<active, started, manual, reviews, last, pollState, merge, merges, raced>>
  BY DEF Queue, sprintVars, review, planner
<1>13. mishaps' \in [FaultKinds -> Nat] /\ \A k : Never(k)' => Never(k)
  BY <1>1, UnfaultedNever DEF Queue
<1>14. Saves(its)
  BY <1>2, <1>4, <1>6, <1>7, <1>8, <1>9, <1>11, <1>12, <1>13 DEF Saves
<1>15. QED
  BY <1>14, SaveKeeps

\* The scheduler's sprint has a queued todo for each item it selects.
LEMMA StartKeeps ==
    ASSUME BacklogAssumption, BacklogInv, Start
    PROVE  BacklogInv'
<1>1. /\ items \in [Items -> Item] /\ todos \in [SprintNumbers -> [Items -> TodoStatus]]
      /\ active \in 0..started /\ started \in 0..MaxStarts /\ mishaps \in [FaultKinds -> Nat]
  BY DEF BacklogInv, BacklogTypeOK
<1>2. PICK offered : offered = Counted(items)
  OBVIOUS
<1>3. /\ offered \in [Items -> Item]
      /\ \A i \in Items : offered[i] = items[i] \/ offered[i].status \in {"blocked", "dropped"}
  BY <1>1, <1>2, CountedIsItem
<1>4. /\ UNCHANGED <<reviews, last, merge, merges, raced>>
      /\ pollState' \in [at : {"idle", "collected", "going"}, blocked : SUBSET Items]
  BY DEF Start, review, planner
<1>5. CASE items' = offered /\ UNCHANGED <<todos, sprintVars, mishaps>>
  <2>1. /\ UNCHANGED <<todos, active, started, manual>>
        /\ mishaps' \in [FaultKinds -> Nat] /\ \A k : Never(k)' => Never(k)
    BY <1>1, <1>5, UnfaultedNever DEF sprintVars
  <2>2. Kept
    BY <1>3, <1>4, <1>5, <2>1 DEF Kept, BacklogInv, BacklogTypeOK
  <2>3. WorkedNext
    BY <1>3, <1>4, <1>5, <2>1, UndisturbedBefore, ItemIsWorked, ZeroIsNone DEF WorkedNext
  <2>4. QED
    BY <2>2, <2>3, KeptKeeps
<1>6. ASSUME NEW s \in SprintNumbers, Starts(s, FALSE), items' = Selected(offered, s),
             \/ /\ todos' = [todos EXCEPT ![s] =
                      [i \in Items |-> IF offered[i].status = "pending" THEN "queued" ELSE "none"]]
                /\ UNCHANGED mishaps
             \/ Fault("crash") /\ UNCHANGED todos
      PROVE  BacklogInv'
  <2>1. /\ active = 0 /\ s = started + 1 /\ active' = s /\ started' = s /\ manual' = FALSE
        /\ started' \in 0..MaxStarts /\ s # 0
    BY <1>6, ZeroIsNone DEF Starts
  <2>2. /\ items' \in [Items -> Item]
        /\ \A i \in Items :
              \/ items'[i] = offered[i] /\ offered[i].status # "pending"
              \/ /\ offered[i].status = "pending"
                 /\ items'[i].status = "selected" /\ items'[i].selected = s
    <3>1. ASSUME NEW item \in Item
          PROVE  /\ [item EXCEPT !.status = "selected", !.selected = s] \in Item
                 /\ [item EXCEPT !.status = "selected", !.selected = s].status = "selected"
                 /\ [item EXCEPT !.status = "selected", !.selected = s].selected = s
      BY ZeroIsNone DEF Item, ItemStatus
    <3>2. QED
      BY <1>3, <1>6, <3>1 DEF Selected
  <2>3. \A i \in Items : items'[i].status = "done" => items'[i] = items[i]
    BY <1>3, <2>2
  <2>4. /\ mishaps' \in [FaultKinds -> Nat] /\ \A k : Never(k)' => Never(k)
        /\ Never("crash")' => todos' = [todos EXCEPT ![s] =
              [i \in Items |-> IF offered[i].status = "pending" THEN "queued" ELSE "none"]]
    <3>1. CASE /\ todos' = [todos EXCEPT ![s] =
                    [i \in Items |-> IF offered[i].status = "pending" THEN "queued" ELSE "none"]]
               /\ UNCHANGED mishaps
      BY <1>1, <3>1, UnfaultedNever
    <3>2. CASE Fault("crash")
      BY <3>2, FaultCounts DEF BacklogInv
    <3>3. QED
      BY <1>6, <3>1, <3>2
  <2>5. PICK row : row = [i \in Items |-> IF offered[i].status = "pending" THEN "queued" ELSE "none"]
    OBVIOUS
  <2>6. /\ row \in [Items -> TodoStatus]
        /\ \A i \in Items : row[i] = IF offered[i].status = "pending" THEN "queued" ELSE "none"
    BY <2>5 DEF TodoStatus
  <2>7. todos' = [todos EXCEPT ![s] = row] \/ todos' = todos
    BY <1>6, <2>5
  <2>8. /\ todos' \in [SprintNumbers -> [Items -> TodoStatus]]
        /\ \A k \in SprintNumbers : k # s => todos'[k] = todos[k]
    BY <1>1, <2>6, <2>7
  <2>9. \A k \in SprintNumbers : k > started' => \A i \in Items : todos'[k][i] = "none"
    <3>1. \A k \in SprintNumbers : k > started' => k # s /\ k > started
      BY <1>1, <2>1 DEF SprintNumbers, BacklogAssumption
    <3>2. QED
      BY <2>8, <3>1 DEF BacklogInv, BacklogTypeOK
  <2>10. Kept
    <3>1. active' \in 0..started'
      BY <1>1, <2>1 DEF SprintNumbers
    <3>2. manual' \in BOOLEAN
      BY <2>1
    <3>3. QED
      BY <1>4, <2>1, <2>2, <2>3, <2>4, <2>8, <2>9, <3>1, <3>2 DEF Kept
  <2>11. WorkedNext
    <3>1. SUFFICES ASSUME Undisturbed', NEW i \in Items
                   PROVE  /\ items'[i].status = "selected" =>
                               /\ items'[i].selected # 0
                               /\ todos'[items'[i].selected][i] \in {"queued", "running"}
                          /\ items'[i].status = "done" => todos'[s][i] \in {"none", "completed"}
      BY <2>1 DEF WorkedNext
    <3>2. Undisturbed /\ Never("crash")'
      BY <1>4, <2>4, <3>1, UndisturbedBefore DEF Undisturbed
    <3>3. todos'[s] = row
      BY <1>1, <2>4, <2>5, <3>2
    <3>4. CASE offered[i].status = "pending"
      BY <2>1, <2>2, <2>6, <3>3, <3>4
    <3>5. CASE items'[i] = offered[i] /\ offered[i].status # "pending"
      <4>1. todos'[s][i] = "none"
        BY <2>6, <3>3, <3>5
      <4>2. CASE items'[i].status = "selected"
        <5>1. offered[i] = items[i] /\ items[i].status = "selected"
          BY <1>3, <3>5, <4>2
        <5>2. /\ items[i].selected \in SprintNumbers /\ items[i].selected <= started
              /\ todos[items[i].selected][i] \in {"queued", "running"}
          BY <3>2, <5>1, ItemIsWorked
        <5>3. items[i].selected # s
          BY <1>1, <2>1, <5>2 DEF SprintNumbers
        <5>4. QED
          BY <2>8, <3>5, <4>2, <5>1, <5>2, <5>3, ZeroIsNone
      <4>3. QED
        BY <4>1, <4>2
    <3>6. QED
      BY <2>2, <3>4, <3>5
  <2>12. QED
    BY <2>10, <2>11, KeptKeeps
<1>7. QED
  BY <1>2, <1>5, <1>6 DEF Start

\* A sprint of the user's or of a goal's, and the end of one.
LEMMA SprintKeeps ==
    ASSUME BacklogAssumption, BacklogInv, StartPlanned \/ SprintEnds
    PROVE  BacklogInv'
<1>1. /\ items \in [Items -> Item] /\ todos \in [SprintNumbers -> [Items -> TodoStatus]]
      /\ active \in 0..started /\ started \in 0..MaxStarts /\ manual \in BOOLEAN
      /\ mishaps \in [FaultKinds -> Nat]
  BY DEF BacklogInv, BacklogTypeOK
<1>2. UNCHANGED <<items, todos, reviews, last, pollState, merge, merges, raced>>
  BY DEF StartPlanned, SprintEnds, board, review, planner
<1>3. mishaps' \in [FaultKinds -> Nat] /\ \A k : Never(k)' => Never(k)
  BY <1>1, UnfaultedNever, FaultCounts DEF StartPlanned, SprintEnds, BacklogInv
<1>4. /\ active' \in 0..started' /\ started' \in 0..MaxStarts /\ manual' \in BOOLEAN
      /\ started' \in Nat /\ started <= started'
      /\ active' # 0 => active' = started + 1 /\ active' \in SprintNumbers
  <2>1. CASE StartPlanned
    <3>1. PICK s \in SprintNumbers : Starts(s, TRUE)
      BY <2>1 DEF StartPlanned
    <3>2. QED
      BY <1>1, <3>1 DEF Starts, SprintNumbers, BacklogAssumption
  <2>2. CASE SprintEnds
    BY <1>1, <2>2 DEF SprintEnds, BacklogAssumption
  <2>3. QED
    BY <2>1, <2>2
<1>5. \A s \in SprintNumbers : s > started' => s > started
  BY <1>1, <1>4 DEF SprintNumbers, BacklogAssumption
<1>6. Kept
  BY <1>2, <1>3, <1>4, <1>5 DEF Kept, BacklogInv, BacklogTypeOK
<1>7. active' # 0 => \A i \in Items : todos'[active'][i] = "none"
  <2>1. active' # 0 => active' > started
    BY <1>1, <1>4 DEF BacklogAssumption
  <2>2. QED
    BY <1>2, <1>4, <2>1 DEF BacklogInv, BacklogTypeOK
<1>8. WorkedNext
  <2>1. SUFFICES ASSUME Undisturbed', NEW i \in Items
                 PROVE  /\ items[i].status = "selected" =>
                             /\ items[i].selected # 0
                             /\ todos[items[i].selected][i] \in {"queued", "running"}
    BY <1>2, <1>7 DEF WorkedNext
  <2>2. QED
    BY <1>2, <1>3, <2>1, UndisturbedBefore, ItemIsWorked, ZeroIsNone
<1>9. QED
  BY <1>6, <1>8, KeptKeeps

\* The planner's merge: what it writes over what it read.
LEMMA MergeReadsKeeps ==
    ASSUME BacklogAssumption, BacklogInv, NEW i \in Items,
           NEW as \in {"noted", "planned", "reopened"}, MergeReads(i, as)
    PROVE  BacklogInv'
<1>1. /\ items \in [Items -> Item] /\ active \in 0..started /\ started \in 0..MaxStarts
      /\ merges \in 0..MaxMerges
  BY DEF BacklogInv, BacklogTypeOK
<1>2. UNCHANGED <<items, todos, active, manual, started, reviews, last, pollState, raced, mishaps>>
  BY DEF MergeReads, board, sprintVars, review
<1>3. merge' \in Merge
  <2>1. items[i] \in Item /\ items[i].planned \in 0..MaxStarts /\ active \in 0..MaxStarts
    BY <1>1 DEF Item, BacklogAssumption
  <2>2. QED
    BY <2>1 DEF MergeReads, Merge
<1>4. merges' \in 0..MaxMerges
  BY <1>1 DEF MergeReads, BacklogAssumption
<1>5. BacklogTypeOK'
  BY <1>2, <1>3, <1>4 DEF BacklogInv, BacklogTypeOK
<1>6. QED
  BY <1>2, <1>5, UnfaultedNever, AsideKeeps

LEMMA MergedIsItem ==
    ASSUME BacklogAssumption, NEW m \in Merge
    PROVE  /\ Merged(m) \in Item
           /\ \/ Merged(m).status = "pending"
              \/ /\ Merged(m).status = m.read.status /\ Merged(m).selected = m.read.selected
                 /\ Merged(m).completed = m.read.completed
           /\ m.as # "reopened" /\ m.read.status # "none" => Merged(m).status = m.read.status
<1>1. m.read \in Item /\ m.for \in 0..MaxStarts /\ m.as \in {"noted", "planned", "reopened"}
  BY DEF Merge
<1>2. CASE m.read.status = "none" \/ m.as = "reopened"
  BY <1>1, <1>2 DEF Merged, Item, ItemStatus
<1>3. CASE m.as = "planned" /\ m.read.status # "none"
  BY <1>1, <1>3 DEF Merged, Item, ItemStatus
<1>4. CASE m.as = "noted" /\ m.read.status # "none"
  BY <1>1, <1>4 DEF Merged
<1>5. QED
  BY <1>1, <1>2, <1>3, <1>4

LEMMA MergeWritesKeeps ==
    ASSUME BacklogAssumption, BacklogInv, MergeWrites
    PROVE  BacklogInv'
<1>1. /\ items \in [Items -> Item] /\ merge \in Merge /\ merge.item \in Items
  BY DEF BacklogInv, BacklogTypeOK, MergeWrites, Merge
<1>2. /\ Merged(merge) \in Item
      /\ \/ Merged(merge).status = "pending"
         \/ /\ Merged(merge).status = merge.read.status
            /\ Merged(merge).selected = merge.read.selected
            /\ Merged(merge).completed = merge.read.completed
  BY <1>1, MergedIsItem
<1>3. items' = [items EXCEPT ![merge.item] = Merged(merge)]
  BY DEF MergeWrites
<1>4. /\ items' \in [Items -> Item]
      /\ items'[merge.item] = Merged(merge)
      /\ \A i \in Items : i # merge.item => items'[i] = items[i]
  BY <1>1, <1>2, <1>3
<1>5. UNCHANGED <<todos, active, manual, started, reviews, last, pollState, merges, mishaps>>
  BY DEF MergeWrites, sprintVars, review
<1>6. /\ raced' \in BOOLEAN /\ (raced => raced')
      /\ ~raced' => items[merge.item] = merge.read
  BY DEF MergeWrites, BacklogInv, BacklogTypeOK
<1>7. \A i \in Items : ~raced' =>
        \/ items'[i].status = "pending"
        \/ /\ items'[i].status = items[i].status /\ items'[i].selected = items[i].selected
           /\ items'[i].completed = items[i].completed
  BY <1>2, <1>4, <1>6
<1>8. \A i \in Items : items'[i].status = "done" => items'[i].completed # 0 \/ raced'
  BY <1>6, <1>7 DEF BacklogInv, BacklogTypeOK
<1>9. merge' \in Merge \cup {Unread}
  BY DEF MergeWrites
<1>10. BacklogTypeOK'
  BY <1>4, <1>5, <1>6, <1>8, <1>9 DEF BacklogInv, BacklogTypeOK
<1>11. Undisturbed' => Undisturbed /\ ~raced'
  BY <1>5, <1>6, UnfaultedNever DEF Undisturbed
<1>12. SelectedIsWorked' /\ DoneIsOver'
  BY <1>5, <1>7, <1>11, ItemIsWorked, ZeroIsNone
     DEF SelectedIsWorked, DoneIsOver, WithStatus
<1>13. QED
  BY <1>10, <1>12 DEF BacklogInv

------------------------------------------------------------------------------
(* Theorems                                                                 *)

LEMMA StepKeeps ==
    ASSUME BacklogAssumption, BacklogInv, [BacklogNext]_backlogVars
    PROVE  BacklogInv'
<1>1. CASE Collect \/ Decide \/ Reviewed \/ \E c \in SUBSET Items : DayPasses(c)
  BY <1>1, ReviewKeeps
<1>2. CASE Start
  BY <1>2, StartKeeps
<1>3. CASE StartPlanned \/ SprintEnds
  BY <1>3, SprintKeeps
<1>4. CASE Queue
  BY <1>4, QueueKeeps
<1>5. CASE Count
  BY <1>5, CountKeeps
<1>6. ASSUME NEW i \in Items, TodoBegins(i) \/ Restart(i)
      PROVE  BacklogInv'
  BY <1>6, TodoBeginsKeeps, RestartKeeps
<1>7. ASSUME NEW i \in Items, NEW status \in {"completed", "blocked", "failed", "uncommitted"},
             TodoEnds(i, status)
      PROVE  BacklogInv'
  BY <1>7, TodoEndsKeeps
<1>8. ASSUME NEW s \in 1..started, Load(s)
      PROVE  BacklogInv'
  BY <1>8, LoadKeeps
<1>9. CASE Merges
  BY <1>9, MergeReadsKeeps, MergeWritesKeeps DEF Merges
<1>10. CASE UNCHANGED backlogVars
  <2>1. UNCHANGED <<items, todos, active, manual, started, reviews, last, pollState,
                    merge, merges, raced, mishaps>>
    BY <1>10 DEF backlogVars, board, sprintVars, review, planner
  <2>2. BacklogTypeOK'
    BY <2>1 DEF BacklogInv, BacklogTypeOK
  <2>3. QED
    BY <2>1, <2>2, UnfaultedNever, AsideKeeps
<1>11. QED
  BY <1>1, <1>2, <1>3, <1>4, <1>5, <1>6, <1>7, <1>8, <1>9, <1>10 DEF BacklogNext, Works

\* For every backlog, any number of sprints, merges and faults: an item that is
\* selected has a todo in work in the sprint it names.
THEOREM SelectedStaysWorked == BacklogSpec => []BacklogIsWorked
<1> USE BacklogAssumption
<1>1. BacklogInv => BacklogIsWorked
  BY DEF BacklogInv, BacklogIsWorked
<1>2. BacklogInit => BacklogInv
  BY InitKeeps
<1>3. BacklogInv /\ [BacklogNext]_backlogVars => BacklogInv'
  BY StepKeeps
<1>4. QED
  BY <1>1, <1>2, <1>3, PTL DEF BacklogSpec

LEMMA FaultsAreKept ==
    ASSUME BacklogInv, [BacklogNext]_backlogVars
    PROVE  (\A k : Never(k)' => Never(k)) /\ (raced => raced')
<1>1. BacklogTypeOK
  BY DEF BacklogInv
<1>2. (\E k : Fault(k)) => \A k : Never(k)' => Never(k)
  BY <1>1, FaultCounts
<1>3. UNCHANGED mishaps => \A k : Never(k)' => Never(k)
  BY UnfaultedNever
<1>4. UNCHANGED mishaps \/ \E k : Fault(k)
  <2>1. CASE Collect \/ Decide \/ Reviewed \/ Count \/ Queue \/ Merges
    BY <2>1 DEF Collect, Decide, Reviewed, PlannerReports, QaPasses, Count, Queue,
                Merges, MergeReads, MergeWrites
  <2>2. CASE Start \/ StartPlanned \/ SprintEnds \/ \E s \in 1..started : Load(s)
    BY <2>2 DEF Start, StartPlanned, SprintEnds, Load
  <2>3. ASSUME NEW i \in Items
        PROVE  TodoBegins(i) \/ Restart(i) => UNCHANGED mishaps \/ \E k : Fault(k)
    BY DEF TodoBegins, Restart
  <2>4. ASSUME NEW i \in Items, NEW status, TodoEnds(i, status)
        PROVE  UNCHANGED mishaps \/ \E k : Fault(k)
    BY <2>4 DEF TodoEnds
  <2>5. ASSUME NEW c \in SUBSET Items, DayPasses(c)
        PROVE  \E k : Fault(k)
    BY <2>5 DEF DayPasses
  <2>6. CASE UNCHANGED backlogVars
    BY <2>6 DEF backlogVars
  <2>7. QED
    BY <2>1, <2>2, <2>3, <2>4, <2>5, <2>6 DEF BacklogNext, Works
<1>5. raced => raced'
  <2>1. CASE MergeWrites
    BY <2>1 DEF MergeWrites
  <2>2. CASE ~MergeWrites
    <3>1. CASE Collect \/ Decide \/ Reviewed \/ Count \/ Queue \/ Merges
      BY <2>2, <3>1
         DEF Collect, Decide, Reviewed, PlannerReports, QaPasses, Count, Queue,
                Merges, MergeReads, planner
    <3>2. CASE Start \/ StartPlanned \/ SprintEnds \/ \E s \in 1..started : Load(s)
      BY <3>2 DEF Start, StartPlanned, SprintEnds, Load, planner
    <3>3. ASSUME NEW i \in Items
          PROVE  TodoBegins(i) \/ Restart(i) => UNCHANGED raced
      BY DEF TodoBegins, Restart, planner
    <3>4. ASSUME NEW i \in Items, NEW status, TodoEnds(i, status)
          PROVE  UNCHANGED raced
      BY <3>4 DEF TodoEnds, planner
    <3>5. ASSUME NEW c \in SUBSET Items, DayPasses(c)
          PROVE  UNCHANGED raced
      BY <3>5 DEF DayPasses, planner
    <3>6. CASE UNCHANGED backlogVars
      BY <3>6 DEF backlogVars, planner
    <3>7. QED
      BY <3>1, <3>2, <3>3, <3>4, <3>5, <3>6 DEF BacklogNext, Works
  <2>3. QED
    BY <2>1, <2>2
<1>6. QED
  BY <1>2, <1>3, <1>4, <1>5

\* One step leaves what is done as it is.
LEMMA DoneIsLeft ==
    ASSUME BacklogAssumption, BacklogInv, [BacklogNext]_backlogVars,
           NEW i \in WithStatus(items, "done") \ Journal, Undisturbed'
    PROVE  \/ items'[i].status = "done"
           \/ merge # Unread /\ merge.item = i /\ (merge.as = "reopened" \/ raced')
<1>1. /\ i \in Items /\ i \notin Journal /\ items[i].status = "done"
      /\ items \in [Items -> Item] /\ todos \in [SprintNumbers -> [Items -> TodoStatus]]
      /\ active \in 0..started /\ started \in 0..MaxStarts
  BY DEF WithStatus, BacklogInv, BacklogTypeOK
<1>2. CASE UNCHANGED items
  BY <1>1, <1>2
<1>3. CASE MergeWrites
  <2>1. /\ merge \in Merge /\ items' = [items EXCEPT ![merge.item] = Merged(merge)]
        /\ merge # Unread
    BY <1>3 DEF BacklogInv, BacklogTypeOK, MergeWrites
  <2>2. CASE merge.item = i
    <3>1. items[i] = merge.read \/ raced'
      BY <1>3, <2>2 DEF MergeWrites
    <3>2. merge.as = "reopened" \/ Merged(merge).status = merge.read.status \/ raced'
      BY <1>1, <2>1, <3>1, MergedIsItem
    <3>3. items'[i] = Merged(merge)
      BY <1>1, <2>1, <2>2
    <3>4. QED
      BY <1>1, <2>1, <2>2, <3>1, <3>2, <3>3
  <2>3. CASE merge.item # i
    BY <1>1, <2>1, <2>3
  <2>4. QED
    BY <2>2, <2>3
<1>4. CASE Count \/ Start
  <2>1. Counted(items)[i] = items[i]
    BY <1>1, CountedIsItem
  <2>2. ASSUME NEW s \in SprintNumbers
        PROVE  Selected(Counted(items), s)[i] = items[i]
    BY <1>1, <2>1 DEF Selected
  <2>3. items'[i] = items[i]
    BY <1>4, <2>1, <2>2 DEF Count, Start
  <2>4. QED
    BY <1>1, <2>3
<1>5. ASSUME NEW its \in [Items -> Item], NEW ts \in [SprintNumbers -> [Items -> TodoStatus]],
             active \in SprintNumbers, its[i] = items[i], ts[active][i] \in {"none", "completed"}
      PROVE  Synced(its, ts, active)[i].status = "done"
  BY <1>1, <1>5, SyncedKeeps
<1>6. active # 0 => active \in SprintNumbers /\ todos[active][i] \in {"none", "completed"}
  <2>1. Undisturbed
    BY FaultsAreKept DEF Undisturbed
  <2>2. QED
    BY <1>1, <2>1, ItemIsWorked DEF SprintNumbers, BacklogAssumption
<1>7. CASE Queue
  <2>1. active # 0 /\ active \in SprintNumbers
    BY <1>6, <1>7 DEF Queue
  <2>2. i \notin Mine(active)
    BY <1>1 DEF Mine
  <2>3. todos'[active][i] = todos[active][i]
    <3>1. PICK row : row = [j \in Items |->
                CASE j \in Mine(active) ->
                       IF todos[active][j] = "none" THEN "queued" ELSE todos[active][j]
                  [] j \notin Mine(active) /\ todos[active][j] = "queued" -> "none"
                  [] OTHER -> todos[active][j]]
      OBVIOUS
    <3>2. row[i] = todos[active][i]
      BY <1>1, <1>6, <2>1, <2>2, <3>1
    <3>3. todos' = [todos EXCEPT ![active] = row]
      BY <1>7, <3>1 DEF Queue
    <3>4. QED
      BY <1>1, <2>1, <3>2, <3>3
  <2>4. PICK its : its = [j \in Items |->
          IF j \in Mine(active) /\ items[j].status = "pending"
          THEN [items[j] EXCEPT !.status = "selected", !.selected = active] ELSE items[j]]
    OBVIOUS
  <2>5. items' = Synced(its, todos', active)
    BY <1>7, <2>4 DEF Queue
  <2>6. its[i] = items[i]
    BY <1>1, <2>2, <2>4
  <2>7. items'[i] = Applied(items[i], todos[active][i], active)
    BY <1>1, <2>3, <2>5, <2>6 DEF Synced
  <2>8. items[i] \in Item /\ todos[active][i] \in TodoStatus
    BY <1>1, <2>1
  <2>9. QED
    BY <1>1, <1>6, <2>1, <2>7, <2>8, AppliedIsItem
<1>8. ASSUME NEW s \in 1..started, Load(s)
      PROVE  items'[i].status = "done"
  <2>1. s = active
    <3>1. Fault("late") => ~Never("late")'
      BY FaultCounts DEF BacklogInv
    <3>2. QED
      BY <1>8, <3>1 DEF Load, Undisturbed
  <2>2. active # 0
    BY <1>1, <2>1 DEF BacklogAssumption
  <2>3. items' = Synced(items, todos, active)
    BY <1>8, <2>1 DEF Load
  <2>4. QED
    BY <1>1, <1>5, <1>6, <2>2, <2>3
<1>9. ASSUME NEW j \in Items, NEW status \in TodoStatus, active # 0,
             todos[active][j] \notin {"none", "completed"}
      PROVE  LET ended == [todos EXCEPT ![active][j] = status] IN
             /\ ended \in [SprintNumbers -> [Items -> TodoStatus]]
             /\ ended[active][i] = todos[active][i]
  BY <1>1, <1>6, <1>9
<1>10. ASSUME NEW j \in Items, TodoBegins(j) \/ Restart(j)
       PROVE  items'[i].status = "done"
  <2>1. PICK status \in {"queued", "running"} : todos' = [todos EXCEPT ![active][j] = status]
    BY <1>10 DEF TodoBegins, Restart
  <2>2. /\ active # 0 /\ todos[active][j] \notin {"none", "completed"}
        /\ items' = Synced(items, todos', active)
    BY <1>10 DEF TodoBegins, Restart
  <2>3. /\ todos' \in [SprintNumbers -> [Items -> TodoStatus]]
        /\ todos'[active][i] = todos[active][i]
    BY <1>9, <2>1, <2>2 DEF TodoStatus
  <2>4. QED
    BY <1>1, <1>5, <1>6, <2>2, <2>3
<1>11. ASSUME NEW j \in Items, NEW status \in {"completed", "blocked", "failed", "uncommitted"},
              TodoEnds(j, status)
       PROVE  items'[i].status = "done"
  <2>1. PICK ended : ended = [todos EXCEPT ![active][j] = status]
    OBVIOUS
  <2>2. active # 0 /\ todos[active][j] \notin {"none", "completed"}
    BY <1>11 DEF TodoEnds
  <2>3. ended \in [SprintNumbers -> [Items -> TodoStatus]] /\ ended[active][i] = todos[active][i]
    BY <1>9, <2>1, <2>2 DEF TodoStatus
  <2>4. PICK synced : synced = Synced(items, ended, active)
    OBVIOUS
  <2>5. synced[i].status = "done" /\ synced \in [Items -> Item]
    BY <1>1, <1>5, <1>6, <2>2, <2>3, <2>4, SyncedIsItems
  <2>6. items' = CarryOver(synced, status)
    BY <1>11, <2>1, <2>4 DEF TodoEnds
  <2>7. CASE status # "failed"
    BY <2>5, <2>6, <2>7 DEF CarryOver
  <2>8. CASE status = "failed"
    <3>1. PICK m \in Items : m = Min(Fresh) /\ items[m].status = "none"
      BY <1>11, <2>8, FreshIsNone DEF TodoEnds
    <3>2. items' = [synced EXCEPT ![m] = [@ EXCEPT !.status = "pending"]]
      BY <2>6, <2>8, <3>1 DEF CarryOver
    <3>3. m # i
      BY <1>1, <3>1
    <3>4. items'[i] = synced[i]
      BY <1>1, <2>5, <3>2, <3>3
    <3>5. QED
      BY <2>5, <3>4
  <2>9. QED
    BY <2>7, <2>8
<1>12. \/ UNCHANGED items \/ MergeWrites \/ Count \/ Start \/ Queue
       \/ \E s \in 1..started : Load(s)
       \/ \E j \in Items : \/ TodoBegins(j) \/ Restart(j)
                             \/ \E status \in {"completed", "blocked", "failed", "uncommitted"} :
                                  TodoEnds(j, status)
  <2>1. CASE Collect \/ Decide \/ Reviewed \/ StartPlanned \/ SprintEnds
    BY <2>1 DEF Collect, Decide, Reviewed, PlannerReports, QaPasses, StartPlanned,
           SprintEnds, board
  <2>2. CASE \E c \in SUBSET Items : DayPasses(c)
    BY <2>2 DEF DayPasses, board
  <2>3. CASE Merges
    BY <2>3 DEF Merges, MergeReads, board
  <2>4. CASE UNCHANGED backlogVars
    BY <2>4 DEF backlogVars, board
  <2>5. QED
    BY <2>1, <2>2, <2>3, <2>4 DEF BacklogNext, Works
<1>13. QED
  BY <1>2, <1>3, <1>4, <1>7, <1>8, <1>10, <1>11, <1>12

\* What a sprint did stays done, whoever writes the backlog, until the planner
\* reopens it.
THEOREM DoneIsKept == BacklogSpec => DoneStaysDone
<1> USE BacklogAssumption
<1>1. BacklogInit => BacklogInv
  BY InitKeeps
<1>2. BacklogInv /\ [BacklogNext]_backlogVars => BacklogInv'
  BY StepKeeps
<1>3. BacklogInv /\ [BacklogNext]_backlogVars =>
        [\A i \in WithStatus(items, "done") \ Journal :
            \/ items'[i].status = "done"
            \/ merge # Unread /\ merge.item = i /\ (merge.as = "reopened" \/ raced')
            \/ ~Undisturbed']_backlogVars
  BY DoneIsLeft
<1>4. QED
  BY <1>1, <1>2, <1>3, PTL DEF BacklogSpec, DoneStaysDone
=============================================================================
