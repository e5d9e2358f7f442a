--------------------------- MODULE SprintScheduler ---------------------------
(***************************************************************************)
(* Who starts, resumes and forgets sprints: the scheduler's poll           *)
(* (workflows/orchestration/scheduler.py), goal sourcing (goal_store.py,   *)
(* runtime/internal/goal_sourcing.py), the start of the process and the    *)
(* commands of operators, which come in over Discord or from a command     *)
(* line process of their own.  All of them load scheduler_state.json or a  *)
(* goal, await something, and save the whole file again.                   *)
(*                                                                         *)
(* What a sprint does is one action here; SprintPlanning and SprintTodo    *)
(* have the rest.                                                          *)
(***************************************************************************)
EXTENDS Integers, FiniteSets

CONSTANTS
    MaxSprints,     \* sprints that are ever started
    MaxGoals,
    MaxEvents,      \* commands of operators, crashes and reconnections, together
    Modes           \* sprint.start_mode manual_daily, else sprint.mode

ASSUME BoundsAssumption ==
    /\ {MaxSprints, MaxGoals, MaxEvents} \subseteq Nat
    /\ Modes \subseteq {"manual_daily", "hybrid", "rolling"}

VARIABLES
    mode,       \* the configuration
    sched,      \* scheduler_state.json
    made,       \* the last sprint id given out
    sprint,     \* the sprints' files
    goal,       \* the goals' files
    current,    \* goal_scheduler.json: active_goal_id
    poll,       \* the scheduler's coroutine, with the copies it holds
    ready,      \* on_ready, and the copy it holds
    waiting,    \* background tasks that wait for _sprint_resume_lock
    loop,       \* who is working on which sprint
    crossed,    \* a sprint or goal was changed while a copy of it was held
    torn,       \* history: sprints whose goal's save was lost in a crash
    commands, faults

vars == <<mode, sched, made, sprint, goal, current, poll, ready, waiting,
          loop, crossed, torn, commands, faults>>

Sprints == 1..MaxSprints
Goals == 1..MaxGoals
\* The process's locked loop, the poll's own loop of an automatic sprint, and
\* the loop of a command line process.
Sites == {"service", "auto", "cli"}

Ended == {"completed", "failed", "blocked"}
TerminalGoal == {"completed", "cancelled", "failed"}

\* The time of the next slot is left out: a poll finds that it has come, or not.
Scheds == [active: 0..MaxSprints, deferred: BOOLEAN, asked: BOOLEAN]
SprintFiles == [status: {"absent", "live"} \cup Ended,
                kind: {"none", "auto", "manual", "goal"}, goal: 0..MaxGoals]
GoalFiles == [status: {"absent", "active", "paused"} \cup TerminalGoal,
              linked: SUBSET Sprints, outcomes: SUBSET Sprints]

NoSched == [active |-> 0, deferred |-> FALSE, asked |-> FALSE]
NoSprint == [status |-> "absent", kind |-> "none", goal |-> 0]
NoGoal == [status |-> "absent", linked |-> {}, outcomes |-> {}]
Idle == [at |-> "idle", seen |-> NoSched, due |-> FALSE, goal |-> 0, copy |-> NoGoal]
NoLoop == [at |-> "none", sprint |-> 0, by |-> "none"]

Polling(stage) == poll.at = stage
GoPoll(stage) == poll' = [poll EXCEPT !.at = stage]
PollEnds == poll' = Idle

\* Something that was read before an await will be used or saved after it: the
\* scheduler's state, the id of a sprint to resume, a sprint being worked on.
HeldByPoll == poll.at \in {"resuming", "asking", "selecting"}
HeldByReady == ready.at = "asking"
HeldElsewhere == HeldByReady \/ waiting # {} \/ \E k \in Sites : loop[k] # NoLoop
Held == HeldByPoll \/ HeldElsewhere
WorkedOn(s) == \E k \in Sites : loop[k].sprint = s

-----------------------------------------------------------------------------
(* Goals: goal_store.py *)

GoalSaved(g, file) == goal' = [goal EXCEPT ![g] = file]

\* clear_active_goal_id
PointerCleared(g) == current' = IF current = g THEN 0 ELSE current

\* load_current_goal, load_active_goal: a pointer to a finished goal is dropped.
Resumable(g) == g # 0 /\ goal[g].status \in {"active", "paused"}
CurrentGoal == IF Resumable(current) THEN current ELSE 0
PausedGoalToo == CurrentGoal
ActiveGoal == IF CurrentGoal # 0 /\ goal[CurrentGoal].status = "active" THEN CurrentGoal ELSE 0
PointerLoaded == current' = CurrentGoal

OutcomeForgotten(s) == UNCHANGED <<goal, torn>>

\* record_goal_sprint_outcome: the sprint is linked as well if it is not yet.
OutcomeRecorded(s) ==
    LET g == sprint[s].goal IN
    /\ goal' = IF g = 0 THEN goal
               ELSE [goal EXCEPT ![g].outcomes = @ \cup {s}, ![g].linked = @ \cup {s}]
    /\ torn' = torn \ {s}

\* What the sourcer's answer amounts to: normalize_goal_sourcing_payload and
\* the tests of _handle_goal_sourcing_result.
Replies == [status: {"active", "sourced", "completed", "no_action", "failed", "unknown"},
            error: BOOLEAN, decision: {"yes", "no", "missing"}, title: BOOLEAN, stop: BOOLEAN]

NormalStatus(reply) ==
    LET named == IF reply.status = "active" THEN "sourced"
                 ELSE IF reply.status = "unknown"
                      THEN IF reply.error THEN "failed" ELSE "no_action"
                 ELSE reply.status
    IN  IF reply.decision = "yes" THEN "completed"
        ELSE IF reply.title /\ named = "no_action" THEN "sourced"
        ELSE named

Verdict(reply) ==
    IF NormalStatus(reply) \in {"completed", "failed"} THEN NormalStatus(reply)
    ELSE IF reply.title THEN "milestone" ELSE "nothing"

\* A sourcer that raises counts as one that failed.
Verdicts == {[what |-> Verdict(reply), stop |-> reply.stop] : reply \in Replies}

-----------------------------------------------------------------------------
(* Sprints: starting, resuming and finishing *)

\* build_manual_sprint_state, run_autonomous_sprint: the id is saved in the
\* scheduler's state first and the sprint's file after it, without an await.
Started(kind, g) ==
    /\ made < MaxSprints
    /\ made' = made + 1
    /\ sched' = [sched EXCEPT !.active = made + 1, !.asked = FALSE]
    /\ sprint' = [sprint EXCEPT ![made + 1] = [status |-> "live", kind |-> kind, goal |-> g]]

NeverRefused == FALSE
\* start_sprint_lifecycle: refused while the active sprint has a file.
ActiveFile == sched.active # 0 /\ sprint[sched.active].status # "absent"

\* finish_scheduler_after_sprint.  A completed sprint clears the active one by
\* default; a sprint is blocked in its initial phase only, where every caller of
\* _complete_terminal_sprint asks for it.
Finished(state, s, clear) == [state EXCEPT !.active = IF clear THEN 0 ELSE s]
ClearsActive(s) == sprint[s].status \in {"completed", "blocked"}

\* resume_active_sprint, up to its first await: a sprint is worked on, or the
\* scheduler's state is saved again as for a finished one.
Workable(s) == sprint[s].status \in {"live", "blocked"}

LoopBegins(site, s, by) ==
    loop' = [loop EXCEPT ![site] = [at |-> "working", sprint |-> s, by |-> by]]

ResumeAt(site, s, by) ==
    IF Workable(s) THEN LoopBegins(site, s, by) /\ UNCHANGED sched
    ELSE sched' = Finished(sched, s, sprint[s].status = "completed") /\ UNCHANGED loop

\* The poll's resumption has returned: a slot that came before it is kept.
Deferred(state) ==
    IF state.active # 0 /\ poll.due THEN [state EXCEPT !.deferred = TRUE] ELSE state

\* The background task or the poll gets the lock.
TaskResumes(s) ==
    /\ s \in waiting
    /\ loop["service"] = NoLoop
    /\ waiting' = waiting \ {s}
    /\ ResumeAt("service", s, "task")
    /\ UNCHANGED <<mode, made, sprint, goal, current, poll, ready, crossed, torn, commands, faults>>

PollResumes ==
    LET s == poll.seen.active IN
    /\ Polling("resuming")
    /\ loop["service"] = NoLoop
    /\ IF Workable(s) THEN ResumeAt("service", s, "poll") /\ GoPoll("resumed")
       ELSE /\ sched' = Deferred(Finished(sched, s, sprint[s].status = "completed"))
            /\ PollEnds
            /\ UNCHANGED loop
    /\ UNCHANGED <<mode, made, sprint, goal, current, ready, waiting, crossed, torn, commands, faults>>

LoopIsOver(site, state) ==
    /\ loop' = [loop EXCEPT ![site] = NoLoop]
    /\ poll' = IF loop[site].by \in {"poll", "auto"} THEN Idle ELSE poll
    /\ sched' = IF loop[site].by = "poll" THEN Deferred(state) ELSE state

\* A sprint's loop returns: it waits for an operator, or the sprint has ended.
\* Its file and its goal's are saved, then the reports are sent.
LoopReturns(site) ==
    /\ loop[site].at = "working"
    /\ LoopIsOver(site, sched)
    /\ UNCHANGED <<mode, made, sprint, goal, current, ready, waiting, crossed, torn, commands, faults>>

LoopEnds(site, status) ==
    LET s == loop[site].sprint IN
    /\ loop[site].at = "working"
    /\ status = "blocked" => sprint[s].kind # "auto"
    /\ sprint' = [sprint EXCEPT ![s].status = status]
    /\ OutcomeRecorded(s)
    /\ loop' = [loop EXCEPT ![site].at = "reporting"]
    /\ crossed' = (crossed \/ (Polling("sourcing") /\ goal' # goal))
    /\ UNCHANGED <<mode, sched, made, current, poll, ready, waiting, commands, faults>>

\* _complete_terminal_sprint after the reports.
LoopReported(site) ==
    /\ loop[site].at = "reporting"
    /\ LoopIsOver(site, Finished(sched, loop[site].sprint, ClearsActive(loop[site].sprint)))
    /\ UNCHANGED <<mode, made, sprint, goal, current, ready, waiting, crossed, torn, commands, faults>>

-----------------------------------------------------------------------------
(* The poll: poll_scheduler_once *)

\* Manual sprints wait for a command; otherwise the state is loaded again, and
\* the blocked backlog reviewed and items selected in other threads.
GoesOn(state, due) ==
    IF mode = "manual_daily" THEN Idle
    ELSE [Idle EXCEPT !.at = "selecting", !.seen = state, !.due = due]

PollLeavesActive(due) ==
    /\ Polling("idle")
    /\ sched.active = 0
    /\ PointerLoaded
    /\ poll' = IF ActiveGoal # 0
               THEN [Idle EXCEPT !.at = "sourcing", !.goal = ActiveGoal, !.copy = goal[ActiveGoal]]
               ELSE GoesOn(sched, due)
    /\ UNCHANGED <<mode, sched, made, sprint, goal, ready, waiting, loop, crossed, torn, commands, faults>>

PollBegins(due) ==
    /\ Polling("idle")
    /\ IF sched.active # 0
       THEN /\ poll' = [Idle EXCEPT !.at = "resuming", !.seen.active = sched.active,
                                    !.due = due /\ ~sched.deferred]
            /\ UNCHANGED current
       ELSE /\ PointerLoaded
            /\ poll' = IF ActiveGoal # 0
                       THEN [Idle EXCEPT !.at = "sourcing", !.goal = ActiveGoal, !.copy = goal[ActiveGoal]]
                       ELSE IF sched.asked THEN GoesOn(sched, due)
                       ELSE [Idle EXCEPT !.at = "asking", !.seen = sched, !.due = due]
    /\ UNCHANGED <<mode, sched, made, sprint, goal, ready, waiting, loop, crossed, torn, commands, faults>>

\* _maybe_request_idle_sprint_milestone: the state loaded before the message
\* was sent is saved after it.
Asked(sent) ==
    /\ Polling("asking")
    /\ sched' = IF sent THEN [poll.seen EXCEPT !.asked = TRUE] ELSE sched
    /\ poll' = GoesOn(sched', poll.due)
    /\ UNCHANGED <<mode, made, sprint, goal, current, ready, waiting, loop, crossed, torn, commands, faults>>

Triggers(backlogReady) == poll.seen.deferred \/ (mode = "hybrid" /\ backlogReady) \/ poll.due

\* No sprint: a review of the blocked backlog was queued, no trigger, or nothing
\* to work on.  A trigger uses up the deferred slot.
NothingSelected ==
    /\ Polling("selecting")
    /\ \/ sched' = poll.seen
       \/ sched' = [poll.seen EXCEPT !.deferred = FALSE]
    /\ PollEnds
    /\ UNCHANGED <<mode, made, sprint, goal, current, ready, waiting, loop, crossed, torn, commands, faults>>

\* run_autonomous_sprint, on the poll's own coroutine and without the lock.
\* What it tests is the state the poll has just saved over the file.
RunAutonomous(backlogReady) ==
    LET s == made + 1 IN
    /\ Polling("selecting")
    /\ poll.seen.active = 0
    /\ Triggers(backlogReady)
    /\ s \in Sprints
    /\ made' = s
    /\ sched' = [active |-> s, deferred |-> FALSE, asked |-> FALSE]
    /\ sprint' = [sprint EXCEPT ![s] = [status |-> "live", kind |-> "auto", goal |-> 0]]
    /\ LoopBegins("auto", s, "auto")
    /\ poll' = [Idle EXCEPT !.at = "auto"]
    /\ crossed' = (crossed \/ HeldElsewhere)
    /\ UNCHANGED <<mode, goal, current, ready, waiting, torn, commands, faults>>

\* The sourcer's thread returns: _handle_goal_sourcing_result works on the goal
\* as it was when the thread was started, and saves it: when the goal ends, when
\* a milestone is recorded, and when a stop condition was derived for a goal that
\* had none.
\* complete_goal, fail_goal
GoalEnds(verdict) ==
    /\ verdict.what \in {"completed", "failed"}
    /\ GoalSaved(poll.goal, [poll.copy EXCEPT !.status = verdict.what])
    /\ PointerCleared(poll.goal)
    /\ UNCHANGED <<made, sched, sprint, waiting, crossed>>

MilestoneLinksBefore(verdict) ==
    /\ verdict.what = "milestone"
    /\ IF ActiveFile THEN UNCHANGED <<made, sched, sprint, waiting>>
       ELSE Started("goal", poll.goal) /\ waiting' = waiting \cup {made + 1}
    /\ GoalSaved(poll.goal, [poll.copy EXCEPT !.linked = @ \cup {sched.active}])
    /\ crossed' = (crossed \/ ActiveFile \/ Held)
    /\ UNCHANGED current

\* _start_goal_sourced_sprint: what is active after the start is linked, also
\* when the start was refused.
MilestoneStarts(verdict) ==
    /\ verdict.what = "milestone"
    /\ IF ActiveFile THEN UNCHANGED <<made, sched, sprint, waiting>>
       ELSE Started("goal", poll.goal) /\ waiting' = waiting \cup {made + 1}
    /\ GoalSaved(poll.goal, [poll.copy EXCEPT !.linked = @ \cup {sched'.active}])
    /\ crossed' = (crossed \/ ActiveFile \/ Held)
    /\ UNCHANGED current

NothingSourced(verdict) ==
    /\ verdict.what = "nothing"
    /\ IF verdict.stop THEN GoalSaved(poll.goal, poll.copy) ELSE UNCHANGED goal
    /\ UNCHANGED <<made, sched, sprint, waiting, current, crossed>>

SourcingReturns ==
    /\ Polling("sourcing")
    /\ \E verdict \in Verdicts :
          GoalEnds(verdict) \/ MilestoneStarts(verdict) \/ NothingSourced(verdict)
    /\ PollEnds
    /\ UNCHANGED <<mode, ready, loop, torn, commands, faults>>

-----------------------------------------------------------------------------
(* The start of the process, and its end *)

OnReady ==
    /\ ready.at = "starting"
    /\ waiting' = IF sched.active # 0 THEN waiting \cup {sched.active} ELSE waiting
    /\ ready' = IF sched.active # 0 \/ sched.asked THEN [at |-> "idle", seen |-> NoSched]
                ELSE [at |-> "asking", seen |-> sched]
    /\ UNCHANGED <<mode, sched, made, sprint, goal, current, poll, loop, crossed, torn, commands, faults>>

ReadyAsked(sent) ==
    /\ HeldByReady
    /\ sched' = IF sent THEN [ready.seen EXCEPT !.asked = TRUE] ELSE sched
    /\ ready' = [at |-> "idle", seen |-> NoSched]
    /\ UNCHANGED <<mode, made, sprint, goal, current, poll, waiting, loop, crossed, torn, commands, faults>>

\* Discord's client connects again.
Reconnects ==
    /\ commands + faults < MaxEvents
    /\ ready.at = "idle"
    /\ faults' = faults + 1
    /\ ready' = [ready EXCEPT !.at = "starting"]
    /\ UNCHANGED <<mode, sched, made, sprint, goal, current, poll, waiting, loop, crossed, torn, commands>>

ProcessRestarted ==
    /\ commands + faults < MaxEvents
    /\ faults' = faults + 1
    /\ poll' = Idle
    /\ ready' = [at |-> "starting", seen |-> NoSched]
    /\ waiting' = {}
    /\ loop' = [loop EXCEPT !["service"] = NoLoop, !["auto"] = NoLoop]

Crash ==
    /\ ProcessRestarted
    /\ UNCHANGED <<mode, sched, made, sprint, goal, current, crossed, torn, commands>>

Torn(s) == torn' = IF sprint'[s].goal = 0 THEN torn ELSE torn \cup {s}

\* A crash between the two saves of a start.
CrashInStart ==
    /\ ~ActiveFile
    /\ made < MaxSprints
    /\ made' = made + 1
    /\ sched' = [sched EXCEPT !.active = made + 1, !.asked = FALSE]
    /\ ProcessRestarted
    /\ UNCHANGED <<mode, sprint, goal, current, crossed, torn, commands>>

\* A crash after both of them, before the milestone is recorded in the goal.
CrashInMilestone ==
    /\ Polling("sourcing") /\ ~ActiveFile
    /\ Started("goal", poll.goal)
    /\ Torn(made + 1)
    /\ crossed' = (crossed \/ loop["cli"] # NoLoop)
    /\ ProcessRestarted
    /\ UNCHANGED <<mode, goal, current, commands>>

\* A crash between the save of an ended sprint and that of its goal, of the service
\* or of a command line process.  Only a sprint that is resumed reports again.
CrashInEnd(site, status) ==
    LET s == loop[site].sprint IN
    /\ loop[site].at = "working"
    /\ status = "blocked" => sprint[s].kind # "auto"
    /\ sprint' = [sprint EXCEPT ![s].status = status]
    /\ Torn(s)
    /\ IF site # "cli" THEN ProcessRestarted
       ELSE /\ commands + faults < MaxEvents
            /\ faults' = faults + 1
            /\ loop' = [loop EXCEPT !["cli"] = NoLoop]
            /\ UNCHANGED <<poll, ready, waiting>>
    /\ UNCHANGED <<mode, sched, made, goal, current, crossed, commands>>

-----------------------------------------------------------------------------
(* Commands: from Discord, whose handlers run in the service's process and     *)
(* resume the sprint in the background, or from a command line process, which  *)
(* runs the sprint itself under a lock of its own.                             *)

Command(from) ==
    /\ commands + faults < MaxEvents
    /\ commands' = commands + 1
    /\ from = "cli" => loop["cli"] = NoLoop
    /\ UNCHANGED <<mode, poll, ready, torn, faults>>

Resumes(from, s) ==
    IF from = "cli" THEN ResumeAt("cli", s, "cli") /\ UNCHANGED waiting
    ELSE waiting' = waiting \cup {s} /\ UNCHANGED <<loop, sched>>

\* start_sprint_lifecycle
StartSprint(from) ==
    /\ Command(from)
    /\ ~ActiveFile
    /\ Started("manual", 0)
    /\ IF from = "cli"
       THEN LoopBegins("cli", made + 1, "cli") /\ UNCHANGED waiting
       ELSE waiting' = waiting \cup {made + 1} /\ UNCHANGED loop
    /\ crossed' = (crossed \/ Held \/ Polling("sourcing"))
    /\ UNCHANGED <<goal, current>>

\* stop_sprint_lifecycle: a failed or blocked sprint is put away, another one is
\* asked to wrap up and resumed.
StopSprint(from) ==
    LET s == sched.active IN
    /\ Command(from)
    /\ ActiveFile
    /\ IF sprint[s].status \in {"failed", "blocked"}
       THEN /\ sched' = Finished(sched, s, TRUE)
            /\ crossed' = (crossed \/ Held \/ WorkedOn(s))
            /\ UNCHANGED <<waiting, loop>>
       ELSE Resumes(from, s) /\ crossed' = (crossed \/ (Held /\ from = "cli"))
    /\ UNCHANGED <<made, sprint, goal, current>>

\* restart_sprint_lifecycle
Latest == IF \E s \in Sprints : sprint[s].status # "absent"
          THEN CHOOSE s \in Sprints : /\ sprint[s].status # "absent"
                                      /\ \A t \in Sprints : sprint[t].status # "absent" => t <= s
          ELSE 0

RestartSprint(from) ==
    LET s == IF ActiveFile THEN sched.active ELSE Latest IN
    /\ Command(from)
    /\ s # 0
    /\ Workable(s)
    /\ sched' = [sched EXCEPT !.active = s]
    /\ IF from = "cli"
       THEN LoopBegins("cli", s, "cli") /\ UNCHANGED waiting
       ELSE waiting' = waiting \cup {s} /\ UNCHANGED loop
    /\ crossed' = (crossed \/ (Held /\ sched.active # s) \/ Polling("sourcing"))
    /\ UNCHANGED <<made, sprint, goal, current>>

\* create_goal
StartGoal ==
    /\ Command("cli")
    /\ CurrentGoal = 0
    /\ \E g \in Goals :
        /\ goal[g].status = "absent"
        /\ \A h \in 1..(g - 1) : goal[h].status # "absent"
        /\ GoalSaved(g, [NoGoal EXCEPT !.status = "active"])
        /\ current' = g
    /\ crossed' = (crossed \/ Polling("sourcing"))
    /\ UNCHANGED <<sched, made, sprint, waiting, loop>>

\* _request_goal_sprint_wrap_up, and the resumption that follows it.
GoalSprintWrapsUp ==
    LET s == sched.active IN
    IF ActiveFile /\ sprint[s].goal = CurrentGoal THEN Resumes("cli", s)
    ELSE UNCHANGED <<sched, waiting, loop>>

GoalCommand(status) ==
    /\ Command("cli")
    /\ CurrentGoal # 0
    /\ GoalSaved(CurrentGoal, [goal[CurrentGoal] EXCEPT !.status = status])
    /\ crossed' = (crossed \/ Held \/ Polling("sourcing"))
    /\ UNCHANGED <<made, sprint>>

StopGoal == GoalCommand("paused") /\ PointerLoaded /\ GoalSprintWrapsUp
ResumeGoal == GoalCommand("active") /\ PointerLoaded /\ UNCHANGED <<sched, waiting, loop>>
CancelGoal == GoalCommand("cancelled") /\ PointerCleared(CurrentGoal) /\ GoalSprintWrapsUp

-----------------------------------------------------------------------------
Init ==
    /\ mode \in Modes
    /\ sched = NoSched
    /\ made = 0
    /\ sprint = [s \in Sprints |-> NoSprint]
    /\ goal = [g \in Goals |-> NoGoal]
    /\ current = 0
    /\ poll = Idle
    /\ ready = [at |-> "starting", seen |-> NoSched]
    /\ waiting = {}
    /\ loop = [k \in Sites |-> NoLoop]
    /\ crossed = FALSE
    /\ torn = {}
    /\ commands = 0
    /\ faults = 0

PollStep ==
    \/ (\E due \in BOOLEAN : PollBegins(due)) \/ PollResumes
    \/ (\E sent \in BOOLEAN : Asked(sent)) \/ SourcingReturns
    \/ NothingSelected \/ (\E backlogReady \in BOOLEAN : RunAutonomous(backlogReady))

LoopStep(site) ==
    LoopReturns(site) \/ (\E status \in Ended : LoopEnds(site, status)) \/ LoopReported(site)

ReadyStep == OnReady \/ ReadyAsked(TRUE) \/ ReadyAsked(FALSE)

Next ==
    \/ PollStep \/ ReadyStep \/ Reconnects \/ Crash \/ CrashInStart \/ CrashInMilestone
    \/ \E site \in Sites, status \in Ended : CrashInEnd(site, status)
    \/ \E s \in Sprints : TaskResumes(s)
    \/ \E site \in Sites : LoopStep(site)
    \/ \E from \in {"service", "cli"} : StartSprint(from) \/ StopSprint(from) \/ RestartSprint(from)
    \/ StartGoal \/ StopGoal \/ ResumeGoal \/ CancelGoal

\* The event loop runs every coroutine that can go on, and a sprint's loop comes
\* to an end: what it waits for is answered (RequestRelay) or times out.
Fairness ==
    /\ WF_vars(PollStep)
    /\ WF_vars(ReadyStep)
    /\ \A s \in Sprints : SF_vars(TaskResumes(s))
    /\ \A site \in Sites : WF_vars(LoopStep(site))

Spec == Init /\ [][Next]_vars /\ Fairness

-----------------------------------------------------------------------------
(* Properties *)

TypeOK ==
    /\ mode \in Modes
    /\ sched \in Scheds
    /\ made \in 0..MaxSprints
    /\ sprint \in [Sprints -> SprintFiles]
    /\ goal \in [Goals -> GoalFiles]
    /\ current \in 0..MaxGoals
    /\ poll.at \in {"idle", "resuming", "resumed", "sourcing", "asking", "selecting", "auto"}
    /\ poll.seen \in Scheds /\ poll.goal \in 0..MaxGoals /\ poll.copy \in GoalFiles
    /\ ready \in [at : {"idle", "starting", "asking"}, seen : Scheds]
    /\ waiting \subseteq Sprints
    /\ loop \in [Sites -> [at : {"none", "working", "reporting"}, sprint : 0..MaxSprints,
                           by : {"none", "task", "poll", "auto", "cli"}]]
    /\ crossed \in BOOLEAN
    /\ torn \subseteq Sprints
    /\ {commands, faults} \subseteq 0..MaxEvents

Live(s) == sprint[s].status = "live"

\* As long as no command crosses a held copy, one sprint is live at most and the
\* scheduler knows it: through starts, crashes, restarts and resumptions.
SprintIsKnown == ~crossed => \A s \in Sprints : Live(s) => sched.active = s

\* As long as no command crosses a held copy, a goal is linked to the sprints
\* started for it and to no other, and has the outcome of each one that ended,
\* except a sprint whose goal was not saved in a crash and that did not end since.
GoalKnowsItsSprints ==
    ~crossed => \A g \in Goals :
        LET own == {s \in Sprints : sprint[s].goal = g} IN
        /\ goal[g].linked \subseteq own /\ own \subseteq goal[g].linked \cup torn
        /\ \A s \in own \ torn : sprint[s].status \in Ended => s \in goal[g].outcomes

\* Scheduler, goals and the sprints' files tell of the same sprints.
SprintsAreKnown == TypeOK /\ SprintIsKnown /\ GoalKnowsItsSprints

\* operations_guide.md:65: a paused goal does not source new sprints, and cancel
\* is permanent.
SourcedWhileActive ==
    \A s \in Sprints : Live(s)' /\ ~Live(s) /\ sprint'[s].kind = "goal" /\ sprint[s].kind = "none"
        => goal[sprint'[s].goal].status = "active"

TerminalIsTerminal ==
    \A g \in Goals : goal[g].status \in TerminalGoal => goal'[g].status = goal[g].status

\* Both hold as long as no goal command comes while the sourcer runs.
GoalIsObeyed == [][~crossed' => SourcedWhileActive /\ TerminalIsTerminal]_vars

\* A sprint that is live is worked on again, whatever crashed, until it ends.
LiveIsWorkedOn ==
    \A s \in Sprints : Live(s) ~> (WorkedOn(s) \/ ~Live(s) \/ crossed)

=============================================================================
