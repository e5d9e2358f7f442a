# sprint-runtime: specifications, model checking and proofs

`sprint-runtime` (package `teams_runtime`) is an orchestrator and a set of role
agents (research, planner, designer, architect, developer, qa), each a process of
its own, that work off software sprints.  The agents are external command line
models; the program around them decides who works next on what, carries requests
and reports between the processes, keeps every record in JSON files, has changes
committed, closes sprints out and publishes them.  This directory models that
program in TLA+.

Contents: [the system](#1-the-system) ·
[modules](#2-the-modules) · [runs](#3-the-runs) ·
[proofs](#4-the-proofs) · [disagreements](#5-where-code-and-documents-disagree) ·
[limits](#6-what-is-not-modelled) · [plan](#7-plan)

To check a run: `tlc -config SprintTodo.cfg MCSprintTodo`; to check the proofs:
`tlapm WorkflowRequestProofs.tla` (and so on; `SprintTodoProofs` takes some minutes).

## 1. The system

Paths are relative to `src/`.

| component | code | state | operations |
|---|---|---|---|
| Workflow policy | `workflows/orchestration/engine.py` | none; computes on `params["workflow"]` of a request | rewrite reports that break a contract, derive the routing decision |
| Request driver | `workflows/orchestration/delegation.py`, `team_service.py`, `ingress.py` | the request record: status, current role, workflow, result | start, apply a report, delegate, block, complete, cancel, resume, retry |
| Relay and resume loops | `workflows/orchestration/relay.py`, `team_service.py:4242-4332`, `delegation.py:2383-2643` | inbox and archive directories, claims in memory | enqueue, consume, archive, run, report, resend, rerun |
| Role result contract | `runtime/role_result_contract.py` | none | judge a result valid, invalid or repairable |
| Sprint planning phase | `team_service.py` (`_run_initial_sprint_phase`), `lifecycle.py` | the sprint's file: steps, plan, reopenings | five steps, validation, confirmation, change requests, start |
| Sprint todo loop | `workflows/sprints/lifecycle.py`, `team_service.py` | todos, requirements and candidates, flags | queue, execute, commit, review, closeout, recovery, stop, restart |
| Sprint endings | `lifecycle.py`, `team_service.py` (`_complete_terminal_sprint`) | final status in record, history and goal | save, publish, report, release the scheduler |
| Scheduler | `workflows/orchestration/scheduler.py`, `team_service.py` | `scheduler_state.json`: active sprint, slots, milestone request | poll, start, defer, resume |
| Goals | `workflows/state/goal_store.py`, `runtime/internal/goal_sourcing.py` | goals, their sprints and outcomes | start, pause, resume, cancel, source the next milestone, record an outcome |
| Backlog | `workflows/state/backlog_store.py`, `scheduler.py` | backlog items, reviews | merge, drop, repair, select, carry over, block, review, reopen |
| Ingress and intake | `workflows/orchestration/ingress.py`, `delegation.py` | handlers in memory, claims | take messages, find duplicates, retry, resume, cancel, verify |
| Request and sprint stores | `workflows/state/request_store.py`, `sprint_store.py`, `shared/persistence.py` | JSON files | load and save whole records, without locks |
| Version control | `workflows/repository_ops.py` | the git worktree, baselines | inspect changes against a baseline, stage, settle conflicts, commit, verify a closeout |
| Discord messages | `adapters/discord/client.py`, `workflows/orchestration/notifications.py` | send lock, connection, parts received | split, send with retries, reconnect, merge |
| Role services | `adapters/discord/lifecycle.py`, `adapters/cli/commands.py` | pid file, state file, `flock` | run, start, stop, restart |
| Issue publisher | `workflows/sprints/github_issue_publisher.py` | a GitHub issue and its comments | find, create, update by markers |
| Others | role runtimes and sessions, intent parser, research role, reporting, CLI parsing, templates, shared models | files and texts | prompts, rendering and I/O |

**How they interact.**  The orchestrator's process runs one asyncio loop with the
relay consumer, the scheduler's poll, the sprint loop, the handlers of users'
messages and the commands of operators; some commands run in a command line process of
their own, with a loop and a lock of their own.  A role's process runs its relay
consumer and its resume loop.  All share the files.  A request is *delegated*: the
orchestrator saves `status=delegated, current_role=r` in the record and puts an
envelope in r's inbox; r runs the model for minutes, saves the result in the record
and puts a report in the orchestrator's inbox; the orchestrator applies it, which
decides the next role, or completes or blocks the request.  The sprint loop waits for
the request by polling its record, asks a version controller to commit what it
changed, and goes on.  The backlog follows the todos on every load and save of a sprint.

**What is hard about it.**

* Every record is loaded whole, changed over an `await` or a run of minutes and
  saved whole, by several processes, without locks or versions.
* An envelope is archived after it was handled, so a crash repeats it; a failed
  send is not retried; a resume loop repairs both, from what the record says.
* A sprint is recovered from its requests on *every* load and save, while
  the loop works on its own copy for hours and reports rewrite the file.
* A workflow may be reopened from almost every step into almost every
  earlier one, and each combination must still pass guidance, review and QA.
* Commits happen in an external process between two saves, in a worktree that its
  user edits too.
* Starts, resumptions and commands meet in a scheduler state that the poll holds
  over whole sprints.
* An ending has many steps on files, GitHub and Discord, each of which can be the
  last one before a crash.

**What makes each component correct.**

* *Policy and driver*: no build without guidance, no revision or QA
  without a review of the last build, passes and reviews bounded, only the owner
  of a step is waited for, closed only by QA or by the planner in planning,
  finished requests left alone.
* *Relay*: a report counts for the turn it answers; a run is not started twice at
  the same time; a delegated request does not wait for ever; together the files and
  loops look like turns taken one after another.
* *Planning*: a sprint starts from a plan the user confirmed and a backlog that
  covers it; change requests are neither lost nor ignored; planning returns.
* *Todo loop*: done work is committed, exactly once; uncommitted work
  is never forgotten; a todo has one open request; a wish on file is decided on; a
  completed sprint leaves a clean worktree and no requirement open; a sprint ends.
* *Endings*: one issue, as the sprint ended; record, history, goal and scheduler agree.
* *Scheduler and goals*: one live sprint, known and worked on; a goal knows its
  sprints; commands are obeyed.
* *Backlog*: a selected item is in its sprint's list, done stays done, blocked items
  are reviewed, pending ones taken.
* *Version control*: what a task wrote is in the history when it counts as done,
  and nothing else is.
* *Intake*: one open request for a wish, one handler at work on it, ended ones stay ended.
* *Messages and services*: what is merged was sent; no send blocks the others; one
  process serves a role, start serves and stop stops.

## 2. The modules

| module | models | kind |
|---|---|---|
| `WorkflowPolicy` | `engine.py`: workflow states, routing functions, enforced contracts, `Derive` | pure operators |
| `WorkflowRequest` | `delegation.py` on one request record, with cancel, resume and retry | state machine over `WorkflowPolicy` |
| `RequestTurns` | what orchestrator and roles promise about a request | abstract specification |
| `RequestRelay` | inboxes, archives, claims, resume loops, saves of the record | state machine, implements `RequestTurns` |
| `RequestIntake` | messages, duplicates, retries, resumptions, verification, cancellation of several requests | state machine |
| `SprintPlanning` | the planning phase of a manual sprint | state machine |
| `SprintRequirements` | requirements and requirement candidates of a sprint | pure operators |
| `SprintTodo` | the todo loop of a manual sprint, commits, closeout, recovery, wishes | state machine over `SprintRequirements` |
| `SprintClosing` | a sprint's end: records, GitHub issue, report, scheduler, goal | state machine |
| `SprintScheduler` | poll, start of the process, commands, goals and goal sourcing | state machine |
| `SprintBacklog` | backlog items under sprints, merges, reviews and repairs | state machine |
| `VersionControl` | baselines, the commit helper, the closeout's inspection, over git | state machine |
| `DiscordMessages` | splitting, sending, connecting, receiving, merging | state machine |
| `RoleService` | one role's process and the commands that start and stop it | state machine |
| `WorkflowRequestProofs` (with `WorkflowPolicy`'s lemmas), `RequestRelayProofs`, `RequestIntakeProofs`, `SprintPlanningProofs`, `SprintTodoProofs`, `SprintSchedulerProofs`, `VersionControlProofs`, `RoleServiceProofs` | theorems about the modules of these names; `SprintSchedulerProofs` also about `SprintBacklog`, `VersionControlProofs` about `SprintClosing`, `RoleServiceProofs` about `DiscordMessages` | proofs |
| `MC*` | instances for TLC | |

The modules look at the same system from different sides, and what one assumes
another shows:

* `WorkflowRequest` knows what a report *decides* and takes its transport for
  granted; `RequestRelay` knows how delegations and reports *travel* and lets an
  accepted report decide anything; `RequestIntake` knows how requests come about and
  lets a role's run end in any way.
* `SprintTodo` and `SprintPlanning` assume that a delegated request is answered in the
  end, which is `RequestRelay!Settles`.
* `SprintTodo` has the version controller commit a todo's changes in one step that may
  fail; `VersionControl` has the helper's steps and what the answer is worth.
* `SprintScheduler` has a sprint's loop return or end in one step, which is
  `SprintPlanning!PlanningReturns`, `SprintTodo!Ends` and `SprintClosing!EndIsFinished`.
* `SprintBacklog` lets a sprint's todos do what `SprintTodo` does to them, over
  several sprints.

### WorkflowPolicy and WorkflowRequest

The record's fields are variables: `status`, `currentRole`, `managed` (is
`params["workflow"]` set) and `wf`, the normalised workflow state (phase, step,
owner, status of the phase, passes, reviews, reopening source and category).  Four
history variables serve the properties only.  A report is a record of what the
code tests of it: role, status, an error text or none, the contract's verdict, the
transition it asks for, which planner documents it has or claims, and which
families of tokens its text holds.  Texts themselves do not occur.

| action | handler |
|---|---|
| `StartChain` | `run_internal_request_chain`, first delegation |
| `HandleRoleReport` | `handle_role_report`: stale check, enforced contract, `apply_role_result` |
| `OrchestratorResult` | `run_local_orchestrator_request`: the result is applied to the copy loaded before the run (`held`), whatever the record says by now |
| `CancelRequest` | `cancel_request` |
| `ResumeBlocked`, `RetryBlocked` | `_resume_request_with_context`, `retry_blocked_duplicate_request` |

`ApplyRoleResult` is the whole of `apply_role_result`: judging, coercion, failure
or blocking, routing, the specification report, capability scoring, completion.

Decisions of the model:

* Capability scores are not computed: any role that
  `DEFAULT_AGENT_UTILIZATION_POLICY` lets the reporting role select may win.
* `planner_advisory` is not a step, because normalisation always renames it.
* Only the orchestrator sets `handled` (`proposals.request_handling`): no other
  role's prompt offers it (`HandlingAssumption`).
* A transition carries a category with a reopening only.
* Terminal cases that end alike (verification results, backlog proposals)
  are `CompleteWith`.
* Control actions and the resumption of other requests by a verification are
  `RequestIntake`'s, blocked backlog reviews `SprintBacklog`'s.

### RequestTurns and RequestRelay

`rec` is the request's file, `inbox` and `reports` are the unarchived envelopes,
`task[r][loop]` is what a loop of role r is doing with the copy of the record it
loaded, `claimed` the claims in memory, `scanned` what a pass of the resume loop
has read and not used yet, `orch` the orchestrator's consumer.  Each action is the
code between two points at which another process can be seen: `TakeDelegate`,
`FinishRun`, `SendReport`, `EndTask` for the role, `AcceptReport`, `RouteTo` /
`CompleteRequest` / `BlockRequest`, `SendDelegate`, `ArchiveReport` for the
orchestrator, `ResumeNow` or `ResumeScan` and `ResumeLater` for the resume loop.
Enqueueing an envelope and recording its delivery is one step.  An accepted report may
decide anything, the same report another time something else.

The record carries a `turn`, which the code does not have: it identifies a turn
by its role alone.  `turn` lets the properties say what the code cannot tell apart.

Nothing orders the processes: envelopes wait arbitrarily long and are taken in any
order, a report is sent whenever a run ends, a cancellation comes at any time, a pass of
the resume loop uses what it read at any time later, and a process may crash between any
two steps.  What the code then really gets wrong is remembered, and nothing else:
`crossed` (history) is set

* by a save of a copy of the record that was changed since it was read (`Changed`): the
  code keeps no versions and takes the other write back;
* when a role is asked again while an answer of its own is still on its way
  (`Outstanding`), or the resume loop sends the result of an earlier turn of the role
  again: a report is compared with the record's current role only
  (`_stale_role_report_reason`), so the old answer will pass for the new one;
* by a crash that leaves a report in the inbox whose decision, to ask the same role
  again, was saved already: it will be taken a second time.

`RequestTurns` is what remains when the files and loops are forgotten: the holder
works, and only then is the request handed on or settled, or withdrawn at any time; once
`crossed`, it promises nothing.  `ImplementsTurns` maps `status`, `holder` and `turn` to
the fields of the record.

### RequestIntake

A message and the request it makes have the same number.  `phase[m]` is where the
handler of message m is (arriving, running the orchestrator's agent, replying, done),
`serves[m]` the request it runs, `requests` the records (status, role, whether
blocked for want of a planning document, attachments), `due[v]` the copies of
requests that verification v has read and not resumed yet.

| action | handler |
|---|---|
| `Forward` | `forward_user_request`, and the relay consumer of the orchestrator |
| `Capture` | a requirement for the sprint, in `handle_user_request` |
| `Create`, `Retry`, `Augment`, `Reuse` | `handle_user_request` after its awaits: duplicate by fingerprint, retried, resumed with attachments, or reused |
| `OrchestratorEnds`, `Release` | the end of `run_local_orchestrator_request` (result, control action or hand-over), and of the claim |
| `ResumeNext` | the next request a verification resumes |
| `PlannerReports` | `apply_role_result` of the planner |
| `Crash` | a restart; only forwarded messages are read again |

A user's text is what a message asks for: fingerprints are equal if these texts are.  They
leave the wording out (`persistence.py:157`), so a repetition in other words resumes a
blocked request without any attachment too (`Augment`).  The intent parser's answer is free.

### SprintPlanning

`disk` is the sprint's file, `mem` the copy the loop holds over its awaits; both have
the completed steps, the plan with its change requests, the reopenings, the research
result and whether todos are queued.  `loop` is the await the loop is in, `req[s]` the
latest planning request of step s, `backlog` what the planner wrote, `answers` the
user's messages being interpreted (with the copy held), `task` a background
resumption.

| action | code |
|---|---|
| `EnterLoop`, `StepFails`, `StepIsInvalid`, `StepIsDone`, `PlanIsDrafted`, `PlanningIsDone`, `DocumentIsMissing` | `_run_initial_sprint_phase`: from one answer to the next await, `validate_initial_phase_step_result`, `reopen_initial_phase_step` |
| `PlanIsSent`, `SendFails` | the question to the user |
| `SprintStarts`, `ReportFails`, `EndIsSaved`, `EndIsReported` | the start report, and an end without a start |
| `ResearchReports`, `PlannerReports` | role reports applied to the file |
| `UserAnswers`, `AnswerIsApplied` | an answer before and after the intent parser |
| `Stop`, `Restart`, `Crash` | operator, and the process |

Plan revisions are not numbered, since nothing depends on the number; `"hasty"` is a
backlog that was ranked and queued without covering the plan.

### SprintRequirements and SprintTodo

`disk` is the sprint's file and `mem` the copy that `continue_manual_daily_sprint`
works on; `stage` names the `await` the loop is in.  `request[t][n]` is the n-th
request made for todo t, `changes` the todos whose changes lie uncommitted in the
worktree, `backlog` the status of each todo's backlog item, `review` the open request
for a review by the planner, `heard[w]` the copy a wish's handler holds over the
intent parser.

| `stage` | the loop waits for | left by |
|---|---|---|
| `idle` | nothing; the sprint is picked up by a poll, a command or a restart | `Resume`, `ResumeCompleted` |
| `review` | the planner's review of the queue, and of candidates after a done todo | `Pick` |
| `running` | `_wait_for_internal_request_result` | `RequestEnds` |
| `committing` | the version controller | `CommitReturns`, `CommitFails` |
| `saving` | the report of the todo | `SaveTodo` |
| `closeout` | inspection and version controller at the closeout | `CloseoutVerified`, `CloseoutFails` |
| `reporting` | the terminal report | `Reported` |

`Recovered` is `recover_sprint_todos_from_requests`, applied on every load and save;
`stamp` keeps the order of a todo's `updated_at` among the saves of its requests,
which is all the comparison of times in `merge_recovered_sprint_todo` needs.
`EnforceCommit` is `enforce_task_commit_for_completed_todo` up to its await,
with the sprint saved *before* the request, as in the code.  Role reports
(`RoleReports`, `RoleFinishes`, `RoleFails`) reload and save the file and leave `mem`
alone but for the stamp.  `Stop`, `Restart` and `Cancel` are the operator's commands.

A sprint's `ledger` (module `SprintRequirements`) has the fate of each wish a user files
(pending, registered, merged, rejected, expired) and the wishes that became
requirements.  `Hear` and `Capture` are the handler before and after the intent
parser, `Reviewed` is `apply_requirement_candidate_reconciliation`, `Missing` is what
the closeout asks recovery todos for, and `Expired` is
`archive_pending_requirement_candidates`.

Restrictions: the manual flow, after the initial phase; a planner's review changes
nothing but the ledger (a review that was not due does not count at all); ids of
candidates and merging of equal texts are left out; a request's changes are told apart
by todo; `Cancel` on a todo's latest request; no exception ends the loop
(`fail_sprint_due_to_exception`); roles stop editing once their request is cancelled;
no other sprint starts while a wish's handler waits.

### SprintClosing

`step` is where the end is, `mem`, `file`, `history`, `goal` and `active` are the records
it must agree with, `issues` the issues on GitHub with their comments (each by marker,
section and end), `target`, `seen` and `next` how far the publication is, `sent` the
reports to the user.  `End` is one of four endings (completed, failed, blocked,
blocked in planning); `Archived`, `SaveEnd`, `TellGoal`, `Report`, `Clear` are the steps
of `_complete_terminal_sprint` and `finish_scheduler_after_sprint`; `Find`, `Create`,
`Upsert`, `Published`, `PublishFails` those of `github_issue_publisher.py`, one `gh` command each;
`ProcessDies` (also in the middle of a save: "torn"), `Resume` and `RestartSprint` the rest.
The search may lag behind a creation, a command may fail after its effect, a user may
close the issue.  The documents of an end are sections that differ (`ClosingAssumption`), since
each is rendered once; their markers need not.

### SprintScheduler

`sched` is `scheduler_state.json` (active sprint, deferred slot, milestone asked for),
`sprint` and `goal` are the files, `current` the goal pointer; `poll` and `ready` are the
two coroutines that hold copies over awaits, `waiting` the background tasks that wait
for the resume lock, `loop[site]` who works on which sprint: the process's locked
loop, the poll's own loop of an automatic sprint (without the lock), a command line
process's.  `crossed` is history: something was changed while a copy was held that
will be saved or used.  So is `torn`: the sprints whose own file was saved while their
goal's was not, because the process died in between (`CrashInMilestone`, `CrashInEnd`).
Where no crash comes between the two saves they are one step, for there is no `await`
between them.

| action | code |
|---|---|
| `PollBegins`, `PollResumes`, `Asked`, `NothingSelected`, `RunAutonomous`, `SourcingReturns` | `poll_scheduler_once`, `_maybe_request_idle_sprint_milestone`, `run_autonomous_sprint`, goal sourcing |
| `TaskResumes`, `LoopReturns`, `LoopEnds`, `LoopReported` | `resume_active_sprint` under its lock, and what a sprint's loop comes to |
| `OnReady`, `ReadyAsked`, `Reconnects`, `Crash`, `CrashInStart`, `CrashInMilestone`, `CrashInEnd` | the start of the process, and its end |
| `StartSprint`, `StopSprint`, `RestartSprint`, `StartGoal`, `StopGoal`, `ResumeGoal`, `CancelGoal` | operator commands, from Discord or a command line process |

Times of day are left out: a poll finds that a slot has come, or not.

### SprintBacklog

`items` are the backlog's records (status, sprint that selected, completed or plans
it), `todos[s]` what sprint s's list says of each item, `reviews` the last review of each
set of blocked items, `last` the one the scheduler remembers, `merge` the item the
planner has read and not yet written.  Actions: the poll (`Collect`, `Decide`, `Start`),
reviews (`PlannerReports`, `QaPasses`, `DayPasses`), a sprint's writes (`StartPlanned`, `Queue`,
`Load`, `TodoBegins`, `TodoEnds`, `Restart`, `SprintEnds`), the planner's (`MergeReads`,
`MergeWrites`), and `Count`, the repair every reader of the counts makes.  `raced` is
history: a merge wrote over a change it had not read.

### VersionControl

`worktree[f]` has the content of f in the worktree, the index and HEAD, as the number of
the edit that made it; `authors` who made which edit; `baseline[job]` the paths dirty when
a job began; `git` the helper, one git command per action (`Inspected`, `Resolved`, `Added`,
`Committed`).  `TaskBegins` … `Retry` are the task's side
(`enforce_task_commit_for_completed_todo`, `resume_uncommitted_sprint_todo`),
`CloseoutBegins` and `CloseoutIsAnswered` the closeout's; `UserEdits`, `UserStages`,
`UserCommits` the owner of the worktree; `CommandFails`, `AnswerIsLost`, `Crash` the faults.

### DiscordMessages

`send[m]` is how far the send of message m is, `holder` the one that holds
`discord_send.lock`, `connection[p]` the listener of process p, `wire` the parts posted
and not handled, `buffer[p]` the parts of an unfinished message of author p, `merged` what
was put together; `broken`, which no code has, the processes that gave up a part of a
message and went on with its next one (`send_content` with `swallow_exceptions`), or whose
parts were dropped while others of the message were to come.  The split is computed: `Total` is the number of parts of a
content of that length in code fences, with markers.  `Lock`, `Attempt`, `Posted`,
`AttemptFails` are `_execute_send` and its retries, `Connect` … `Disconnected` the listener,
`Handle` and `Expire` `_process_incoming_chunk`.  `Expire` drops the parts of an author at
any time: there is no clock, and a send may take longer than the minute after which the
code drops them.

### RoleService

`proc[p]` is how far process p is in `run_foreground_role_service`, `lock`, `pidFile` and
`state` are the files, `hidden` the processes that run all roles (which the process table
does not show as this role's), `cmd[c]` how far each command is.  Commands look, probe the
lock, launch and watch (`start`), or signal, wait, signal again and record (`stop`); a
`restart` is a stop and a start.  A process may raise, be killed, and its number may
be given to another program.

## 3. The runs

| run | module, cfg | states | shows |
|---|---|---|---|
| `request_workflow` | `MCWorkflowRequest` | 34,561 | the gates hold for every sequence of reports and commands |
| `relay_recovery` | `MCRequestRelay`, `RelayRecovery.cfg` | 267,420 | crashes, lost sends, cancellations: loops keep apart, implements `RequestTurns`, settles |
| `intake` | `MCRequestIntake`, `RequestIntake.cfg` | 231,462 | one open request per wish, one at work on it, inputs kept |
| `planning` | `MCSprintPlanning`, `SprintPlanning.cfg` | 157,595 | a sprint starts from a confirmed, complete plan only |
| `sprint_todos` | `MCSprintTodo`, `SprintTodo.cfg` | 40,703 | commits, recovery, requirements and termination of the todo loop |
| `sprint_closing` | `MCSprintClosing`, `SprintClosing.cfg` | 147,615 | one current issue; records agree; the end ends |
| `scheduler` | `MCSprintScheduler`, `SprintScheduler.cfg` | 318,051 | one live sprint, known and worked on; goals obeyed |
| `backlog` | `SprintBacklog` | 95,934 | items follow their todos, are reviewed and taken |
| `version_control` | `MCVersionControl`, `VersionControl.cfg` | 886,762 | what counts as done is in the history, and nothing else |
| `messages` | `MCDiscordMessages`, `DiscordMessages.cfg` | 1,357,098 | what is merged was sent; sends end |
| `role_service` | `MCRoleService`, `RoleService.cfg` | 272,710 | one service; start serves, stop stops |
| `doc_reopenedisoffered` | `SprintBacklog`, `DocReopenedIsOffered.cfg` | | a documented behaviour the code violates (section 5) |

Each takes three minutes at most.  A property that is a conjunction has its types in it and
the parts that relate state to state:

| property | parts | what could break it |
|---|---|---|
| `WorkflowIsSound` | types, `StepAgrees`, `AdvisoryPassesCapped` | a branch that moves the step and not the owner, or opens a pass without counting it |
| `ImplementationIsGuided`, `ValidationIsReviewed` | | one of the many reopenings that skips a gate |
| `DelegateeOwnsStep`, `ClosedAtAGate`, `FinishedIsFinal` | | a coerced, late or stale report |
| `LoopsKeepApart` | types, `OneLoopAtATime` | relay and resume loop starting the same request |
| `AnswersItsTurn`, `ImplementsTurns`, `Settles` | | a repeated envelope or a lost report, repaired by the resume loop |
| `RequestsAreSingle` | types, `OneOpenRequest`, `OwnerIsAtWork` | handlers overtaking each other over their awaits |
| `EndedStaysEnded`, `InputsAreKept`, `EverythingIsSettled` | | a verification resuming from copies read before its awaits |
| `StartsFromPlan` | types, `PlanFirst`, `StartsPlanned` | a resume, reopening or late answer going round the confirmation |
| `ChangesAreKept`, `ChangesAreAddressed`, `PlanningReturns` | | the loop's copy saved over an answer; reopenings without end |
| `TodosAreTracked` | types, `OneAtATime`, `NothingForgotten`, `WishesAreKept` | a save order in which recovery undoes `uncommitted`; a wish overwritten or left pending |
| `DoneIsCommitted`, `CommittedOnce` | | a path round the version controller; committed work queued again |
| `CompletedIsClean` | `WorktreeIsClean`, `RequirementsAreMet` | a closeout over changes or an open requirement |
| `Ends` | | a closeout that sends the sprint back without work that satisfies it |
| `PublishedOnce` | types, `OneIssue`, `IssueIsCurrent`, `ReportNamesIssue` | a failure after the effect; comments beyond the page; equal markers |
| `RecordsAgree`, `EndIsFinished` | | a stop between two saves |
| `SprintsAreKnown` | types, `SprintIsKnown`, `GoalKnowsItsSprints` | a start between a load and a save of the scheduler's state |
| `GoalIsObeyed`, `LiveIsWorkedOn` | | a sourcer that returns late; a sprint nobody resumes |
| `BacklogIsWorked` | types, `SelectedIsWorked` | a load of an ended sprint, a repair, a merge between selection and queueing |
| `DoneStaysDone`, `BlockedIsReviewed`, `PendingIsTaken` | | a retried todo, a remembered review, a review nobody ends |
| `NothingIsLeft` | types, `DoneIsInHistory`, `ClosedLeavesNothing` | a conflict, a failing command or a lost answer taken for success |
| `CommitIsNarrow`, `UncommittedIsSettled` | | baselines of earlier jobs; retries |
| `MergesAreMessages` | types, `MergedIsSent`, `SentIsMerged` | parts of an aborted message before those of the next |
| `EverySendEnds` | | a send that fails with the lock, or waits for a dead connection |
| `ServiceIsSingle` | types, `OneService`, `ServiceIsKnown`, `StopStopsAll` | commands racing between look, lock and launch; stale files |
| `StartServes` | | a probe that keeps the lock, a stale pid file |

**request_workflow.**  Limits 2 and 2, so that a counter can be below, at and past
its limit; `MaxReviews = 3` is one more than the review limit, because the code
goes past it.  `MCReports` has every role's reports: each outcome of a transition,
phases and steps the code recognises, blocked and error variants, each
verdict, each signal.  All three kinds of request start.  The
properties are proved for all limits and reports (section 4).

**relay_recovery.**  Two roles, two turns, three faults among crashes of the orchestrator and
of a role, lost sends and cancellations, two envelopes in an inbox.  A role may be asked
again right after its own report.  Two turns are what it takes for an answer to meet the
turn after its own, two roles for it to meet another role's, three faults for a repair to
be hit by the next fault twice.  With three turns, in which a role is asked, passed over and
asked again, and one fault the properties hold as well (657,577 states).  As in `scheduler`, `Uncrossed` ends the search in the states where
something crossed.  Without that exception the properties fail: the resume loop saves the
snapshot it read earlier over a closed request, a repeated delegate persists a stale
record, an old report of the same role is taken for the new one.  That a role's two loops
never run a request at once has no exception (`LoopsStayApart`).  The safety properties
are proved for all bounds (section 4).

**intake.**  Four messages: two that say the same, the first forwarded by another role
(which a restart reads twice), the second perhaps with an attachment; one that says
something else; one whose request waits for a document since before.  One crash.  A
verification can then resume two requests, of which one is resumed from a copy.  The
exceptions, `overtaken` and `skipped`, are set only by the steps that really write an older
copy or find a claim held.

**planning.**  One reopening per step, two events among crash, failed send, failed
report, missing documents, stop, restart and answers of the user.  The five steps,
the research prepass and the planner's writes are not bounded: any backlog,
any report at any step.  With one reopening a step can be reopened and then refused.

**sprint_todos.**  Two todos, the second dependent on the first, and two recovery
todos that only a closeout creates; a requirement of the kickoff and a wish; two
requests per todo, so that a restart can retry one; two faults of any kind (crash,
failed commit, incomplete documentation, failed or blocked request, stop, restart,
cancellation, wish).  Two are needed to reach, for example, a crash in a commit that
then fails, or a wish and a closeout that misses it.  There must be as many recovery
todos as faults, for each fault may leave a requirement without a finished todo.
`DoneIsCommitted`, `OneAtATime` and `CompletedIsClean` except the todos whose request
was open when the orchestrator crashed, and `WishesAreKept` the wishes filed while the
loop held its copy, because for those the code errs (section 5).

**sprint_closing.**  Three ends of the same sprint (two restarts of one blocked in
planning), comments of one more section than fit on a page (the code reads GitHub's default page, 30),
two sections with the same marker, three faults.  Three let a creation be unacknowledged,
the search lag and the process crash in one behaviour.

**scheduler.**  Two sprints, one goal, two events among commands of operators, crashes
and reconnections, in two modes.  `Uncrossed` stops the search at states in which a
command crossed a held copy: what the properties except there is not explored, what
they say is checked in the crossing state too.  Without the exception the properties
fail (section 5).  A goal that a crash left behind its sprint's file (`torn`) is excepted
until the sprint ends again: a resumed sprint does, one that ended before does not.

**backlog.**  Three items, one of them an insight and one unknown at first, two sprints
(automatic or planned), one merge by the planner, one fault (crash between item and
todo, a late load of an ended sprint, a failed sprint, a restart, a day's pause).  The same
instance refutes `ReopenedIsOffered`.

**version_control.**  Two requests and two files, three edits, failing commands or
crashes together.  Two files let one be in a baseline and the other not, two requests
let the second meet what the first left.

**messages.**  One process with a message of three parts, one of two parts, and another of
two that is sent when the first failed and skips parts it cannot send; another process with
a message of one part; two attempts per part, two faults of eight kinds, at most two parts on
the wire.  Parts of an aborted message meet those of one with another total and of one with
the same.  Without the exception for `broken` both properties fail (section 5).

**role_service.**  A run of all roles, a start, a stop and a restart of one, three
processes, one fault (the service raises, is killed, its number is reused).  Three
processes let a start, a run and a restart each launch one.

Deadlock is not checked where the system may stop: sprints end, requests settle,
messages and commands are bounded.  Bounds on faults and events
(`MaxFaults`, `MaxFailures`, `MaxEvents`, `MaxCrashes`) are shared by all kinds, so each
budget buys every combination of that many.

**Fairness** is stated where the code runs a loop for ever, and for nothing that
a user, an operator or a fault does.

| module | fair | because |
|---|---|---|
| `RequestRelay` | weakly: each loop's steps | `while True` with the exceptions caught; a crashed process is started again |
| `SprintTodo` | weakly: the loop and the poll; each open request's answer | asyncio; `RequestRelay!Settles` |
| `SprintPlanning` | weakly: the loop, reports, interpretations of answers | the same |
| `SprintScheduler` | weakly: poll, `on_ready`, each sprint's loop; strongly: each waiting task | an asyncio lock is first come, first served, so a task that waits gets it in the end, while others take it in between |
| `SprintBacklog` | weakly: each step of the poll, answers to reviews, a sprint's work | the same loops |
| `SprintClosing` | weakly: the steps of the end, and the restart of a stopped orchestrator | no step waits for anybody |
| `VersionControl` | weakly: the helper and its answer, the retry of an uncommitted task | the helper is a sequence of commands; the scheduler's poll resumes the sprint |
| `DiscordMessages` | weakly: the sends, the connections, the oldest part's handler | coroutines, and discord.py's reconnecting |
| `RoleService` | weakly: commands at work, the processes' own steps | sequential programs |
| `RequestIntake` | weakly: handlers, agents' runs, reports | coroutines, `RequestRelay!Settles` |
| `WorkflowRequest` | none | nothing makes a role or a requester act; it has no liveness |

The weak fairness of a disjunction only says that *some* step of it goes on.  That
suffices where the disjuncts stand for one thread of control, or where each step uses
up something bounded.

## 4. The proofs

`WorkflowRequestProofs` proves, for every `PassLimit`, `ReviewLimit`, `MaxReviews`,
every set of `Reports` and `Kinds`, from the assumptions `LimitsAssumption`,
`ReportsAssumption` and `HandlingAssumption`:

| theorem | property |
|---|---|
| `TypeCorrect`, `StepsAgree`, `AdvisoryCapped` | the three parts of the next |
| `WorkflowStaysSound` | `WorkflowIsSound` |
| `GuidanceFirst` | `ImplementationIsGuided` |
| `ReviewFirst` | `ValidationIsReviewed` |
| `DelegateeIsOwner` | `DelegateeOwnsStep` |
| `ClosedOnlyAtAGate` | `ClosedAtAGate` |
| `FinishedStays` | `FinishedIsFinal` |

`FinishedIsFinal` is about the orchestrator's handlers, and has one exception: a record that
was cancelled while a handler waited with a copy of it (`held`) is rewritten from that copy
(`HeldIsOpen`: whoever holds a copy of a finished record holds that of a cancelled one).  A
role's process that saves its own old copy is `RequestRelay`'s.

The argument has two floors.  The first half of the module shows of the pure policy that
from a sound workflow state every decision is sound (`DeriveSound`): the three
fields step, phase and owner agree, the counter respects its limit, and a step may
be entered only from certain steps (`MayEnter`).  The second half shows that
what the driver makes of such a decision keeps the history it is about
(`RememberKeeps`), one lemma per branch of `apply_role_result`.

`ValidationIsReviewed` is not inductive.  A QA report may reopen straight into
a revision, which is harmless at the QA step (a review was passed) and would not be
elsewhere.  The invariant therefore carries `QaWaitsAtQaStep`: if a managed request
waits for QA, it is at the QA step or closed.  Its proof is where the order of
`apply_role_result` matters: a failed QA report stores the decision's
workflow and leaves the current role alone (`StuckQaStays`).  `QueuedIsPlanning`
does the same for the first delegation.

`RequestRelayProofs` proves, for every set of roles, every set of faults and all
bounds, from `RelayAssumption`:

| theorem | property |
|---|---|
| `RelayTypes`, `ClaimExcludes` | the two parts of the next |
| `LoopsStayApart` | `LoopsKeepApart` |
| `ReportsAnswerTheirTurn` | `AnswersItsTurn` |
| `TurnsAreTaken` | the safety part of `ImplementsTurns`: `Turns!Init`, and every step is one of `RequestTurns` or none |

The inductive invariant is `RelayInv /\ (~crossed => TurnInv)`.

`RelayInv` holds whatever crosses.  `TypeOK` needs more than itself: an inbox may only be
decremented for an envelope that is still in it (`TaskHasEnvelope`, `OrchHasEnvelope`),
which holds because archiving is the last step of the loop that took the envelope, and
the orchestrator sends into an inbox that nobody else fills (`SendingHasRoom`, the bound
on copies).

`AnswersItsTurn` is not inductive: the next report must be of the turn as well, wherever
it comes from.  `TurnInv` says that of every place an answer may be: in the inbox, apart
from the one in hand (`ReportsAnswer`), with a loop that has it (`RunsAnswer`), in the
record, from which the resume loop may send it again (`ResultAnswers`), and with the
orchestrator, whose decision may hand the request on (`DecisionAnswers`).  A result
`Answers` if it would be ignored as stale, or is of the record's turn and that turn was
worked.  The only steps that break this are those that set `crossed`; nothing is assumed
about time, and no fault is left out.

`RoleServiceProofs` proves `ServiceStaysSingle`, the property `ServiceIsSingle`, for any
number of processes, commands and faults, from `ServiceAssumption`.  Its three parts
need an invariant each:

* `OneService`: whoever is past the lock holds it (`LockIsHeld`), the commands that
  probe it included, so the set of those who serve has the holder in it at most.
* `StopStopsAll`: a process that a stop found is among its targets as long as it lives,
  and none of them starts again (`StopsFollow`).
* `ServiceIsKnown`: as long as commands do not overlap, one is at work, what is starting
  is the one process it watches (`WatchesOne`), and whoever serves is named by the files
  (`Orderly`).  The hard step is the start's look: it writes "stopped" over the state file
  of a process it believes dead, and may not do so to one that serves.

`StartsGetThrough` is what the liveness of `StartServes` rests on: as long as commands do not
overlap, a process of the service (one that runs all the roles, `hidden`, is not) that is on
its way to serve, was not told to stop and meets no fault goes from launched over the check
and the lock to serving, and nothing turns it away.  Its
invariant is `StartIsAlone`: a command launches where nothing of the service lives and nobody
has the lock, and until the process serves it stays so.

The module goes on to what the services say to each other.  It extends `DiscordMessages` as
well, whose names differ from those of `RoleService` for that reason, and proves, for any messages,
lengths, processes, numbers of attempts and faults, from `MessagesAssumption` (a message is the
fallback of one other at most; a part has room for more than its marker):

| theorem | property |
|---|---|
| `MergesAlwaysAreMessages` | `MergesAreMessages` |
| `SendsMoveOn` | the safety core of `EverySendEnds` |

The invariant of the first is about `Coming`, the parts on the wire with the one that is being sent behind
them, which is one sequence since one send at a time holds the lock (`SenderHoldsLock`).  Of
the parts of one author each later part comes right behind the one before it, or that one was
handled and the buffer holds all up to it (`PartsFollow`).  Posting lengthens the
sequence at its end, giving up shortens it there, handling takes its first.  What an
earlier message left behind is in the buffer only *after* the parts of the present one, and a
buffer never holds a full set (`BuffersArePrefixes`); so the last part completes a buffer and
no other does (`PartIsAdded`).  `FallbackFollows` and `SendsStartFresh` say that every message
starts with its first part.  The types hold whatever happens, the rest until a part is
doubled, overtaken or lost with the listener (`Clean`); of an author in `broken` nothing is said.

`SendsMoveOn` says of the send that has the lock of all processes that each of its own steps
frees the lock, takes it to a later part, or lessens what is left of the attempts at this
part (`MovesLeft`), that no step of anybody else takes it back, and that a send that ended
stays so.  A stranded send is the one that has no step of its own any more.

`VersionControlProofs` proves, for all files, requests and numbers of edits and faults, from
`VersionControlAssumption` (the names of tasks, of the sprint and of the user differ):

| theorem | property |
|---|---|
| `NothingIsEverLeft` | `NothingIsLeft` |
| `CommitsAreNarrow` | `CommitIsNarrow` |
| `TasksComeToBeSettled` | the safety core of `UncommittedIsSettled` |

The invariant follows the helper through its commands (`NothingIsMissed`): what a task
wrote outside the job's baseline is still to be added, then staged, then
committed, although the user edits, stages and commits in between.  It holds since edits
are numbered, so HEAD is never ahead of the index, nor that of the worktree
(`ContentsAreOrdered`), and since one task is unsettled at a time (`OneIsUnsettled`).

The third theorem is about the loop that retries an uncommitted task until it is
settled.  A retry may fail without any fault: the user commits what the helper has just
staged, and `git commit` finds nothing to do.  So no count of retries bounds the loop.  What
does is a lexicographic order (`Nearer`): the edits and faults still to come, then the files
with unstaged content, then those with staged content, both by inclusion, then the steps of
the helper, which begin anew only when a file left the sets before.  Every step, of
whomever, that does not settle the task lessens it.  It also needs that no conflict is left
when the helper stages and commits (`ConflictsAreGone`), which would fail every retry alike.

The module goes on from the closeout to the end of the sprint: it extends
`SprintClosing` as well and proves, for any sections, markers, documents, number of ends, page
size and faults, from `ClosingAssumption` (no end publishes the same section twice):

| theorem | property |
|---|---|
| `RecordsAgreeAtTheEnd` | `RecordsAgree` |
| `IssueIsPublishedOnce` | `PublishedOnce` |
| `EndsComeNearer` | the safety core of `EndIsFinished` |

The records: until an end is saved the sprint's record still says that the sprint goes on, and
the scheduler still has it (`EndIsUnsaved`), so a stop in between is followed by another end and
the history, ahead of the record, is written again; after the save the history is
never behind (`HistoryIsCurrent`).

The publication: a comment is appended only if the query returned none with its marker, so
of two comments of a section the first is beyond the page (`Single`).  While comments are
written, `Filed` says what the query's answer, by then old, is still good for: sections to
come that it did not return have nothing on the page, those it did return are where it said,
and those written are the newest.  `UpsertKeeps` is the step from one section to the next.
All of it is about a section that alone has its marker (`OwnMarker`) among those of *every*
end: a comment that another section left in an earlier end is found by its marker as well.
The report names an issue only after a publication that just succeeded
(`NamesAreCurrent`), and earlier reports are of earlier ends (`SentIsPast`).

An end that began has at most as many steps of its loop before it as `StepsLeft` says, nothing
sets it back, and when it is over the scheduler has kept the sprint only if it may still go on
(`SchedulerFollows`).  The last needs that the scheduler has the sprint all the while: a stop
comes either before the end let it go or after, and `Resume` treats both alike.

`RequestIntakeProofs` proves, for any messages, texts and number of crashes, from
`IntakeAssumption` (of the requests from before, one per text):

| theorem | property |
|---|---|
| `RequestsStaySingle` | `RequestsAreSingle` |
| `EndedRequestsStayEnded` | `EndedStaysEnded` |
| `InputsStay` | `InputsAreKept` |

`OwnerIsAtWork` is stated of a process that did not crash and is not inductive: a retry
may find the claim held.  `RunIsItsOwn` says what is left then, of requests that no
older copy overwrote; `FirstReadIsNew` and `WhatIsServedExists` tie messages to the
requests they made.

`SprintPlanningProofs` proves, for any number of reopenings, answers and faults, from
`PlanningAssumption`:

| theorem | property |
|---|---|
| `PlanningTypes`, `PlanComesFirst` | the first two parts of the next |
| `SprintsStartFromPlans` | `StartsFromPlan` |
| `ChangesStay` | `ChangesAreKept` |
| `PlanningDescends` | the safety core of `PlanningReturns` |

The first two hold without exception: every copy of the sprint, the file, the loop's and those
the handlers of answers hold, is `Sound` by itself, so no order of saves can
get around the confirmation.  The others relate two copies (`InStep`: the loop's plan
and steps are the file's), and hold of the behaviours in which no answer, applied when no
sprint is active, puts back the copy of a *blocked* sprint (`NoneIsPutBack`).  Without it
they fail: with five events, where the run has two, TLC finds a sprint that was
blocked, answered, restarted and ended while the answer was being interpreted; the
fallback of `_maybe_handle_initial_plan_feedback` then writes the blocked copy back.

`PlanningDescends` has no exception either: `LoopLeft`, the steps the planning loop has before it,
is never above `15 * MaxReopens + 21`, every step of the loop lessens it, and no report,
answer, command or failure raises it.  Steps not done yet and reopenings still allowed are
weighed together (`Rounds`): a reported result either completes its step or reopens it at the
price of one of its chances, and both lower the sum.

`SprintTodoProofs` proves, for all todos, ranks, requirements, wishes, numbers of requests
per todo and of faults, from `SprintAssumption` and `RequirementsAssumption` (a sprint has
a todo; wishes are not kickoff requirements):

| theorem | property |
|---|---|
| `TodosStayTracked` | `TodosAreTracked` |
| `DoneStaysCommitted` | `DoneIsCommitted` |
| `CompletedStaysClean` | `CompletedIsClean` |
| `CommittedWorkStays` | `CommittedOnce` |
| `RequestsAreTwo` | no todo ever has a third request |

The argument has three floors.

* *One todo.*  `Shape(x, qs)` is what a todo's record and its requests can look like
  together: no request yet; following the first; the first retired after it ended
  blocked; following the second; or back to the first when both are dead.  A third
  request is never made, whatever `MaxTries` allows (`RequestsAreTwo`), so the run's
  `MaxTries = 2` leaves nothing out.  `MergesTwo` computes
  `RecoverTodo`, a recursion over the requests, for every number of requests: a least
  request after which it would not have this value cannot exist (`LeastOf`).
  From the shape follows what recovery makes of a todo (`RecoverShape`, `FreshSays`:
  a todo tells what its requests say), and that every write of a todo or a request
  leads from shape to shape (`RequeueShape`, `NewShape`, `RunShape`, `EnforceShape`,
  `FinishShape`, `OutdateShape`).
* *One sprint.*  `RecoveredTracks`, `OutdatedTracks`, `QueueKeeps` and `SyncKeeps` lift
  that to the operators on sprints.
* *The steps.*  `IInv` says that file and copy both have the shape (`Tracks`), that the
  loop's request is its todo's last (`LoopIsAtWork`), that an open request is awaited or was
  left by a crash (`OpenIsAwaited`), that changes nobody works on are not a result
  (`ChangesAreOwed`), that what is queued in the copy is queued in the file and selected in the
  backlog (`QueuedIsSelected`, without which the queue's sync could drop a todo the loop
  just finished), and that at the closeout every requirement has a todo that is done by its
  *request* too (`CloseoutIsMet`), so no later load can take it back.

The theorems are about the behaviours in which no wish is filed while no sprint is
active (`NoneIsPutBack`).  Such a wish writes the copy from before the parser ran over the
file of a sprint that ended (section 5); a restart of that sprint then works on a file whose
todos no longer follow their requests.  `CompletedIsClean` needs the exception: with two wishes,
one todo and seven faults, where the run has one wish and two faults, TLC finds a
sprint that was stopped and restarted with an old copy, failed with changes in the worktree, and
became "completed" again when the second wish wrote back a copy loaded after the first
end.  For one wish, with up to eighteen faults, and for the other properties with two
wishes and nine faults, TLC found no violation without the exception; whether they hold
for all bounds is open.

`SprintSchedulerProofs` proves, for any number of sprints, goals and events and every set of
modes, from `BoundsAssumption`:

| theorem | property |
|---|---|
| `SprintsStayKnown` | `SprintsAreKnown` |
| `GoalsAreObeyed` | `GoalIsObeyed` |

Both properties except what follows once a command changed a sprint or goal somebody held a
copy of (`crossed`, section 5), `SprintsAreKnown` also the goals a crash left behind
(`torn`), and they are not inductive: that the scheduler knows the one
live sprint says nothing of what is about to be saved over its state.
`LiveIsAlone` says that of every holder: while a sprint is live the poll neither
asks, selects nor sources, `on_ready` holds no copy, and whatever is resumed, waits or is worked
on is that sprint.  So a stale copy can only be saved while none is live (`NoneIsLive`),
and a start while nothing is held makes the new sprint the alone one (`NewIsAlone`).
`GoalsAreKept` and `SourcingIsCurrent` do the same for goals: the sourcer's copy is the goal,
even when a sprint's loop saves an outcome in between, since a sprint that is
not live has its outcome recorded already (`LoopStepGoals`).  `Base`, types and files, holds
whatever is crossed, and a crossing is never taken back (`CrossedStays`).

It extends `SprintBacklog` as well, from which the poll fills its sprints, and proves, for any items, known
items, journals, numbers of sprints, merges and faults, from `BacklogAssumption`:

| theorem | property |
|---|---|
| `SelectedStaysWorked` | `BacklogIsWorked` |
| `DoneIsKept` | `DoneStaysDone` |

`SelectedIsWorked` needs one invariant more, `DoneIsOver`: what is done has no todo in the
active sprint that the next sync would take it back with.  Both hold until a merge wrote over
what it had not read, a process crashed or an old sprint was loaded late, which is what
the properties except.  The work is in the operators on the backlog: what a sync makes of an
item by its todo (`AppliedIsItem`, `SyncedKeeps`), what a repair puts aside
(`CountedIsItem`), and what a load, a queue and a start do to items and todos together.

Only model-checked:

* the liveness properties, and the liveness of `ImplementsTurns`: the proof system does not
  decide liveness under fairness.  For five of them the part that is about safety is proved:
  what has begun comes nearer to its end with each step of its own, or of anybody
  (`PlanningDescends`, `SendsMoveOn`, `StartsGetThrough`, `EndsComeNearer`,
  `TasksComeToBeSettled`).  That such a step is enabled until the end, and the conclusion
  from fairness, are TLC's.  The other liveness properties have no such theorem;
* `ReopenedIsOffered`, which the code violates (section 5).

## 5. Where code and documents disagree

The run `doc_reopenedisoffered` checks a quoted statement and TLC shows how the code
violates it: the repair of the backlog blocks an item again that a user or a review
reopened, because some old sprint's file still has a blocked todo for it
(`backlog_store.py:418`; `docs/implementation.md:524`).

The following were also violated when they were stated as properties of the models and
checked; they are described here without a run.

| statement | what happens |
|---|---|
| a developer's or architect's claim on planner documents reopens the scope (`docs/specification.md:206`) | the claim is dropped and the report goes through (`engine.py:931`) |
| a QA mismatch goes to a revision (`templates/prompts/qa.md:30`) | a text with the token "sync" turns the reopening into a completion (`engine.py:808`) |
| a blocked request was resumed (`team_service.py:2468`) | its workflow is closed, so every report on it is ignored (`delegation.py:2190`) |
| an invalid result is handled as a failure (`delegation.py:2088`) | it is coerced back to completed and routed on (`delegation.py:2147`) |
| a request was cancelled (`ingress.py:839`) | the running role saves the record it loaded before (`team_service.py:7549`), and so does the orchestrator's own run (`delegation.py:2513`) |
| a request delegated to a role is run by it | after planner → planner and a crash the old result is sent again (`team_service.py:4288`) |
| after a finalize request no todo is admitted (`templates/prompts/orchestrator.md:49`) | the loop's copy overwrites the request and more todos start (`team_service.py:6740`) |
| a todo with changes is uncommitted until the version controller resolves it (`docs/architecture.md:588`) | after a crash mid-chain the todo is taken for completed (`lifecycle.py:300`) |
| one sprint at a time (`docs/architecture.md:466`, `docs/operations_guide.md:426`) | a poll saves the state it held over a start: the started sprint is forgotten and another one may start (`team_service.py:3044`, `scheduler.py:184`) |
| a paused goal sources no sprint, cancel is permanent (`docs/operations_guide.md:65`) | a sourcer that was running saves the goal as it was and starts its sprint (`team_service.py:4129`) |
| a research result is part of the sprint (`docs/architecture.md:206`) | the planning loop may save its copy without it (`team_service.py:5035`) |
| a task's commit has its own changes (`docs/architecture.md:587`) | what was staged before is committed with them (`repository_ops.py:620`) |
| a part fits into a Discord message (`tests/test_orchestration.py:37`) | the room left for the marker is too small when the second split has more digits: 15,950 characters give a part that is refused (`notifications.py:345-367`) |
| a captured requirement stays until it is reconciled or archived (`docs/specification.md:354`, `docs/architecture.md:269`) | a wish filed while the loop works vanishes with the loop's next save (`team_service.py:6967`) |

Met on the way, without a document that says otherwise:

* *Requests.*  The review limit is not tested on every path that counts a review
  (`engine.py:1425`).  A completed report with an error text completes the request in any
  step.  A QA reopening for scope returns to the planner, who may close the request
  without another validation.  Attachments sent with a repetition of a request at work
  are dropped (`ingress.py:454`).  A request cancelled while it runs is rewritten by the
  end of its run (`team_service.py:7047`).
* *Relay.*  An envelope whose handler always raises keeps those behind it waiting
  (`relay.py:488`).  A role that is asked again while its last answer is still in the inbox,
  or was left there by a crash, has that answer taken for the new one
  (`team_service.py:7574`).
* *Planning.*  A crash between saving a question and sending it leaves the sprint waiting
  for an answer to a question nobody saw (`team_service.py:3606`).  A confirmation is
  taken for the current revision, not for the one the question showed
  (`team_service.py:3715`).  A missing document at the end blocks the sprint, because the
  step that is reopened is still among the completed ones.
* *Todos.*  A second restart of a blocked todo is undone by the recovery
  (`lifecycle.py:3797`, one `retry_of_request_id`).  `dependency_gate_bypass` has no effect
  in the loop, which tests the dependencies before `execute_sprint_todo` would skip them.
  A todo whose commit keeps failing is picked again at once (`lifecycle.py:3926`).  A
  cancelled request that has an intermediate result finishes its todo
  (`team_service.py:2524`).  A wrap-up over a todo that a crash left running queues a
  recovery todo ranked before it, and both are worked on (`lifecycle.py:4053`).  The
  cutoff of a manual sprint is never reached (`lifecycle.py:3425`).
* *Requirements.*  A wish's handler that waits for the parser while the sprint ends writes
  its old copy over the completed sprint's file, with todos and backlog statuses
  (`team_service.py:6967`).  A review answered while the orchestrator is down is lost and its
  candidates stay pending; a wish filed between the last save of an end and the
  release of the scheduler stays pending for good.  A candidate registered and then
  rejected in one answer keeps its requirement, and the target of a merge is not looked
  up (`lifecycle.py:1250`, `1390`).  References are matched by substrings: a todo for
  `REQ-002 "Login with Google"` also covers `REQ-001 "Login"` (`lifecycle.py:1541`).
* *Scheduler.*  A sprint whose file is missing stays the active one
  (`lifecycle.py:3857`).  An automatic sprint runs without the resume lock, so a
  command starts a second loop on it (`lifecycle.py:3565`).  A crash between the save of an
  ended sprint and that of its goal (`team_service.py:5929`) leaves the goal without the
  outcome for good, since only a sprint still to be worked on reports again
  (`lifecycle.py:3861`); one between a milestone's start and its goal's record
  (`team_service.py:4072`) leaves it without the link.  A stop that meets a blocked
  sprint being worked on forgets it (`team_service.py:6732`).
* *Backlog.*  A planned item whose fingerprint matches a done one's is merged into it
  (`backlog_store.py:719`).  The item a todo saves at its end is the copy from
  before its run (`lifecycle.py:4448`).
* *Messages.*  A sprint report that cannot send a part skips it and posts the rest
  (`notifications.py:510`, `660`).  The receiver tells messages apart by their author and number
  of parts only (`client.py:741`), so it completes the gap with a part of the next message of that
  length, which then leaves a gap in its turn.  So it does when a send takes more than a minute
  between two parts: those received are dropped (`client.py:726`), the late ones wait for the
  next message.
* *Version control.*  A failing `git status` reads as no changes, for nobody looks at its
  return code (`repository_ops.py:430`).  A conflict is settled with `--ours`, whoever the file belongs to
  (`repository_ops.py:389`).
* *Services.*  A refused second start writes `failed` over the state of the one that runs
  (`lifecycle.py:294` of `adapters/discord`); a stop of one role kills the process that
  runs all roles, if the pid file names it.

## 6. What is not modelled

* Texts: messages, prompts, reports, issues, documents, and their parsing and
  rendering (most of `reporting.py`, `notifications.py`, `research.py`,
  `intent_parser.py`, the prompt builders).  Where a property depends on a text, what
  the code tests of it is an input.
* The role runtimes: a run of a command line model is one step that may end in any way.
* A file half written (`persistence.py:97` writes in place), an envelope whose
  handler always raises, exceptions that end the sprint loop.
* Several requests interleaved in the relay: the others appear only in that envelopes and
  passes may wait for any time.
* What follows in `RequestRelay` and `SprintScheduler` once something `crossed`.
* A `git status` that fails and reads as no changes: `CommandFails` is about the commands
  whose return code the helper tests.
* Scores of the capability policy, the field checks of the role result contract,
  the inference of a workflow for old records, the normalisation of a plan's actions,
  the matching of requirement references, ids of candidates and their merging by text.
* The todo loop of an automatic sprint (`continue_sprint`): `SprintScheduler` and
  `SprintBacklog` have its start and end.
* Registered actions (`RunsAction` has only their end), log rotation, times of day,
  sessions.

Every component is therefore "partly" modelled in `PROJECT.json`, with what is missing;
four have no module: role runtimes and sessions, intent parser, research role, and the
data definitions and templates.

## 7. Plan

1. **Core** (done): policy, request, relay, todo loop; theorems about request and relay.
2. **Breadth** (done): planning, requirements, endings, scheduler and goals, backlog,
   version control, intake, messages, role services.
3. **Proofs** (done): every invariant and action property that a run checks is stated by a
   theorem, some with the exceptions section 4 names; of five liveness properties the
   descent they rest on is.
4. **Depth**: the automatic flow `continue_sprint` as a variant of `SprintTodo`; two
   requests in one relay; sessions.
