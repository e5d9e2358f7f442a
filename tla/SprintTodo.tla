----------------------------- MODULE SprintTodo -----------------------------
(***************************************************************************)
(* The execution of a manual sprint's todo list by the orchestrator        *)
(* (workflows/sprints/lifecycle.py, after the initial phase): the loop     *)
(* picks a todo, runs it as an internal request, has the version           *)
(* controller commit its changes, and closes the sprint out.               *)
(*                                                                         *)
(* The loop works on its own copy of the sprint (mem) and saves it whole;  *)
(* role reports and the operator's commands load, change and save the file *)
(* (disk) meanwhile.  Every save and load first recovers the todos from    *)
(* the request records.  What one step of the model does, the code does    *)
(* between two awaits.  Users' wishes reach the file the same way; at a    *)
(* checkpoint the planner decides on those in the loop's copy.             *)
(***************************************************************************)
EXTENDS SprintRequirements

CONSTANTS
    Todos,        \* the todos the sprint may ever have
    Recovery,     \* those that exist only once a closeout has queued them
    Implements,   \* the kickoff's requirements that each todo implements
    Rank,         \* priority rank of each todo
    MaxTries,     \* bound on the requests made for one todo
    FaultKinds,   \* what may go wrong, and what operators and users may do
    MaxFaults     \* bound on how often

AllFaults == {"crash", "stop", "restart", "cancel", "fail", "vc", "docs", "wish"}

ASSUME SprintAssumption ==
    /\ Todos # {} /\ Recovery \subseteq Todos
    /\ Implements \in [Todos \ Recovery -> SUBSET Kickoff]
    /\ Rank \in [Todos -> Nat \ {0}]
    /\ MaxTries \in Nat \ {0}
    /\ FaultKinds \subseteq AllFaults
    /\ MaxFaults \in Nat

VARIABLES
    disk,        \* the sprint's file
    mem,         \* the loop's copy of it
    stage,       \* what the loop waits for
    cur,         \* the todo it executes
    review,      \* the open request for a review by the planner
    heard,       \* per wish, the copy its handler loaded before it asked the parser
    request,     \* request records: per todo, per try
    changes,     \* todos with changes in the worktree that are not committed
    backlog,     \* status of each todo's backlog item
    active,      \* the scheduler's active sprint is this one
    interrupted, \* history: todos whose request was open in a crash
    taken,       \* history: wishes filed while no loop held a copy of the open sprint
    faults

vars == <<disk, mem, stage, cur, review, heard, request, changes, backlog, active,
          interrupted, taken, faults>>

\* What only users' wishes, and what only reviews and wishes, change.
wishing == <<heard, taken>>
asking == <<review, wishing>>

-----------------------------------------------------------------------------
(* Data *)

Done == {"completed", "committed"}
Executable == {"queued", "running", "uncommitted"}
TodoStatuses == Executable \cup Done \cup {"blocked", "failed"}
SprintStatuses == {"running", "closeout", "recovery", "completed", "failed"}
Stages == {"idle", "review", "running", "committing", "saving", "closeout", "reporting"}
Terminal == {"completed", "committed", "failed", "blocked", "cancelled"}
Tries == 1..MaxTries

NoRequest == [status |-> "none", result |-> "none"]
Requests == [status : {"none", "queued", "delegated", "uncommitted"} \cup Terminal,
             result : {"none", "uncommitted"} \cup (Terminal \ {"cancelled"})]

\* stamp orders a todo's updated_at among the saves of its requests: 2n-1 is
\* the last save of request n, 2n a moment after it.
NewTodo(status, covers) == [status |-> status, request |-> 0, retired |-> 0,
                            bypass |-> FALSE, stamp |-> 0, covers |-> covers]
TodoRecords == [status : TodoStatuses \cup {"absent"}, request : 0..MaxTries,
                retired : 0..MaxTries, bypass : BOOLEAN, stamp : 0..(2 * MaxTries),
                covers : SUBSET (Kickoff \cup Wishes)]
Sprints == [status : SprintStatuses, wrapUp : BOOLEAN, restart : BOOLEAN,
            ledger : Ledger, todo : [Todos -> TodoRecords]]

StatusRank == [s \in TodoStatuses \cup {"absent"} |->
    CASE s = "running" -> 2
      [] s \in {"blocked", "uncommitted", "failed"} -> 3
      [] s = "completed" -> 4
      [] s = "committed" -> 5
      [] s = "queued" -> 1
      [] OTHER -> 0]

StatusAmong(q, known) ==
    IF q.result \in known THEN q.result
    ELSE IF q.status \in known THEN q.status
    ELSE IF q.status = "delegated" THEN "running"
    ELSE "queued"

TodoStatus_NoUncommitted(q) == StatusAmong(q, TodoStatuses \ {"uncommitted"})
TodoStatus_NoCommitted(q) == StatusAmong(q, TodoStatuses \ {"committed"})

\* What a request says of its todo: its result first, even of a request that was
\* handed on and is still open.
TodoStatus(q) == StatusAmong(q, TodoStatuses)

-----------------------------------------------------------------------------
(* Recovering todos from the request records, on every load and save *)

Merge(todo, n, q) ==
    LET s == TodoStatus(q)
        newer == todo.stamp < 2 * n
    IN  IF q.status = "none" \/ todo.retired = n THEN todo
        ELSE [todo EXCEPT
                !.request = IF @ = 0 THEN n ELSE @,
                !.status = IF newer \/ StatusRank[s] > StatusRank[@] THEN s ELSE @,
                !.stamp = IF newer THEN 2 * n - 1 ELSE @]

RecoverTodo(todo, qs) ==
    LET merged[n \in 0..MaxTries] ==
            IF n = 0 THEN todo ELSE Merge(merged[n - 1], n, qs[n])
    IN  merged[MaxTries]

Recovered(sprint, reqs) ==
    [sprint EXCEPT !.todo = [t \in Todos |-> RecoverTodo(@[t], reqs[t])]]

\* A save of request n makes it newer than every todo stamped after its last one.
Outdated(sprint, t, n) ==
    [sprint EXCEPT !.todo[t].stamp = IF @ = 2 * n THEN 2 * n - 1 ELSE @]

BacklogStatus(status) ==
    CASE status \in {"queued", "running"} -> "selected"
      [] status \in Done -> "done"
      [] status \in {"blocked", "uncommitted"} -> "blocked"
      [] status = "failed" -> "carried_over"

SyncBacklog(sprint) ==
    backlog' = [t \in Todos |->
        IF sprint.todo[t].status \notin TodoStatuses THEN backlog[t]
        ELSE BacklogStatus(sprint.todo[t].status)]

SaveFile(sprint) == disk' = sprint /\ SyncBacklog(sprint)
SaveBoth(sprint) == mem' = sprint /\ SaveFile(sprint)

Fault(kind) == kind \in FaultKinds /\ faults < MaxFaults /\ faults' = faults + 1
NoFault == UNCHANGED faults

-----------------------------------------------------------------------------
(* Closeout *)

EndSprint(sprint, status) ==
    /\ SaveBoth(Recovered([sprint EXCEPT !.status = status, !.ledger = Expired(@)], request))
    /\ stage' = "reporting"

\* By a todo that is done; the requirements a todo is for are part of its item.
Implemented(sprint, r) ==
    \E t \in Todos : r \in sprint.todo[t].covers /\ sprint.todo[t].status \in Done

Missing_Kickoff(sprint) == {r \in Kickoff : ~Implemented(sprint, r)}
Missing(sprint) == {r \in Requirements(sprint.ledger) : ~Implemented(sprint, r)}

QueueRecovery_None(sprint) == sprint

QueueRecovery(sprint) ==
    LET open == {t \in Recovery : sprint.todo[t].status \in Executable}
        wanted == Missing(sprint) \ UNION {sprint.todo[t].covers : t \in open}
        free == {t \in Recovery : sprint.todo[t].status = "absent"}
        fixes == {f \in [wanted -> free] : \A q, r \in wanted : f[q] = f[r] => q = r}
    IN  IF fixes = {} THEN sprint
        ELSE LET fix == CHOOSE f \in fixes : TRUE IN
             [sprint EXCEPT !.todo = [t \in Todos |->
                 IF \E r \in wanted : fix[r] = t
                 THEN NewTodo("queued", {r \in wanted : fix[r] = t}) ELSE @[t]]]

BackToRecovery(sprint) ==
    /\ SaveBoth(Recovered([QueueRecovery(sprint) EXCEPT
                             !.status = "recovery", !.wrapUp = FALSE], request))
    /\ stage' = "idle"

Finalize(sprint) ==
    LET closing == Recovered([sprint EXCEPT !.status = "closeout"], request)
    IN  /\ UNCHANGED <<cur, changes, active, interrupted, wishing>>
        /\ \/ Fault("docs") /\ EndSprint(closing, "failed")
           \/ NoFault /\ Missing(closing) # {} /\ BackToRecovery(closing)
           \/ NoFault /\ Missing(closing) = {} /\ SaveBoth(closing) /\ stage' = "closeout"

CloseoutCommits ==
    /\ stage = "closeout" /\ changes # {}
    /\ changes' = {}
    /\ UNCHANGED <<disk, mem, stage, cur, asking, request, backlog, active, interrupted, faults>>

CloseoutVerified_Uninspected ==
    /\ stage = "closeout"
    /\ EndSprint(mem, "completed")
    /\ UNCHANGED <<cur, asking, request, changes, active, interrupted, faults>>

CloseoutVerified ==
    /\ stage = "closeout" /\ changes = {}
    /\ EndSprint(mem, "completed")
    /\ UNCHANGED <<cur, asking, request, changes, active, interrupted, faults>>

CloseoutFails ==
    /\ stage = "closeout" /\ changes # {}
    /\ Fault("vc")
    /\ EndSprint(mem, "failed")
    /\ UNCHANGED <<cur, asking, request, changes, active, interrupted>>

Reported ==
    /\ stage = "reporting"
    /\ stage' = "idle"
    /\ active' = (mem.status # "completed")
    /\ UNCHANGED <<disk, mem, cur, asking, request, changes, backlog, interrupted, faults>>

-----------------------------------------------------------------------------
(* The loop: continue_manual_daily_sprint *)

\* The planner is asked for a review, an open request for one is taken up again.
Asked(checkpoint) ==
    IF review # "none" THEN review ELSE IF checkpoint THEN "checkpoint" ELSE "plain"

\* The top of the loop.  A checkpoint follows a todo that is done.
EnterLoop(sprint, checkpoint) ==
    IF sprint.wrapUp THEN Finalize(Recovered(sprint, request)) /\ UNCHANGED <<request, review>>
    ELSE /\ SaveBoth(Recovered(sprint, request))
         /\ stage' = "review"
         /\ review' = Asked(checkpoint)
         /\ NoFault
         /\ UNCHANGED <<cur, request, changes, active, interrupted, wishing>>

\* A restart request takes the sprint back to the todo that got furthest.
CheckpointRank == [running |-> 3, uncommitted |-> 2, blocked |-> 1]
Checkpoints(sprint) ==
    LET known == {t \in Todos : sprint.todo[t].status \in DOMAIN CheckpointRank}
    IN  {t \in known : \A u \in known :
            CheckpointRank[sprint.todo[u].status] <= CheckpointRank[sprint.todo[t].status]}

Requeued(todo) ==
    [todo EXCEPT !.status = "queued", !.request = 0, !.bypass = TRUE,
                 !.retired = IF todo.request # 0 THEN todo.request ELSE @]

RestartFrom(sprint, t) ==
    [sprint EXCEPT !.restart = FALSE,
                   !.todo[t] = IF @.status = "blocked" THEN Requeued(@) ELSE @]

Prepared(sprint) ==
    IF ~sprint.restart THEN {sprint}
    ELSE IF Checkpoints(sprint) = {} THEN {[sprint EXCEPT !.restart = FALSE]}
    ELSE {Recovered(RestartFrom(sprint, t), request) : t \in Checkpoints(sprint)}

\* The scheduler's poll, a command or the start of the process resumes it.
Resume ==
    /\ stage = "idle" /\ active
    /\ disk.status \notin {"completed", "failed"}
    /\ \E sprint \in Prepared(Recovered(disk, request)) :
            EnterLoop([sprint EXCEPT !.status = "running"], FALSE)

ResumeCompleted ==
    /\ stage = "idle" /\ active
    /\ disk.status = "completed"
    /\ active' = FALSE
    /\ UNCHANGED <<disk, mem, stage, cur, asking, request, changes, backlog, interrupted, faults>>

\* sync_manual_sprint_queue: the queue follows the backlog.
SyncQueue(sprint) ==
    [sprint EXCEPT !.todo = [t \in Todos |->
        IF @[t].status = "absent" /\ backlog[t] = "selected" THEN NewTodo("queued", @[t].covers)
        ELSE IF @[t].status = "queued" /\ backlog[t] # "selected" THEN NewTodo("absent", @[t].covers)
        ELSE @[t]]]

WaitingOn(sprint, t) ==
    {u \in Todos \ {t} : /\ sprint.todo[u].status \notin Done \cup {"absent"}
                         /\ Rank[u] < Rank[t]}

\* The sort key: a restart's todo first, then a running one, then by rank.
SortKey(sprint, t) ==
    <<IF sprint.todo[t].bypass THEN 0 ELSE 1,
      IF sprint.todo[t].status = "running" THEN 0 ELSE 1, Rank[t]>>
Before(j, k) ==
    \/ j[1] < k[1]
    \/ j[1] = k[1] /\ (j[2] < k[2] \/ (j[2] = k[2] /\ j[3] < k[3]))

Ready(sprint) ==
    {t \in Todos : sprint.todo[t].status \in Executable /\ WaitingOn(sprint, t) = {}}
NextTodos(sprint) ==
    {t \in Ready(sprint) : \A u \in Ready(sprint) : ~Before(SortKey(sprint, u), SortKey(sprint, t))}

-----------------------------------------------------------------------------
(* Executing a todo: execute_sprint_todo, enforce_task_commit_for_completed_todo *)

SetRequest(t, n, status, result) ==
    request' = [request EXCEPT ![t][n] = [status |-> status, result |-> result]]

FinalStatus_Raw(status) == status

FinalStatus(status) ==
    IF status \in Done \cup {"uncommitted", "blocked"} THEN status ELSE "failed"

\* The outcome is in mem and the backlog; the file follows after the report is
\* sent.  (A failed todo also leaves a new backlog item for a later sprint.)
Finish(sprint, t, n, status) ==
    LET ended == [sprint EXCEPT !.todo[t] =
                    [@ EXCEPT !.status = FinalStatus(status), !.stamp = 2 * n]]
    IN  /\ mem' = ended
        /\ SyncBacklog(ended)
        /\ disk' = Outdated(disk, t, n)
        /\ stage' = "saving"
        /\ cur' = t

EnforceCommit_Uninspected(sprint, t, n) ==
    /\ SetRequest(t, n, "completed", "completed")
    /\ Finish(sprint, t, n, "completed")

\* A result that needs its changes committed.  The sprint is saved before the
\* request, so it recovers the todo from what the request still says.
EnforceCommit(sprint, t, n) ==
    \/ /\ t \notin changes
       /\ SetRequest(t, n, "completed", "completed")
       /\ Finish(sprint, t, n, "completed")
    \/ /\ t \in changes
       /\ SetRequest(t, n, "uncommitted", "uncommitted")
       /\ SaveBoth(Outdated(Recovered([sprint EXCEPT !.todo[t].status = "uncommitted"], request), t, n))
       /\ stage' = "committing"
       /\ cur' = t

\* A new request is delegated at once; recording that reloads and saves the file.
StartRequest(sprint, t) ==
    LET n == Cardinality({k \in Tries : request[t][k].status # "none"}) + 1
        made == [request EXCEPT ![t][n] = [status |-> "queued", result |-> "none"]]
        named == Recovered([sprint EXCEPT !.todo[t].request = n], made)
    IN  /\ n \in Tries
        /\ SetRequest(t, n, "delegated", "none")
        /\ mem' = named
        /\ SaveFile(Recovered(Outdated(named, t, n), request'))

RunTodo_AlwaysAnew(sprint, t) ==
    /\ stage' = "running"
    /\ cur' = t
    /\ StartRequest(Recovered([sprint EXCEPT !.todo[t].status = "running"], request), t)

RunTodo(sprint, t) ==
    LET started == Recovered([sprint EXCEPT !.todo[t].status = "running"], request)
    IN  /\ stage' = "running"
        /\ cur' = t
        /\ IF started.todo[t].request = 0 THEN StartRequest(started, t)
           ELSE SaveBoth(Recovered(started, request)) /\ UNCHANGED request

Recovering(sprint, t) ==
    \/ sprint.todo[t].status = "uncommitted"
    \/ /\ sprint.todo[t].request # 0
       /\ request[t][sprint.todo[t].request].status = "uncommitted"

\* The copy after the planner's answer, if it completed: what it decides on the
\* wishes it was asked about.
Reviewed(sprint) ==
    IF review = "checkpoint"
    THEN {[sprint EXCEPT !.ledger = ledger] : ledger \in Reconciled(sprint.ledger)}
    ELSE {sprint}

Pick ==
    /\ stage = "review"
    /\ review' = "none"
    /\ UNCHANGED wishing
    /\ \E reviewed \in Reviewed(mem) :
       LET sprint == Recovered(SyncQueue(reviewed), request) IN
        \/ /\ NextTodos(sprint) = {}
           /\ Finalize(sprint)
           /\ UNCHANGED request
        \/ \E t \in NextTodos(sprint) :
            /\ IF Recovering(sprint, t)
               THEN EnforceCommit(sprint, t, sprint.todo[t].request)
               ELSE RunTodo(sprint, t)
            /\ NoFault
            /\ UNCHANGED <<changes, active, interrupted>>

Answered(q) == q.status \in Terminal

\* _wait_for_internal_request_result returns.
RequestEnds ==
    LET n == mem.todo[cur].request
        q == request[cur][n]
        result == IF q.result = "none" THEN q.status ELSE q.result
    IN  /\ stage = "running"
        /\ Answered(q)
        /\ IF result = "completed" THEN EnforceCommit(mem, cur, n)
           ELSE Finish(mem, cur, n, result) /\ UNCHANGED request
        /\ NoFault
        /\ UNCHANGED <<asking, changes, active, interrupted>>

CommitMade ==
    /\ stage = "committing" /\ cur \in changes
    /\ changes' = changes \ {cur}
    /\ UNCHANGED <<disk, mem, stage, cur, asking, request, backlog, active, interrupted, faults>>

CommitReturns ==
    LET n == mem.todo[cur].request IN
    /\ stage = "committing" /\ cur \notin changes
    /\ SetRequest(cur, n, "committed", "committed")
    /\ Finish(mem, cur, n, "committed")
    /\ UNCHANGED <<asking, changes, active, interrupted, faults>>

CommitFails ==
    LET n == mem.todo[cur].request IN
    /\ stage = "committing" /\ cur \in changes
    /\ Fault("vc")
    /\ SetRequest(cur, n, "uncommitted", "uncommitted")
    /\ Finish(mem, cur, n, "uncommitted")
    /\ UNCHANGED <<asking, changes, active, interrupted>>

SaveTodo ==
    /\ stage = "saving"
    /\ EnterLoop(mem, mem.todo[cur].status \in Done)

-----------------------------------------------------------------------------
(* The roles answer; every report is recorded in the sprint's file *)

Open(t, n) == request[t][n].status = "delegated"

RecordRequest(t, n, status, result) ==
    /\ SetRequest(t, n, status, result)
    /\ SaveFile(Recovered(Outdated(disk, t, n), request'))
    /\ mem' = Outdated(mem, t, n)

ChangesMade(t) == changes' \in {changes, changes \cup {t}}

\* A role's report that hands the request on to the next role.
RoleReports(t, n) ==
    /\ Open(t, n)
    /\ RecordRequest(t, n, "delegated", "completed")
    /\ ChangesMade(t)
    /\ UNCHANGED <<stage, cur, asking, active, interrupted, faults>>

RoleFinishes(t, n) ==
    /\ Open(t, n)
    /\ RecordRequest(t, n, "completed", "completed")
    /\ ChangesMade(t)
    /\ UNCHANGED <<stage, cur, asking, active, interrupted, faults>>

RoleFails(t, n) ==
    /\ Open(t, n)
    /\ Fault("fail")
    /\ \E status \in {"failed", "blocked"} : RecordRequest(t, n, status, status)
    /\ ChangesMade(t)
    /\ UNCHANGED <<stage, cur, asking, active, interrupted>>

-----------------------------------------------------------------------------
(* Operator commands and crashes *)

\* stop_sprint_lifecycle on a live sprint, and on one that has failed.
Stop ==
    /\ active /\ disk.status # "failed"
    /\ Fault("stop")
    /\ SaveFile(Recovered([disk EXCEPT !.wrapUp = TRUE], request))
    /\ UNCHANGED <<mem, stage, cur, asking, request, changes, active, interrupted>>

StopFailed ==
    /\ active /\ disk.status = "failed"
    /\ Fault("stop")
    /\ active' = FALSE
    /\ UNCHANGED <<disk, mem, stage, cur, asking, request, changes, backlog, interrupted>>

Restart ==
    /\ disk.status \notin {"completed", "failed"}
    /\ Fault("restart")
    /\ SaveFile(Recovered([disk EXCEPT !.restart = TRUE], request))
    /\ active' = TRUE
    /\ UNCHANGED <<mem, stage, cur, asking, request, changes, interrupted>>

\* cancel_request on the latest request of a todo.
Cancel(t, n) ==
    /\ request[t][n].status \notin {"none", "uncommitted", "cancelled"}
    /\ \A k \in Tries : k > n => request[t][k].status = "none"
    /\ Fault("cancel")
    /\ SetRequest(t, n, "cancelled", request[t][n].result)
    /\ disk' = Outdated(disk, t, n)
    /\ mem' = Outdated(mem, t, n)
    /\ UNCHANGED <<stage, cur, asking, changes, backlog, active, interrupted>>

\* A user asks for more: the handler loads the sprint, awaits the intent parser,
\* loads it again and files the wish.
Hear(w) ==
    /\ active /\ heard[w] = {}
    /\ Fault("wish")
    /\ LET loaded == Recovered(disk, request) IN
        /\ loaded.ledger.fate[w] = "none"
        /\ SaveFile(loaded)
        /\ heard' = [heard EXCEPT ![w] = {loaded}]
    /\ UNCHANGED <<mem, stage, cur, review, request, changes, active, interrupted, taken>>

\* If the sprint is no longer the active one, the copy from before is written.
CaptureInto_Old(old) == old
CaptureInto(old) == IF active THEN Recovered(disk, request) ELSE old

Capture(w) ==
    /\ \E old \in heard[w] :
        LET sprint == CaptureInto(old) IN
        SaveFile(Recovered([sprint EXCEPT !.ledger = Captured(@, w)], request))
    /\ heard' = [heard EXCEPT ![w] = {}]
    /\ taken' = IF ~active THEN {}
                ELSE IF stage = "idle" /\ disk.status \notin {"completed", "failed"}
                THEN taken \cup {w} ELSE taken
    /\ UNCHANGED <<mem, stage, cur, review, request, changes, active, interrupted, faults>>

\* The orchestrator dies and comes back; the roles are processes of their own.
\* A review the planner answers meanwhile is answered to nobody.
Crash ==
    /\ stage # "idle"
    /\ Fault("crash")
    /\ stage' = "idle"
    /\ review' \in {review, "none"}
    /\ heard' = [w \in Wishes |-> {}]
    /\ interrupted' = IF stage = "running" THEN interrupted \cup {cur} ELSE interrupted
    /\ UNCHANGED <<disk, mem, cur, request, changes, backlog, active, taken>>

-----------------------------------------------------------------------------

Init ==
    /\ disk = [status |-> "running", wrapUp |-> FALSE, restart |-> FALSE,
               ledger |-> NewLedger,
               todo |-> [t \in Todos |-> IF t \in Recovery THEN NewTodo("absent", {})
                                          ELSE NewTodo("queued", Implements[t])]]
    /\ mem = disk
    /\ stage = "idle"
    /\ cur \in {CHOOSE t \in Todos : TRUE}
    /\ request = [t \in Todos |-> [n \in Tries |-> NoRequest]]
    /\ changes = {}
    /\ backlog = [t \in Todos |-> IF t \in Recovery THEN "none" ELSE "selected"]
    /\ active = TRUE
    /\ review = "none"
    /\ heard = [w \in Wishes |-> {}]
    /\ interrupted = {}
    /\ taken = {}
    /\ faults = 0

Loop ==
    \/ Resume \/ ResumeCompleted \/ Pick \/ RequestEnds
    \/ CommitMade \/ CommitReturns \/ SaveTodo
    \/ CloseoutCommits \/ CloseoutVerified \/ Reported

Mishap ==
    \/ CommitFails \/ CloseoutFails \/ Stop \/ StopFailed \/ Restart \/ Crash
    \/ \E t \in Todos, n \in Tries : RoleFails(t, n) \/ Cancel(t, n)

Next ==
    \/ Loop
    \/ Mishap
    \/ \E t \in Todos, n \in Tries : RoleReports(t, n) \/ RoleFinishes(t, n)
    \/ \E w \in Wishes : Hear(w) \/ Capture(w)

\* The event loop keeps running the sprint's task, the scheduler keeps polling,
\* and a request that was delegated is answered in the end.
Fairness ==
    /\ WF_vars(Loop)
    /\ \A t \in Todos, n \in Tries : WF_vars(RoleFinishes(t, n))

Spec == Init /\ [][Next]_vars /\ Fairness

-----------------------------------------------------------------------------
(* Properties *)

\* Every record stays within what the code writes, whatever its source.
TypeOK ==
    /\ disk \in Sprints
    /\ mem \in Sprints
    /\ stage \in Stages
    /\ cur \in Todos
    /\ request \in [Todos -> [Tries -> Requests]]
    /\ changes \subseteq Todos
    /\ backlog \in [Todos -> {"none", "selected", "done", "blocked", "carried_over"}]
    /\ active \in BOOLEAN
    /\ review \in {"none", "plain", "checkpoint"}
    /\ \A w \in Wishes : heard[w] \subseteq Sprints
    /\ interrupted \subseteq Todos
    /\ taken \subseteq Wishes
    /\ faults \in 0..MaxFaults

\* When the loop looks for work, a todo that counts as done has nothing left to
\* commit: execution, failed commits, crashes in the commit and restarts all end
\* in the version controller.  Not so for a todo whose request was open in a crash.
DoneIsCommitted ==
    stage = "review" =>
        \A t \in Todos \ interrupted : mem.todo[t].status \in Done => t \notin changes

\* The version controller tells a todo's changes from another's only by the
\* worktree before and after, so the roles must not be working on two requests.
\* A todo never has two, and only one left open by a crash may overlap another's:
\* its todo may count as done, or as waiting for one the closeout has queued.
OneAtATime ==
    \A t, u \in Todos, m, n \in Tries :
        Open(t, m) /\ Open(u, n) =>
            IF t = u THEN m = n ELSE interrupted \cap {t, u} # {}

\* A request left uncommitted, by a failed commit or by a crash in it, is seen
\* as such by every later pass of the loop, which has it committed again.
NothingForgotten ==
    stage = "review" =>
        \A t \in Todos : \A n \in Tries :
            request[t][n].status = "uncommitted" => mem.todo[t].status = "uncommitted"

\* A wish filed while no loop held its own copy of the open sprint keeps a place
\* in the file whatever the loop, the reports and the operator save, and is no
\* longer pending once the sprint has ended.  (The loop's next save drops one
\* that is filed while it works.)
WishesAreKept ==
    \A w \in taken :
        /\ disk.ledger.fate[w] # "none"
        /\ disk.status \in {"completed", "failed"} => disk.ledger.fate[w] # "pending"

\* What the loop, the requests' records and the backlog say of a todo, and the
\* file of a wish.
TodosAreTracked == TypeOK /\ OneAtATime /\ NothingForgotten /\ WishesAreKept

\* A completed sprint leaves no changes behind, but those of a role that was
\* still at work for a request the crashed loop no longer waits for.
WorktreeIsClean == changes \subseteq interrupted

\* Every requirement, the kickoff's and those taken up on the way, is implemented
\* by a todo that is done, with the same exception.
RequirementsAreMet ==
    \A r \in Requirements(disk.ledger) : \E t \in Todos :
        /\ r \in disk.todo[t].covers
        /\ disk.todo[t].status \in Done \/ t \in interrupted

CompletedIsClean == disk.status = "completed" => WorktreeIsClean /\ RequirementsAreMet

Starts(t) == stage = "review" /\ stage' \in {"running", "committing"} /\ cur' = t

\* Work that was committed is not done again: not after a crash between the
\* commit and the save of the sprint, a cancellation or a restart.
CommittedOnce ==
    [][\A t \in Todos : Starts(t) =>
            \A n \in Tries : request[t][n].status # "committed"]_vars

\* The sprint comes to an end, or stops as failed for an operator to look at.
Ends == <>[](stage = "idle" /\ (~active \/ disk.status = "failed"))
=============================================================================
