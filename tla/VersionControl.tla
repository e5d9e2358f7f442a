--------------------------- MODULE VersionControl ---------------------------
(***************************************************************************)
(* The git side of a sprint: the baselines that say which changes a task   *)
(* or the sprint owns, the commit helper the version controller runs, one  *)
(* git command at a time, and the closeout that looks for leftovers.  The  *)
(* worktree is shared with its user, who edits, stages and commits in it   *)
(* at any moment.  A file's content is the number of the edit that made    *)
(* it; edit 0 is what the repository held.                                 *)
(***************************************************************************)
EXTENDS Naturals, Sequences

CONSTANTS
    Files,       \* the paths of the worktree
    Requests,    \* the sprint's task requests
    MaxEvents    \* bound on edits, failed commands and crashes together

Sprint == "sprint"
User == "user"
Jobs == Requests \cup {Sprint}

\* No request is taken for the sprint's closeout, for the user, or for no job.
ASSUME VersionControlAssumption ==
    /\ MaxEvents \in Nat
    /\ Requests \cap {Sprint, User, "none"} = {}

VARIABLES
    worktree,    \* content, staged content and committed content per file
    unmerged,    \* files with a merge conflict
    authors,     \* who made each edit
    log,         \* kinds of commits since the sprint began
    baseline,    \* the dirty paths recorded per job, Uncaptured before
    status,      \* status of each task request
    closeout,    \* status of the sprint's closeout, "" before
    git,         \* the helper: the job it serves, its step, paths and outcome
    faults       \* how many faults happened

vars == <<worktree, unmerged, authors, log, baseline, status, closeout, git, faults>>

Uncaptured == [dirty |-> {}, captured |-> FALSE]
NoGit == [job |-> "none", step |-> "idle", paths |-> {}, outcome |-> ""]
Steps == {"idle", "inspect", "resolve", "add", "commit", "answer"}
Outcomes == {"", "committed", "no_changes", "failed"}
RequestStatuses == {"queued", "running", "uncommitted", "committed", "completed", "blocked"}
CloseoutStatuses ==
    {"", "requested", "verified", "no_new_commits", "warning_missing_sprint_tag",
     "pending_changes", "failed", "version_control_failed"}

TypeOK ==
    /\ worktree \in [Files -> [work : 0..MaxEvents, index : 0..MaxEvents, head : 0..MaxEvents]]
    /\ unmerged \subseteq Files
    /\ authors \in Seq(Requests \cup {User}) /\ Len(authors) <= MaxEvents
    /\ log \subseteq {"sprint", "other"}
    /\ baseline \in [Jobs -> [dirty : SUBSET Files, captured : BOOLEAN]]
    /\ status \in [Requests -> RequestStatuses]
    /\ closeout \in CloseoutStatuses
    /\ git \in [job : Jobs \cup {"none"}, step : Steps, paths : SUBSET Files, outcome : Outcomes]
    /\ faults \in 0..MaxEvents

-----------------------------------------------------------------------------
\* git status lists a file whose content, stage and commit are not all equal.
Modified(f) == worktree[f].work # worktree[f].index \/ worktree[f].index # worktree[f].head
Dirty == {f \in Files : Modified(f)} \cup unmerged

Owned_All(job) == Dirty

\* What a job owns: dirty now and clean when its baseline was taken.
Owned(job) == Dirty \ baseline[job].dirty

Captured == [dirty |-> Dirty, captured |-> TRUE]

Fault == Len(authors) + faults < MaxEvents /\ faults' = faults + 1

Edit(who, f) ==
    /\ Len(authors) + faults < MaxEvents
    /\ authors' = Append(authors, who)
    /\ worktree' = [worktree EXCEPT ![f].work = Len(authors) + 1]

-----------------------------------------------------------------------------
\* The user of the worktree, who may also be a role that stages or commits.
UserEdits(f) ==
    /\ Edit(User, f)
    /\ UNCHANGED <<unmerged, log, baseline, status, closeout, git, faults>>

UserStages(f) ==
    /\ worktree[f].index # worktree[f].work
    /\ worktree' = [worktree EXCEPT ![f].index = worktree[f].work]
    /\ unmerged' = unmerged \ {f}
    /\ UNCHANGED <<authors, log, baseline, status, closeout, git, faults>>

Committable == unmerged = {} /\ \E f \in Files : worktree[f].index # worktree[f].head
HeadIsIndex == [f \in Files |-> [worktree[f] EXCEPT !.head = worktree[f].index]]

UserCommits ==
    /\ Committable
    /\ worktree' = HeadIsIndex
    /\ log' = log \cup {"other"}
    /\ UNCHANGED <<unmerged, authors, baseline, status, closeout, git, faults>>

-----------------------------------------------------------------------------
\* The work of a task: a request is created with a baseline of its own, its
\* roles write files, and it ends completed or blocked.
Unsettled == {"running", "uncommitted"}

SprintBegins ==
    /\ ~baseline[Sprint].captured
    /\ baseline' = [baseline EXCEPT ![Sprint] = Captured]
    /\ UNCHANGED <<worktree, unmerged, authors, log, status, closeout, git, faults>>

TaskBegins(r) ==
    /\ baseline[Sprint].captured /\ closeout = ""
    /\ status[r] = "queued"
    /\ \A q \in Requests : status[q] \notin Unsettled
    /\ status' = [status EXCEPT ![r] = "running"]
    /\ baseline' = [baseline EXCEPT ![r] = Captured]
    /\ UNCHANGED <<worktree, unmerged, authors, log, closeout, git, faults>>

RoleWrites(r, f) ==
    /\ status[r] = "running"
    /\ Edit(r, f)
    /\ UNCHANGED <<unmerged, log, baseline, status, closeout, git, faults>>

\* A merge that stops at a conflict leaves both sides in the file.
RoleMerges(r, f) ==
    /\ status[r] = "running"
    /\ Edit(r, f)
    /\ unmerged' = unmerged \cup {f}
    /\ UNCHANGED <<log, baseline, status, closeout, git, faults>>

TaskIsBlocked(r) ==
    /\ status[r] = "running"
    /\ status' = [status EXCEPT ![r] = "blocked"]
    /\ UNCHANGED <<worktree, unmerged, authors, log, baseline, closeout, git, faults>>

Asked(job) == git' = [NoGit EXCEPT !.job = job, !.step = "inspect"]

Enforce_Unrecovered(r) ==
    \/ /\ Owned(r) = {} \/ status[r] = "uncommitted"
       /\ status' = [status EXCEPT ![r] = "completed"]
       /\ git' = NoGit
    \/ /\ Owned(r) # {} /\ status[r] = "running"
       /\ status' = [status EXCEPT ![r] = "uncommitted"]
       /\ Asked(r)

\* A completed task with owned changes is uncommitted until the version
\* controller has answered; without any it is completed at once.
Enforce(r) ==
    \/ /\ Owned(r) = {}
       /\ status' = [status EXCEPT ![r] = "completed"]
       /\ git' = NoGit
    \/ /\ Owned(r) # {}
       /\ status' = [status EXCEPT ![r] = "uncommitted"]
       /\ Asked(r)

TaskCompletes(r) ==
    /\ status[r] = "running"
    /\ git.step = "idle"
    /\ Enforce(r)
    /\ UNCHANGED <<worktree, unmerged, authors, log, baseline, closeout, faults>>

\* The next run of the sprint takes an uncommitted todo up again.
Retry(r) ==
    /\ status[r] = "uncommitted"
    /\ git.step = "idle"
    /\ Enforce(r)
    /\ UNCHANGED <<worktree, unmerged, authors, log, baseline, closeout, faults>>

-----------------------------------------------------------------------------
\* The helper, one git command at a time.
Answer(outcome) == git' = [git EXCEPT !.step = "answer", !.outcome = outcome]

Inspected ==
    /\ git.step = "inspect"
    /\ \/ /\ Owned(git.job) = {} /\ (git.job \in Requests \/ unmerged = {})
          /\ Answer("no_changes")
       \/ /\ unmerged = {} /\ Owned(git.job) # {}
          /\ git' = [git EXCEPT !.step = "add", !.paths = Owned(git.job)]
       \/ /\ unmerged # {} /\ (Owned(git.job) # {} \/ git.job = Sprint)
          /\ git' = [git EXCEPT !.step = "resolve"]
    /\ UNCHANGED <<worktree, unmerged, authors, log, baseline, status, closeout, faults>>

Resolved_Unadded ==
    /\ git.step = "resolve"
    /\ worktree' = [f \in Files |->
            IF f \in unmerged THEN [worktree[f] EXCEPT !.work = worktree[f].head] ELSE worktree[f]]
    /\ Answer("failed")
    /\ UNCHANGED <<unmerged, authors, log, baseline, status, closeout, faults>>

\* Every conflict is settled for what HEAD holds, whoever the file belongs to.
Resolved ==
    /\ git.step = "resolve"
    /\ worktree' = [f \in Files |->
            IF f \in unmerged
            THEN [work |-> worktree[f].head, index |-> worktree[f].head, head |-> worktree[f].head]
            ELSE worktree[f]]
    /\ unmerged' = {}
    /\ LET left == {f \in Files \ unmerged : Modified(f)} \ baseline[git.job].dirty IN
       IF left = {} THEN Answer("no_changes")
       ELSE git' = [git EXCEPT !.step = "add", !.paths = left]
    /\ UNCHANGED <<authors, log, baseline, status, closeout, faults>>

Added ==
    /\ git.step = "add"
    /\ worktree' = [f \in Files |->
            IF f \in git.paths THEN [worktree[f] EXCEPT !.index = worktree[f].work] ELSE worktree[f]]
    /\ unmerged' = unmerged \ git.paths
    /\ git' = [git EXCEPT !.step = "commit"]
    /\ UNCHANGED <<authors, log, baseline, status, closeout, faults>>

Committed_Everything ==
    /\ git.step = "commit"
    /\ \/ /\ Committable
          /\ worktree' = [f \in Files |->
                [work |-> worktree[f].work, index |-> worktree[f].work, head |-> worktree[f].work]]
          /\ log' = log \cup {"sprint"}
          /\ Answer("committed")
       \/ /\ ~Committable
          /\ Answer("failed")
          /\ UNCHANGED <<worktree, log>>
    /\ UNCHANGED <<unmerged, authors, baseline, status, closeout, faults>>

\* git commit takes all that is staged, and fails when nothing is.
Committed ==
    /\ git.step = "commit"
    /\ \/ /\ Committable
          /\ worktree' = HeadIsIndex
          /\ log' = log \cup {"sprint"}
          /\ Answer("committed")
       \/ /\ ~Committable
          /\ Answer("failed")
          /\ UNCHANGED <<worktree, log>>
    /\ UNCHANGED <<unmerged, authors, baseline, status, closeout, faults>>

\* A command fails (a lock, a hook), the version controller's session fails
\* and its answer is lost, or the process stops.  What git did stays done.
CommandFails ==
    /\ git.step \in {"resolve", "add", "commit"}
    /\ Fault
    /\ Answer("failed")
    /\ UNCHANGED <<worktree, unmerged, authors, log, baseline, status, closeout>>

AnswerIsLost ==
    /\ git.step \in {"inspect", "answer"} /\ git.outcome # "failed"
    /\ Fault
    /\ Answer("failed")
    /\ UNCHANGED <<worktree, unmerged, authors, log, baseline, status, closeout>>

Crash ==
    /\ git.step # "idle"
    /\ Fault
    /\ git' = NoGit
    /\ closeout' = ""
    /\ UNCHANGED <<worktree, unmerged, authors, log, baseline, status>>

TaskIsAnswered_Raw(r) ==
    /\ git.job = r /\ git.step = "answer"
    /\ status' = [status EXCEPT ![r] = IF git.outcome = "failed" THEN "uncommitted" ELSE git.outcome]
    /\ git' = NoGit
    /\ UNCHANGED <<worktree, unmerged, authors, log, baseline, closeout, faults>>

\* The orchestrator takes the answer about a task.
TaskIsAnswered(r) ==
    /\ git.job = r /\ git.step = "answer"
    /\ status' = [status EXCEPT ![r] =
            CASE git.outcome = "committed" -> "committed"
              [] git.outcome = "no_changes" -> "completed"
              [] git.outcome = "failed" -> "uncommitted"]
    /\ git' = NoGit
    /\ UNCHANGED <<worktree, unmerged, authors, log, baseline, closeout, faults>>

-----------------------------------------------------------------------------
\* What the closeout finds: leftovers of the sprint, then commits since it
\* began, then commits that carry its id.
Inspection_LogFirst ==
    IF "sprint" \in log THEN "verified"
    ELSE IF Owned(Sprint) # {} THEN "pending_changes"
    ELSE IF log = {} THEN "no_new_commits" ELSE "warning_missing_sprint_tag"

Inspection ==
    IF Owned(Sprint) # {} THEN "pending_changes"
    ELSE IF log = {} THEN "no_new_commits"
    ELSE IF "sprint" \in log THEN "verified" ELSE "warning_missing_sprint_tag"

CloseoutBegins ==
    /\ baseline[Sprint].captured /\ closeout = ""
    /\ \A r \in Requests : status[r] \notin Unsettled
    /\ \/ /\ Inspection = "pending_changes"
          /\ closeout' = "requested"
          /\ Asked(Sprint)
          /\ UNCHANGED faults
       \/ /\ Inspection # "pending_changes"
          /\ closeout' = Inspection
          /\ UNCHANGED <<git, faults>>
       \/ \* git log fails
          /\ Fault
          /\ closeout' = "failed"
          /\ UNCHANGED git
    /\ UNCHANGED <<worktree, unmerged, authors, log, baseline, status>>

\* The commits are inspected once more after the version controller.
CloseoutIsAnswered ==
    /\ git.job = Sprint /\ git.step = "answer"
    /\ closeout' = IF git.outcome = "failed" THEN "version_control_failed" ELSE Inspection
    /\ git' = NoGit
    /\ UNCHANGED <<worktree, unmerged, authors, log, baseline, status, faults>>

-----------------------------------------------------------------------------
Init ==
    /\ worktree = [f \in Files |-> [work |-> 0, index |-> 0, head |-> 0]]
    /\ unmerged = {}
    /\ authors = << >>
    /\ log = {}
    /\ baseline = [j \in Jobs |-> Uncaptured]
    /\ status = [r \in Requests |-> "queued"]
    /\ closeout = ""
    /\ git = NoGit
    /\ faults = 0

Controller ==
    \/ Inspected \/ Resolved \/ Added \/ Committed
    \/ \E r \in Requests : TaskIsAnswered(r)
    \/ CloseoutIsAnswered

Next ==
    \/ \E f \in Files : UserEdits(f) \/ UserStages(f)
    \/ UserCommits
    \/ SprintBegins
    \/ \E r \in Requests, f \in Files : RoleWrites(r, f) \/ RoleMerges(r, f)
    \/ \E r \in Requests : TaskBegins(r) \/ TaskIsBlocked(r) \/ TaskCompletes(r) \/ Retry(r)
    \/ Controller \/ CommandFails \/ AnswerIsLost \/ Crash
    \/ CloseoutBegins

\* A helper that runs goes on, and a sprint with an uncommitted todo is
\* resumed by the scheduler.
Spec == Init /\ [][Next]_vars /\ WF_vars(Controller) /\ \A r \in Requests : WF_vars(Retry(r))

-----------------------------------------------------------------------------
MadeBy(who, f) == worktree[f].work # 0 /\ authors[worktree[f].work] = who

\* A task that is reported done left nothing of its own behind: what its roles
\* wrote into a file that was clean at its baseline, and is still there, is
\* committed (lifecycle.py enforce_task_commit_for_completed_todo).
DoneIsInHistory ==
    \A r \in Requests, f \in Files :
        status[r] \in {"committed", "completed"} /\ f \notin baseline[r].dirty /\ MadeBy(r, f)
            => worktree[f].head = worktree[f].work

\* A closeout that finds nothing wrong left no change of any of the sprint's
\* tasks behind, the blocked ones included, whose files every later task takes
\* for dirty ones of somebody else (repository_ops.py inspect_sprint_closeout).
ClosedLeavesNothing ==
    closeout \in {"verified", "no_new_commits", "warning_missing_sprint_tag"} =>
        \A r \in Requests, f \in Files :
            f \notin baseline[Sprint].dirty /\ MadeBy(r, f) => worktree[f].head = worktree[f].work

\* Neither the end of a task nor that of the sprint leaves its work uncommitted.
NothingIsLeft == TypeOK /\ DoneIsInHistory /\ ClosedLeavesNothing

\* What lay dirty in the worktree when a job's baseline was taken stays out of
\* its commit, through conflicts, retries and what the user does meanwhile,
\* unless somebody else staged it: the helper stages no such file and commits
\* none that was not staged (repository_ops.py commit_sprint_changes).
CommitIsNarrow ==
    [][Added \/ Committed =>
        \A f \in baseline[git.job].dirty :
            /\ worktree'[f].index = worktree[f].index
            /\ worktree'[f].head \in {worktree[f].head, worktree[f].index}]_vars

\* Whatever commands fail, an uncommitted task, of which there is one at a time,
\* is settled in the end (lifecycle.py resume_uncommitted_sprint_todo).
UncommittedIsSettled ==
    (\E r \in Requests : status[r] = "uncommitted")
        ~> (\A r \in Requests : status[r] # "uncommitted")

=============================================================================
