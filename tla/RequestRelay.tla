---------------------------- MODULE RequestRelay ----------------------------
(***************************************************************************)
(* How one delegated request travels between the orchestrator's process    *)
(* and the roles' processes.  They share two kinds of files: the request   *)
(* record, which each of them loads whole and saves whole without a lock,  *)
(* and an inbox per process (workflows/orchestration/relay.py) whose       *)
(* envelopes are archived only after they were handled.  A role has two    *)
(* loops that may run the same request: "relay" consumes its inbox and     *)
(* "resume" looks for records delegated to it; they share a claim held in  *)
(* memory.  What a report decides is WorkflowRequest's: here an accepted   *)
(* report hands the request on, completes it or blocks it.                 *)
(***************************************************************************)
EXTENDS Naturals, FiniteSets

CONSTANTS
    Roles,      \* the roles a request may be delegated to
    FirstRole,  \* the role of the first turn
    Faults,     \* what may go wrong, of FaultKinds
    MaxFaults,  \* bound of the model: how often
    MaxTurns,   \* bound of the model: turns taken at most
    MaxCopies   \* bound of the model: envelopes in an inbox

FaultKinds == {"orchestrator crash", "role crash", "lost send", "cancel"}

ASSUME RelayAssumption ==
    /\ FirstRole \in Roles /\ "orchestrator" \notin Roles /\ "none" \notin Roles
    /\ Faults \subseteq FaultKinds
    /\ MaxFaults \in Nat /\ MaxTurns \in Nat \ {0} /\ MaxCopies \in Nat \ {0}

Loops == {"relay", "resume"}

\* A role's result: whose it is, and for which turn.
Results  == [role : Roles, turn : 1..MaxTurns]
NoResult == [role |-> "none", turn |-> 0]

Statuses == {"delegated", "blocked", "completed", "cancelled"}
Terminal == {"completed", "cancelled"}

\* The persisted request: status, current_role and result; "turn" counts the
\* delegations and is not in the code, which identifies a turn by its role.
Records == [status : Statuses, role : Roles \cup {"orchestrator"},
            turn : 1..MaxTurns, result : Results \cup {NoResult}]

VARIABLES
    rec,       \* the request record on disk
    inbox,     \* inbox[r]: delegate envelopes for role r
    reports,   \* reports[e]: report envelopes that carry result e
    task,      \* task[r][loop]: what a loop of role r is doing, or Idle
    claimed,   \* roles whose process has claimed the request
    scanned,   \* scanned[r]: record a pass of the resume loop read and not yet used
    orch,      \* what the orchestrator's consumer is doing, or Idle
    worked,    \* history: the turns whose work was done by their role
    crossed,   \* history: an old copy was saved, or an old answer can be taken
    faults     \* faults so far

vars == <<rec, inbox, reports, task, claimed, scanned, orch, worked, crossed, faults>>

Idle   == [stage |-> "idle"]
Unseen == [status |-> "none"]
Sent   == [stage |-> "sent", seen |-> Unseen]   \* the copy is not used any more

TypeOK ==
    /\ rec \in Records
    /\ inbox \in [Roles -> 0..MaxCopies]
    /\ reports \in [Results -> Nat]
    /\ task \in [Roles -> [Loops ->
                   [stage : {"running", "ran"}, seen : Records] \cup {Sent, Idle}]]
    /\ claimed \subseteq Roles
    /\ scanned \in [Roles -> Records \cup {Unseen}]
    /\ orch \in [stage : {"applying", "sending"}, seen : Records, report : Results]
               \cup [stage : {"done"}, seen : {Unseen}, report : Results] \cup {Idle}
    /\ worked \subseteq 1..MaxTurns
    /\ crossed \in BOOLEAN
    /\ faults \in 0..MaxFaults

Init ==
    /\ rec = [status |-> "delegated", role |-> FirstRole, turn |-> 1, result |-> NoResult]
    /\ inbox = [r \in Roles |-> IF r = FirstRole THEN 1 ELSE 0]
    /\ reports = [e \in Results |-> 0]
    /\ task = [r \in Roles |-> [loop \in Loops |-> Idle]]
    /\ claimed = {}
    /\ scanned = [r \in Roles |-> Unseen]
    /\ orch = Idle
    /\ worked = {}
    /\ crossed = FALSE
    /\ faults = 0

----------------------------------------------------------------------------
(* Nothing in the code keeps a process from saving a copy of the record     *)
(* that another one has changed since, or tells a report from one of an    *)
(* earlier turn of its role.  "crossed" remembers that this came about.    *)

Crossing(cause) == crossed' = (crossed \/ cause)

\* The record was changed since this copy of it was read.
Changed(copy) == copy # rec

\* A result of role r is still to be handled, or to be sent, apart from the copy
\* of the report that the orchestrator has in hand.
InHand(e) == IF orch # Idle /\ orch.report = e THEN 1 ELSE 0
Outstanding(r) ==
    \/ \E e \in Results : e.role = r /\ reports[e] > InHand(e)
    \/ \E loop \in Loops : task[r][loop].stage = "ran"

\* The bound of the orchestrator's inbox.
Room == Cardinality({c \in Results \X (1..MaxCopies) : c[2] <= reports[c[1]]}) < MaxCopies

----------------------------------------------------------------------------
(* The roles.                                                              *)

\* Mutant: the claim is taken without asking who holds it.
Begin_Unclaimed(r, loop, stage, seen) ==
    /\ task[r][loop] = Idle
    /\ claimed' = claimed \cup {r}
    /\ task' = [task EXCEPT ![r][loop] = [stage |-> stage, seen |-> seen]]

Begin(r, loop, stage, seen) ==
    /\ r \notin claimed
    /\ task[r][loop] = Idle
    /\ claimed' = claimed \cup {r}
    /\ task' = [task EXCEPT ![r][loop] = [stage |-> stage, seen |-> seen]]

\* handle_delegated_request runs the task on the record as it is now, without
\* asking whether the record is still delegated to this role.
TakeDelegate(r) ==
    /\ inbox[r] > 0
    /\ Begin(r, "relay", "running", rec)
    /\ UNCHANGED <<rec, inbox, reports, scanned, orch, worked, crossed, faults>>

\* "Skipping delegated request already in progress": the envelope is archived.
DropDelegate(r) ==
    /\ inbox[r] > 0 /\ task[r]["relay"] = Idle /\ r \in claimed
    /\ inbox' = [inbox EXCEPT ![r] = @ - 1]
    /\ UNCHANGED <<rec, reports, task, claimed, scanned, orch, worked, crossed, faults>>

Pending(r) == rec.status = "delegated" /\ rec.role = r

\* Mutant: whichever role's result the record holds is sent again.
Resend_AnyRole(r, seen) ==
    /\ seen.result # NoResult
    /\ Room
    /\ Begin(r, "resume", "sent", Unseen)
    /\ reports' = [reports EXCEPT ![seen.result] = @ + 1]
    /\ rec' = seen
    /\ Crossing(Changed(seen) \/ seen.result.turn # seen.turn)

\* A result of this role found in the record is sent again, whichever turn it
\* answered, and recording the delivery saves the record as it was read.
Resend(r, seen) ==
    /\ seen.result.role = r
    /\ Room
    /\ Begin(r, "resume", "sent", Unseen)
    /\ reports' = [reports EXCEPT ![seen.result] = @ + 1]
    /\ rec' = seen
    /\ Crossing(Changed(seen) \/ seen.result.turn # seen.turn)

Rerun(r, seen) ==
    /\ seen.result.role # r
    /\ Begin(r, "resume", "running", seen)
    /\ UNCHANGED <<rec, reports, crossed>>

\* Mutant: a delegate that was lost is not run again.
ResumePending_ResendOnly(r, seen) == Resend(r, seen)

ResumePending(r, seen) == Resend(r, seen) \/ Rerun(r, seen)

\* A pass of the resume loop that reaches this request at once ...
ResumeNow(r) ==
    /\ Pending(r) /\ scanned[r] = Unseen
    /\ ResumePending(r, rec)
    /\ UNCHANGED <<inbox, scanned, orch, worked, faults>>

\* ... and one that reads the records first and works on others in between.
ResumeScan(r) ==
    /\ Pending(r) /\ scanned[r] = Unseen /\ task[r]["resume"] = Idle
    /\ scanned' = [scanned EXCEPT ![r] = rec]
    /\ UNCHANGED <<rec, inbox, reports, task, claimed, orch, worked, crossed, faults>>

ResumeLater(r) ==
    /\ scanned[r] # Unseen
    /\ scanned' = [scanned EXCEPT ![r] = Unseen]
    /\ \/ ResumePending(r, scanned[r])
       \/ r \in claimed /\ UNCHANGED <<rec, reports, task, claimed, crossed>>
    /\ UNCHANGED <<inbox, orch, worked, faults>>

\* The run ends and _persist_request_result saves the record as it was when the
\* run began, with the result in it.
FinishRun(r, loop) ==
    LET seen  == task[r][loop].seen
        saved == [seen EXCEPT !.result = [role |-> r, turn |-> seen.turn]] IN
    /\ task[r][loop].stage = "running"
    /\ rec' = saved
    /\ Crossing(Changed(seen))
    /\ task' = [task EXCEPT ![r][loop] = [stage |-> "ran", seen |-> saved]]
    /\ worked' = IF seen.role = r THEN worked \cup {seen.turn} ELSE worked
    /\ UNCHANGED <<inbox, reports, claimed, scanned, orch, faults>>

SendReport(r, loop) ==
    LET e == task[r][loop].seen.result IN
    /\ task[r][loop].stage = "ran"
    /\ Room
    /\ reports' = [reports EXCEPT ![e] = @ + 1]
    /\ task' = [task EXCEPT ![r][loop] = Sent]
    /\ UNCHANGED <<rec, inbox, claimed, scanned, orch, worked, crossed, faults>>

Fault(kind) == kind \in Faults /\ faults < MaxFaults /\ faults' = faults + 1

\* The enqueue fails; nobody tries again.
LoseReport(r, loop) ==
    /\ Fault("lost send")
    /\ task[r][loop].stage = "ran"
    /\ task' = [task EXCEPT ![r][loop] = Sent]
    /\ UNCHANGED <<rec, inbox, reports, claimed, scanned, orch, worked, crossed>>

\* Mutant: the resume loop archives an envelope as well.
EndTask_ArchivesAlways(r, loop) ==
    /\ task[r][loop].stage = "sent"
    /\ task' = [task EXCEPT ![r][loop] = Idle]
    /\ claimed' = claimed \ {r}
    /\ inbox' = [inbox EXCEPT ![r] = @ - 1]
    /\ UNCHANGED <<rec, reports, scanned, orch, worked, crossed, faults>>

\* The claim is released; the relay loop archives its envelope.
EndTask(r, loop) ==
    /\ task[r][loop].stage = "sent"
    /\ task' = [task EXCEPT ![r][loop] = Idle]
    /\ claimed' = claimed \ {r}
    /\ inbox' = IF loop = "relay" THEN [inbox EXCEPT ![r] = @ - 1] ELSE inbox
    /\ UNCHANGED <<rec, reports, scanned, orch, worked, crossed, faults>>

\* Claims and tasks are lost, files stay; the process is started again.
CrashRole(r) ==
    /\ Fault("role crash")
    /\ task' = [task EXCEPT ![r] = [loop \in Loops |-> Idle]]
    /\ claimed' = claimed \ {r}
    /\ scanned' = [scanned EXCEPT ![r] = Unseen]
    /\ UNCHANGED <<rec, inbox, reports, orch, worked, crossed>>

----------------------------------------------------------------------------
(* The orchestrator.                                                       *)

\* Mutant: only a closed request is too late for a report.
Stale_ClosedOnly(e) == rec.status \in Terminal

\* _stale_role_report_reason; a blocked request still takes reports.
Stale(e) == rec.status \in Terminal \/ rec.role # e.role

Archived(e) == [reports EXCEPT ![e] = @ - 1]

IgnoreReport(e) ==
    /\ orch = Idle /\ reports[e] > 0
    /\ Stale(e)
    /\ reports' = Archived(e)
    /\ UNCHANGED <<rec, inbox, task, claimed, scanned, orch, worked, crossed, faults>>

AcceptReport(e) ==
    /\ orch = Idle /\ reports[e] > 0
    /\ ~Stale(e)
    /\ orch' = [stage |-> "applying", seen |-> rec, report |-> e]
    /\ UNCHANGED <<rec, inbox, reports, task, claimed, scanned, worked, crossed, faults>>

\* apply_role_result works on the record it loaded and saves it.
Save(next, stage, cause) ==
    /\ orch.stage = "applying"
    /\ Crossing(Changed(orch.seen) \/ cause)
    /\ rec' = next
    /\ orch' = [orch EXCEPT !.stage = stage,
                             !.seen = IF stage = "done" THEN Unseen ELSE next]
    /\ UNCHANGED <<inbox, reports, task, claimed, scanned, worked, faults>>

Answered == [orch.seen EXCEPT !.result = orch.report]

\* A repeated report may decide otherwise, as the workflow has gone on.
RouteTo(r) ==
    /\ orch.stage = "applying"
    /\ orch.seen.turn < MaxTurns
    /\ inbox[r] < MaxCopies
    /\ Save([Answered EXCEPT !.status = "delegated", !.role = r, !.turn = @ + 1],
            "sending", Outstanding(r))

CompleteRequest ==
    Save([Answered EXCEPT !.status = "completed", !.role = "orchestrator"], "done", FALSE)

BlockRequest ==
    Save([Answered EXCEPT !.status = "blocked"], "done", FALSE)

\* delegate_request: enqueue, then record the delivery in the same record.
SendDelegate ==
    /\ orch.stage = "sending"
    /\ inbox' = [inbox EXCEPT ![orch.seen.role] = @ + 1]
    /\ rec' = orch.seen
    /\ Crossing(Changed(orch.seen))
    /\ orch' = [orch EXCEPT !.stage = "done", !.seen = Unseen]
    /\ UNCHANGED <<reports, task, claimed, scanned, worked, faults>>

\* The enqueue fails: the failure is recorded, the request stays delegated.
LoseDelegate ==
    /\ Fault("lost send")
    /\ orch.stage = "sending"
    /\ rec' = orch.seen
    /\ Crossing(Changed(orch.seen))
    /\ orch' = [orch EXCEPT !.stage = "done", !.seen = Unseen]
    /\ UNCHANGED <<inbox, reports, task, claimed, scanned, worked>>

ArchiveReport ==
    /\ orch.stage = "done"
    /\ reports' = Archived(orch.report)
    /\ orch' = Idle
    /\ UNCHANGED <<rec, inbox, task, claimed, scanned, worked, crossed, faults>>

\* The report in hand stays in the inbox, also when what it decided is saved.  An
\* exception ends the handling in the same way.
CrashOrchestrator ==
    /\ Fault("orchestrator crash")
    /\ orch # Idle
    /\ orch' = Idle
    /\ Crossing(rec.role = orch.report.role /\ rec.turn # orch.report.turn)
    /\ UNCHANGED <<rec, inbox, reports, task, claimed, scanned, worked>>

\* cancel_request loads and saves without an await, at any time.
CancelRequest ==
    /\ Fault("cancel")
    /\ rec' = [rec EXCEPT !.status = "cancelled"]
    /\ UNCHANGED <<inbox, reports, task, claimed, scanned, orch, worked, crossed>>

----------------------------------------------------------------------------
Consume(r) == TakeDelegate(r) \/ DropDelegate(r)

LoopStep(r, loop) == FinishRun(r, loop) \/ SendReport(r, loop) \/ EndTask(r, loop)

HandleReports ==
    \/ \E e \in Results : IgnoreReport(e) \/ AcceptReport(e)
    \/ \E r \in Roles : RouteTo(r)
    \/ CompleteRequest \/ BlockRequest \/ SendDelegate \/ ArchiveReport

Next ==
    \/ \E r \in Roles :
         \/ Consume(r) \/ ResumeNow(r) \/ ResumeScan(r) \/ ResumeLater(r) \/ CrashRole(r)
         \/ \E loop \in Loops : LoopStep(r, loop) \/ LoseReport(r, loop)
    \/ HandleReports \/ LoseDelegate \/ CrashOrchestrator \/ CancelRequest

\* Every loop goes on for ever and survives its exceptions, and a process that
\* crashed is started again; nothing orders the loops of different processes.
Fairness ==
    /\ \A r \in Roles : WF_vars(Consume(r)) /\ WF_vars(ResumeNow(r) \/ ResumeLater(r))
    /\ \A r \in Roles, loop \in Loops : WF_vars(LoopStep(r, loop))
    /\ WF_vars(HandleReports)

Spec == Init /\ [][Next]_vars /\ Fairness

----------------------------------------------------------------------------
(* Properties.                                                             *)

\* The two loops of a role never work on the request at the same time, and the
\* claim is held exactly while one of them does: without this one run would be
\* started for the delegate and another by the resume loop.
OneLoopAtATime ==
    \A r \in Roles :
      /\ task[r]["relay"] = Idle \/ task[r]["resume"] = Idle
      /\ r \in claimed <=> \E loop \in Loops : task[r][loop] # Idle

\* ... and no envelope is archived twice by the two of them.
LoopsKeepApart == TypeOK /\ OneLoopAtATime

\* What a report decides is decided for the turn that asked for it: a report is
\* accepted as the answer to an earlier turn of its role only after an old copy of
\* the record was saved, or an answer of that turn outlived it: it waited in the
\* inbox while the role was asked again, was sent again by the resume loop, or was
\* left there by a crash after its save.
AnswersItsTurn == ~crossed /\ orch.stage = "applying" => orch.report.turn = orch.seen.turn

\* Whatever was lost or crashed, a delegated request ends up completed, blocked or
\* cancelled: no request waits for ever for an envelope nobody will send.
Settles == <>[](crossed \/ rec.status # "delegated")

Turns == INSTANCE RequestTurns
           WITH status <- rec.status, holder <- rec.role, turn <- rec.turn

\* The relay implements the abstract turns: nothing is handed on before its
\* work was done, no turn is taken back, and the request gets somewhere.
ImplementsTurns == Turns!Spec
=============================================================================
