------------------------- MODULE RequestRelayProofs -------------------------
(***************************************************************************)
(* Theorems about RequestRelay for every set of roles, every fault and     *)
(* every bound: its records keep their types, and the claim keeps a role's *)
(* two loops apart; and, until copies or answers of different turns cross, *)
(* a report answers the turn it is taken for and the relay takes the steps *)
(* of RequestTurns only.                                                   *)
(***************************************************************************)
EXTENDS RequestRelay, TLAPS

\* An envelope leaves an inbox only when it is archived, after it was handled:
\* while a relay loop works, the one it works for is still there.
TaskHasEnvelope == \A r \in Roles : task[r]["relay"] # Idle => inbox[r] > 0
OrchHasEnvelope == orch # Idle => reports[orch.report] > 0

\* Nobody else fills the inbox the orchestrator is about to send to.
SendingHasRoom ==
    orch.stage = "sending" => orch.seen.role \in Roles /\ inbox[orch.seen.role] < MaxCopies

\* The inductive invariant.
RelayInv == TypeOK /\ OneLoopAtATime /\ TaskHasEnvelope /\ OrchHasEnvelope /\ SendingHasRoom

-----------------------------------------------------------------------------
\* The kinds of task and of orchestrator state, told apart by their stage.
Tasks == [stage : {"running", "ran"}, seen : Records] \cup {Sent}
Orchs == [stage : {"applying", "sending"}, seen : Records, report : Results]
           \cup [stage : {"done"}, seen : {Unseen}, report : Results]

\* What a task of a role may be.
LEMMA TaskCases ==
    ASSUME TypeOK, NEW r \in Roles, NEW loop \in Loops
    PROVE  /\ task[r][loop] \in Tasks \cup {Idle}
           /\ task[r][loop] # Idle => task[r][loop] \in Tasks
           /\ task[r][loop].stage # "idle" => task[r][loop] # Idle
           /\ task[r][loop].stage \in {"running", "ran"} => task[r][loop].seen \in Records
<1>1. task[r][loop] \in Tasks \cup {Idle}
  BY DEF TypeOK, Tasks
<1>2. Idle.stage = "idle" /\ Sent.stage = "sent"
  BY DEF Idle, Sent
<1>3. QED
  BY <1>1, <1>2 DEF Tasks

\* What the orchestrator's consumer may be at.
LEMMA OrchCases ==
    ASSUME TypeOK
    PROVE  /\ orch # Idle => orch \in Orchs
           /\ orch.stage # "idle" => orch # Idle
           /\ orch # Idle => orch.report \in Results
           /\ orch.stage \in {"applying", "sending"} => orch.seen \in Records
BY DEF TypeOK, Orchs, Idle

\* A result that names a role is a result.
LEMMA RealResult ==
    ASSUME NEW seen \in Records, seen.result.role \in Roles
    PROVE  seen.result \in Results
<1>1. seen.result \in Results \cup {NoResult}
  BY DEF Records
<1>2. NoResult.role \notin Roles
  BY RelayAssumption DEF NoResult
<1>3. QED
  BY <1>1, <1>2

\* The invariant holds at the start.
LEMMA InitRelayInv == Init => RelayInv
<1> SUFFICES ASSUME Init PROVE RelayInv
  OBVIOUS
<1> USE RelayAssumption DEF Init
<1>1. rec \in Records
  BY DEF Records, Statuses
<1>2. TypeOK
  <2>1. inbox \in [Roles -> 0..MaxCopies] /\ reports \in [Results -> Nat]
    OBVIOUS
  <2>2. task \in [Roles -> [Loops -> {Idle}]] /\ scanned \in [Roles -> {Unseen}]
    OBVIOUS
  <2>3. faults \in 0..MaxFaults
    OBVIOUS
  <2>4. crossed \in BOOLEAN
    OBVIOUS
  <2>5. QED
    BY <1>1, <2>1, <2>2, <2>3, <2>4 DEF TypeOK
<1>3. OneLoopAtATime /\ TaskHasEnvelope
  BY DEF OneLoopAtATime, TaskHasEnvelope, Loops
<1>4. orch.stage = "idle"
  BY DEF Idle
<1>5. QED
  BY <1>2, <1>3, <1>4 DEF RelayInv, OrchHasEnvelope, SendingHasRoom

-----------------------------------------------------------------------------
\* Setting what one loop does changes that loop only.
LEMMA TaskSet ==
    ASSUME TypeOK, NEW r \in Roles, NEW loop \in Loops, NEW x \in Tasks \cup {Idle},
           task' = [task EXCEPT ![r][loop] = x]
    PROVE  /\ task' \in [Roles -> [Loops -> Tasks \cup {Idle}]]
           /\ \A s \in Roles, k \in Loops :
                 task'[s][k] = IF s = r /\ k = loop THEN x ELSE task[s][k]
<1>1. task \in [Roles -> [Loops -> Tasks \cup {Idle}]]
  BY DEF TypeOK, Tasks
<1>2. QED
  BY <1>1

\* A task at work is not an idle one.
LEMMA NotIdle == \A x \in Tasks : x # Idle
BY DEF Tasks, Idle, Sent

\* A loop that begins takes the claim: the other loop was idle.
LEMMA BeginKeeps ==
    ASSUME RelayInv, NEW r \in Roles, NEW loop \in Loops,
           NEW stage, NEW seen, [stage |-> stage, seen |-> seen] \in Tasks,
           Begin(r, loop, stage, seen),
           loop = "relay" => inbox[r] > 0, UNCHANGED inbox
    PROVE  /\ task' \in [Roles -> [Loops -> Tasks \cup {Idle}]]
           /\ claimed' \subseteq Roles
           /\ OneLoopAtATime' /\ TaskHasEnvelope'
<1> DEFINE x == [stage |-> stage, seen |-> seen]
<1>1. x \in Tasks
  OBVIOUS
<1>2. x # Idle
  BY <1>1, NotIdle
<1>3. /\ task' \in [Roles -> [Loops -> Tasks \cup {Idle}]]
      /\ \A s \in Roles, k \in Loops :
            task'[s][k] = IF s = r /\ k = loop THEN x ELSE task[s][k]
  <2>1. task' = [task EXCEPT ![r][loop] = x]
    BY DEF Begin
  <2>2. QED
    BY <1>1, <2>1, TaskSet DEF RelayInv
<1>4. claimed' = claimed \cup {r} /\ r \notin claimed /\ claimed \subseteq Roles
  BY DEF Begin, RelayInv, TypeOK
<1>5. \A k \in Loops : task[r][k] = Idle
  BY <1>4 DEF RelayInv, OneLoopAtATime
<1>6. OneLoopAtATime'
  BY <1>2, <1>3, <1>4, <1>5 DEF RelayInv, OneLoopAtATime, Loops
<1>7. TaskHasEnvelope'
  BY <1>2, <1>3 DEF RelayInv, TaskHasEnvelope, Loops
<1>8. QED
  BY <1>3, <1>4, <1>6, <1>7

\* A loop that goes on keeps what it holds.
LEMMA GoOnKeeps ==
    ASSUME RelayInv, NEW r \in Roles, NEW loop \in Loops, NEW x \in Tasks,
           task[r][loop] # Idle, task' = [task EXCEPT ![r][loop] = x],
           UNCHANGED <<inbox, claimed>>
    PROVE  /\ task' \in [Roles -> [Loops -> Tasks \cup {Idle}]]
           /\ OneLoopAtATime' /\ TaskHasEnvelope'
<1>1. /\ task' \in [Roles -> [Loops -> Tasks \cup {Idle}]]
      /\ \A s \in Roles, k \in Loops :
            task'[s][k] = IF s = r /\ k = loop THEN x ELSE task[s][k]
  BY TaskSet DEF RelayInv
<1>2. \A s \in Roles, k \in Loops : task'[s][k] = Idle <=> task[s][k] = Idle
  BY <1>1, NotIdle
<1>3. OneLoopAtATime'
  BY <1>2 DEF RelayInv, OneLoopAtATime, Loops
<1>4. TaskHasEnvelope'
  BY <1>2 DEF RelayInv, TaskHasEnvelope, Loops
<1>5. QED
  BY <1>1, <1>3, <1>4

-----------------------------------------------------------------------------
(* The roles' steps. *)

\* The invariant from the parts a role's step may change.
LEMMA RoleStepKeeps ==
    ASSUME RelayInv,
           rec' \in Records, inbox' \in [Roles -> 0..MaxCopies],
           \A r \in Roles : inbox'[r] <= inbox[r],
           reports' \in [Results -> Nat],
           \A e \in Results : reports'[e] >= reports[e],
           task' \in [Roles -> [Loops -> Tasks \cup {Idle}]], claimed' \subseteq Roles,
           scanned' \in [Roles -> Records \cup {Unseen}], orch' = orch,
           worked' \subseteq 1..MaxTurns, crossed' \in BOOLEAN, faults' \in 0..MaxFaults,
           OneLoopAtATime', TaskHasEnvelope'
    PROVE  RelayInv'
<1>1. TypeOK'
  BY DEF RelayInv, TypeOK, Tasks
<1>2. OrchHasEnvelope'
  <2>1. orch # Idle => orch.report \in Results
    BY OrchCases DEF RelayInv, Orchs
  <2>2. \A e \in Results : reports[e] \in Nat /\ reports'[e] \in Nat
    BY RelayAssumption DEF RelayInv, TypeOK
  <2>3. QED
    BY <2>1, <2>2 DEF RelayInv, OrchHasEnvelope
<1>3. SendingHasRoom'
  <2>1. \A r \in Roles : inbox[r] \in Nat /\ inbox'[r] \in Nat
    BY RelayAssumption DEF RelayInv, TypeOK
  <2>2. QED
    BY <2>1, RelayAssumption DEF RelayInv, SendingHasRoom
<1>4. QED
  BY <1>1, <1>2, <1>3 DEF RelayInv

\* A fault is counted up to its bound.
LEMMA FaultType == ASSUME TypeOK, NEW kind, Fault(kind) PROVE faults' \in 0..MaxFaults
BY RelayAssumption DEF TypeOK, Fault

\* Taking an envelope keeps the invariant.
LEMMA ConsumeKeeps ==
    ASSUME RelayInv, NEW r \in Roles, Consume(r)
    PROVE  RelayInv'
<1> USE DEF Consume
<1>1. CASE TakeDelegate(r)
  <2>1. /\ [stage |-> "running", seen |-> rec] \in Tasks
        /\ inbox[r] > 0 /\ Begin(r, "relay", "running", rec) /\ UNCHANGED inbox
    BY <1>1 DEF TakeDelegate, RelayInv, TypeOK, Tasks
  <2>2. /\ task' \in [Roles -> [Loops -> Tasks \cup {Idle}]] /\ claimed' \subseteq Roles
        /\ OneLoopAtATime' /\ TaskHasEnvelope'
    BY <2>1, BeginKeeps DEF Loops
  <2>3. UNCHANGED <<rec, inbox, reports, scanned, orch, worked, crossed, faults>>
    BY <1>1 DEF TakeDelegate
  <2>4. /\ \A s \in Roles : inbox[s] <= inbox[s]
        /\ \A e \in Results : reports[e] >= reports[e]
    BY RelayAssumption DEF RelayInv, TypeOK
  <2>5. QED
    BY <2>2, <2>3, <2>4, RoleStepKeeps DEF RelayInv, TypeOK
<1>2. CASE DropDelegate(r)
  <2>1. /\ inbox' = [inbox EXCEPT ![r] = @ - 1] /\ inbox[r] > 0 /\ task[r]["relay"] = Idle
        /\ UNCHANGED <<rec, reports, task, claimed, scanned, orch, worked, crossed, faults>>
    BY <1>2 DEF DropDelegate
  <2>2. /\ inbox' \in [Roles -> 0..MaxCopies]
        /\ \A s \in Roles : inbox'[s] <= inbox[s]
        /\ \A s \in Roles \ {r} : inbox'[s] = inbox[s]
        /\ \A e \in Results : reports[e] >= reports[e]
    BY <2>1, RelayAssumption DEF RelayInv, TypeOK
  <2>3. OneLoopAtATime' /\ TaskHasEnvelope'
    BY <2>1, <2>2 DEF RelayInv, OneLoopAtATime, TaskHasEnvelope
  <2>4. QED
    BY <2>1, <2>2, <2>3, RoleStepKeeps DEF RelayInv, TypeOK, Tasks
<1>3. QED
  BY <1>1, <1>2

\* A pass of the resume loop over a record, whenever that was read, keeps the invariant.
LEMMA ResumePendingKeeps ==
    ASSUME RelayInv, NEW r \in Roles, NEW seen \in Records, ResumePending(r, seen),
           UNCHANGED <<inbox, orch, worked, faults>>,
           scanned' \in [Roles -> Records \cup {Unseen}]
    PROVE  RelayInv'
<1>1. PICK x \in Tasks : Begin(r, "resume", x.stage, x.seen)
                         /\ x = [stage |-> x.stage, seen |-> x.seen]
  <2>1. CASE Resend(r, seen)
    <3>1. Sent \in Tasks /\ Begin(r, "resume", Sent.stage, Sent.seen)
          /\ Sent = [stage |-> Sent.stage, seen |-> Sent.seen]
      BY <2>1 DEF Resend, Tasks, Sent
    <3>2. QED
      BY <3>1
  <2>2. CASE Rerun(r, seen)
    <3> DEFINE x == [stage |-> "running", seen |-> seen]
    <3>1. x \in Tasks /\ Begin(r, "resume", x.stage, x.seen)
          /\ x = [stage |-> x.stage, seen |-> x.seen]
      BY <2>2 DEF Rerun, Tasks
    <3>2. QED
      BY <3>1
  <2>3. QED
    BY <2>1, <2>2 DEF ResumePending
<1>2. /\ task' \in [Roles -> [Loops -> Tasks \cup {Idle}]] /\ claimed' \subseteq Roles
      /\ OneLoopAtATime' /\ TaskHasEnvelope'
  BY <1>1, BeginKeeps DEF Loops
<1>3. /\ rec' \in Records
      /\ reports' \in [Results -> Nat]
      /\ \A e \in Results : reports'[e] >= reports[e]
      /\ crossed' \in BOOLEAN
  <2>1. CASE Resend(r, seen)
    <3>1. seen.result \in Results
      BY <2>1, RealResult DEF Resend
    <3>2. /\ reports' = [reports EXCEPT ![seen.result] = @ + 1] /\ rec' = seen
          /\ crossed' = (crossed \/ (Changed(seen) \/ seen.result.turn # seen.turn))
      BY <2>1 DEF Resend, Crossing
    <3>3. crossed' \in BOOLEAN
      BY <3>2 DEF RelayInv, TypeOK
    <3>4. QED
      BY <3>1, <3>2, <3>3 DEF RelayInv, TypeOK
  <2>2. CASE Rerun(r, seen)
    BY <2>2, RelayAssumption DEF Rerun, RelayInv, TypeOK
  <2>3. QED
    BY <2>1, <2>2 DEF ResumePending
<1>4. \A s \in Roles : inbox[s] <= inbox[s]
  BY RelayAssumption DEF RelayInv, TypeOK
<1>5. QED
  BY <1>1, <1>2, <1>3, <1>4, RoleStepKeeps DEF RelayInv, TypeOK

\* So does each kind of pass.
LEMMA ResumeKeeps ==
    ASSUME RelayInv, NEW r \in Roles, ResumeNow(r) \/ ResumeScan(r) \/ ResumeLater(r)
    PROVE  RelayInv'
<1>1. CASE ResumeNow(r)
  BY <1>1, ResumePendingKeeps DEF ResumeNow, RelayInv, TypeOK
<1>2. scanned' \in [Roles -> Records \cup {Unseen}]
  BY DEF ResumeNow, ResumeScan, ResumeLater, RelayInv, TypeOK
<1>3. CASE UNCHANGED <<rec, inbox, reports, task, claimed, orch, worked, crossed, faults>>
  BY <1>2, <1>3 DEF RelayInv, TypeOK, OneLoopAtATime, TaskHasEnvelope, OrchHasEnvelope,
     SendingHasRoom
<1>4. CASE ResumeLater(r) /\ ResumePending(r, scanned[r])
  <2>1. scanned[r] \in Records
    BY <1>4 DEF ResumeLater, RelayInv, TypeOK
  <2>2. QED
    BY <1>2, <1>4, <2>1, ResumePendingKeeps DEF ResumeLater
<1>5. QED
  BY <1>1, <1>3, <1>4 DEF ResumeScan, ResumeLater

\* The save at the end of a run keeps the invariant.
LEMMA FinishRunKeeps ==
    ASSUME RelayInv, NEW r \in Roles, NEW loop \in Loops, FinishRun(r, loop)
    PROVE  RelayInv'
<1> DEFINE seen == task[r][loop].seen
<1>1. task[r][loop] \in Tasks /\ task[r][loop] # Idle
  BY TaskCases DEF FinishRun, RelayInv
<1>2. seen \in Records
  BY TaskCases DEF FinishRun, RelayInv
<1>3. LET saved == [seen EXCEPT !.result = [role |-> r, turn |-> seen.turn]] IN
        /\ rec' = saved
        /\ Crossing(Changed(seen))
        /\ task' = [task EXCEPT ![r][loop] = [stage |-> "ran", seen |-> saved]]
        /\ worked' = IF seen.role = r THEN worked \cup {seen.turn} ELSE worked
        /\ UNCHANGED <<inbox, reports, claimed, scanned, orch, faults>>
  BY DEF FinishRun
<1> DEFINE saved == [seen EXCEPT !.result = [role |-> r, turn |-> seen.turn]]
<1>4. saved \in Records /\ seen.turn \in 1..MaxTurns
  BY <1>2 DEF Records, Results
<1>5. [stage |-> "ran", seen |-> saved] \in Tasks
  BY <1>4 DEF Tasks
<1>6. /\ task' \in [Roles -> [Loops -> Tasks \cup {Idle}]]
      /\ OneLoopAtATime' /\ TaskHasEnvelope'
  BY <1>1, <1>3, <1>5, GoOnKeeps
<1>7. rec' \in Records /\ worked' \subseteq 1..MaxTurns /\ crossed' \in BOOLEAN
  <2>1. crossed' \in BOOLEAN
    BY <1>3 DEF Crossing, RelayInv, TypeOK
  <2>2. QED
    BY <1>3, <1>4, <2>1 DEF RelayInv, TypeOK
<1>8. /\ \A s \in Roles : inbox[s] <= inbox[s]
      /\ \A e \in Results : reports[e] >= reports[e]
  BY RelayAssumption DEF RelayInv, TypeOK
<1>9. UNCHANGED <<inbox, reports, claimed, scanned, orch, faults>>
  BY <1>3
<1>10. QED
  BY <1>6, <1>7, <1>8, <1>9, RoleStepKeeps DEF RelayInv, TypeOK

\* Sending, or losing, the report keeps the invariant.
LEMMA ReportSentKeeps ==
    ASSUME RelayInv, NEW r \in Roles, NEW loop \in Loops,
           SendReport(r, loop) \/ LoseReport(r, loop)
    PROVE  RelayInv'
<1> DEFINE e == task[r][loop].seen.result
<1>1. task[r][loop] # Idle /\ Sent \in Tasks
  BY TaskCases DEF SendReport, LoseReport, RelayInv, Tasks
<1>2. task' = [task EXCEPT ![r][loop] = Sent]
  BY DEF SendReport, LoseReport
<1>3. UNCHANGED <<rec, inbox, claimed, scanned, orch, worked, crossed>>
  BY DEF SendReport, LoseReport
<1>4. /\ task' \in [Roles -> [Loops -> Tasks \cup {Idle}]]
      /\ OneLoopAtATime' /\ TaskHasEnvelope'
  BY <1>1, <1>2, <1>3, GoOnKeeps
<1>5. faults' \in 0..MaxFaults
  BY FaultType DEF SendReport, LoseReport, RelayInv, TypeOK
<1>6. /\ reports' \in [Results -> Nat]
      /\ \A f \in Results : reports'[f] >= reports[f]
  <2>1. reports \in [Results -> Nat]
    BY DEF RelayInv, TypeOK
  <2>2. reports' = reports \/ reports' = [reports EXCEPT ![e] = @ + 1]
    BY DEF SendReport, LoseReport
  <2>3. CASE e \in Results
    BY <2>1, <2>2, <2>3
  <2>4. CASE e \notin Results
    <3>1. reports' = reports
      BY <2>1, <2>2, <2>4
    <3>2. QED
      BY <2>1, <3>1
  <2>5. QED
    BY <2>3, <2>4
<1>7. \A s \in Roles : inbox[s] <= inbox[s]
  BY RelayAssumption DEF RelayInv, TypeOK
<1>8. QED
  BY <1>3, <1>4, <1>5, <1>6, <1>7, RoleStepKeeps DEF RelayInv, TypeOK

\* Archiving the envelope and releasing the claim keep the invariant.
LEMMA EndTaskKeeps ==
    ASSUME RelayInv, NEW r \in Roles, NEW loop \in Loops, EndTask(r, loop)
    PROVE  RelayInv'
<1>1. task[r][loop] # Idle
  BY TaskCases DEF EndTask, RelayInv
<1>2. /\ task' \in [Roles -> [Loops -> Tasks \cup {Idle}]]
      /\ \A s \in Roles, k \in Loops :
            task'[s][k] = IF s = r /\ k = loop THEN Idle ELSE task[s][k]
  BY TaskSet DEF EndTask, RelayInv
<1>3. \A k \in Loops : task'[r][k] = Idle
  BY <1>1, <1>2 DEF RelayInv, OneLoopAtATime, Loops
<1>4. claimed' = claimed \ {r}
  BY DEF EndTask
<1>5. OneLoopAtATime'
  BY <1>2, <1>3, <1>4 DEF RelayInv, OneLoopAtATime, Loops
<1>6. /\ inbox' \in [Roles -> 0..MaxCopies]
      /\ \A s \in Roles : inbox'[s] <= inbox[s]
      /\ \A s \in Roles \ {r} : inbox'[s] = inbox[s]
  <2>1. loop = "relay" => inbox[r] > 0
    BY <1>1 DEF RelayInv, TaskHasEnvelope
  <2>2. inbox' = IF loop = "relay" THEN [inbox EXCEPT ![r] = @ - 1] ELSE inbox
    BY DEF EndTask
  <2>3. QED
    BY <2>1, <2>2, RelayAssumption DEF RelayInv, TypeOK
<1>7. TaskHasEnvelope'
  BY <1>2, <1>3, <1>6 DEF RelayInv, TaskHasEnvelope, Loops
<1>8. \A e \in Results : reports[e] >= reports[e]
  BY RelayAssumption DEF RelayInv, TypeOK
<1>9. UNCHANGED <<rec, reports, scanned, orch, worked, crossed, faults>>
  BY DEF EndTask
<1>10. QED
  BY <1>2, <1>4, <1>5, <1>6, <1>7, <1>8, <1>9, RoleStepKeeps DEF RelayInv, TypeOK

\* A crash of a role's process keeps the invariant.
LEMMA CrashRoleKeeps ==
    ASSUME RelayInv, NEW r \in Roles, CrashRole(r)
    PROVE  RelayInv'
<1>1. /\ task' = [task EXCEPT ![r] = [loop \in Loops |-> Idle]]
      /\ claimed' = claimed \ {r}
      /\ scanned' = [scanned EXCEPT ![r] = Unseen]
      /\ UNCHANGED <<rec, inbox, reports, orch, worked, crossed>>
  BY DEF CrashRole
<1>2. /\ task' \in [Roles -> [Loops -> Tasks \cup {Idle}]]
      /\ \A s \in Roles, k \in Loops :
            task'[s][k] = IF s = r THEN Idle ELSE task[s][k]
  BY <1>1 DEF RelayInv, TypeOK, Tasks
<1>3. OneLoopAtATime' /\ TaskHasEnvelope'
  BY <1>1, <1>2 DEF RelayInv, OneLoopAtATime, TaskHasEnvelope, Loops
<1>4. faults' \in 0..MaxFaults
  BY FaultType DEF CrashRole, RelayInv
<1>5. /\ \A s \in Roles : inbox[s] <= inbox[s]
      /\ \A e \in Results : reports[e] >= reports[e]
  BY RelayAssumption DEF RelayInv, TypeOK
<1>6. scanned' \in [Roles -> Records \cup {Unseen}]
  BY <1>1 DEF RelayInv, TypeOK
<1>7. QED
  BY <1>1, <1>2, <1>3, <1>4, <1>5, <1>6, RoleStepKeeps DEF RelayInv, TypeOK

-----------------------------------------------------------------------------
(* The orchestrator's steps. *)

\* The invariant from the parts an orchestrator's step may change.
LEMMA OrchStepKeeps ==
    ASSUME RelayInv,
           rec' \in Records, inbox' \in [Roles -> 0..MaxCopies],
           \A r \in Roles : inbox'[r] >= inbox[r],
           reports' \in [Results -> Nat], orch' \in Orchs \cup {Idle},
           crossed' \in BOOLEAN, faults' \in 0..MaxFaults,
           UNCHANGED <<task, claimed, scanned, worked>>,
           OrchHasEnvelope', SendingHasRoom'
    PROVE  RelayInv'
<1>1. TypeOK'
  BY DEF RelayInv, TypeOK, Orchs
<1>2. OneLoopAtATime'
  BY DEF RelayInv, OneLoopAtATime
<1>3. TaskHasEnvelope'
  <2>1. \A r \in Roles : inbox[r] \in Nat /\ inbox'[r] \in Nat
    BY RelayAssumption DEF RelayInv, TypeOK
  <2>2. QED
    BY <2>1 DEF RelayInv, TaskHasEnvelope
<1>4. QED
  BY <1>1, <1>2, <1>3 DEF RelayInv

\* Taking a report keeps the invariant.
LEMMA ReportKeeps ==
    ASSUME RelayInv, NEW e \in Results,
           IgnoreReport(e) \/ AcceptReport(e)
    PROVE  RelayInv'
<1>1. \A r \in Roles : inbox[r] >= inbox[r]
  BY RelayAssumption DEF RelayInv, TypeOK
<1>2. CASE IgnoreReport(e)
  <2>1. /\ orch = Idle /\ reports[e] > 0 /\ reports' = [reports EXCEPT ![e] = @ - 1]
        /\ UNCHANGED <<rec, inbox, task, claimed, scanned, orch, worked, crossed, faults>>
    BY <1>2 DEF IgnoreReport, Archived
  <2>2. reports' \in [Results -> Nat]
    BY <2>1, RelayAssumption DEF RelayInv, TypeOK
  <2>3. orch' = Idle /\ OrchHasEnvelope' /\ SendingHasRoom'
    BY <2>1 DEF OrchHasEnvelope, SendingHasRoom, Idle
  <2>4. QED
    BY <1>1, <2>1, <2>2, <2>3, OrchStepKeeps DEF RelayInv, TypeOK
<1>3. CASE AcceptReport(e)
  <2>1. /\ orch' = [stage |-> "applying", seen |-> rec, report |-> e] /\ reports[e] > 0
        /\ UNCHANGED <<rec, inbox, reports, task, claimed, scanned, worked, crossed, faults>>
    BY <1>3 DEF AcceptReport
  <2>2. orch' \in Orchs
    BY <2>1 DEF RelayInv, TypeOK, Orchs
  <2>3. OrchHasEnvelope' /\ SendingHasRoom'
    BY <2>1 DEF OrchHasEnvelope, SendingHasRoom
  <2>4. QED
    BY <1>1, <2>1, <2>2, <2>3, OrchStepKeeps DEF RelayInv, TypeOK
<1>4. QED
  BY <1>2, <1>3

\* What the orchestrator saves of a report keeps the invariant.
LEMMA SaveKeeps ==
    ASSUME RelayInv, NEW next \in Records, NEW stage \in {"sending", "done"},
           NEW cause \in BOOLEAN, Save(next, stage, cause),
           stage = "sending" => next.role \in Roles /\ inbox[next.role] < MaxCopies
    PROVE  RelayInv'
<1>1. orch \in Orchs /\ orch # Idle
  BY OrchCases DEF Save, RelayInv
<1>2. /\ orch' = [orch EXCEPT !.stage = stage,
                               !.seen = IF stage = "done" THEN Unseen ELSE next]
      /\ rec' = next /\ crossed' = (crossed \/ (Changed(orch.seen) \/ cause))
      /\ UNCHANGED <<inbox, reports, task, claimed, scanned, worked, faults>>
  BY DEF Save, Crossing
<1>3. /\ orch' \in Orchs /\ orch'.report = orch.report
      /\ orch'.stage = stage /\ stage = "sending" => orch'.seen = next
  BY <1>1, <1>2 DEF Orchs
<1>4. OrchHasEnvelope' /\ SendingHasRoom'
  BY <1>1, <1>2, <1>3 DEF RelayInv, OrchHasEnvelope, SendingHasRoom
<1>5. \A r \in Roles : inbox[r] >= inbox[r]
  BY RelayAssumption DEF RelayInv, TypeOK
<1>6. crossed' \in BOOLEAN
  BY <1>2 DEF RelayInv, TypeOK
<1>7. QED
  BY <1>2, <1>3, <1>4, <1>5, <1>6, OrchStepKeeps DEF RelayInv, TypeOK

\* Every decision on a report keeps the invariant.
LEMMA DecideKeeps ==
    ASSUME RelayInv, (\E r \in Roles : RouteTo(r)) \/ CompleteRequest \/ BlockRequest
    PROVE  RelayInv'
<1>1. orch.seen \in Records /\ orch.report \in Results
  BY OrchCases DEF RouteTo, CompleteRequest, BlockRequest, Save, RelayInv
<1>2. Answered \in Records /\ Answered.turn = orch.seen.turn /\ Answered.turn \in 1..MaxTurns
  BY <1>1 DEF Answered, Records
<1>3. ASSUME NEW r \in Roles, RouteTo(r) PROVE RelayInv'
  <2> DEFINE next == [Answered EXCEPT !.status = "delegated", !.role = r, !.turn = @ + 1]
  <2>1. Answered.turn + 1 \in 1..MaxTurns
    <3>1. orch.seen.turn < MaxTurns /\ MaxTurns \in Nat
      BY <1>3, RelayAssumption DEF RouteTo
    <3>2. QED
      BY <1>2, <3>1
  <2>2. next \in Records /\ next.role = r
    BY <1>2, <2>1 DEF Records, Statuses
  <2>3. Save(next, "sending", Outstanding(r)) /\ inbox[r] < MaxCopies
    BY <1>3 DEF RouteTo
  <2>4. Outstanding(r) \in BOOLEAN
    BY DEF Outstanding
  <2>5. QED
    BY <2>2, <2>3, <2>4, SaveKeeps
<1>4. CASE CompleteRequest
  <2>1. [Answered EXCEPT !.status = "completed", !.role = "orchestrator"] \in Records
    BY <1>2 DEF Records, Statuses
  <2>2. QED
    BY <1>4, <2>1, SaveKeeps DEF CompleteRequest
<1>5. CASE BlockRequest
  <2>1. [Answered EXCEPT !.status = "blocked"] \in Records
    BY <1>2 DEF Records, Statuses
  <2>2. QED
    BY <1>5, <2>1, SaveKeeps DEF BlockRequest
<1>6. QED
  BY <1>3, <1>4, <1>5

\* Sending, or losing, the next delegation keeps the invariant.
LEMMA SendKeeps ==
    ASSUME RelayInv, SendDelegate \/ LoseDelegate
    PROVE  RelayInv'
<1>1. orch \in Orchs /\ orch # Idle /\ orch.stage = "sending"
  BY OrchCases DEF SendDelegate, LoseDelegate, RelayInv
<1>2. orch.seen \in Records /\ orch.seen.role \in Roles /\ inbox[orch.seen.role] < MaxCopies
  BY <1>1, OrchCases DEF RelayInv, SendingHasRoom
<1>3. /\ orch' = [orch EXCEPT !.stage = "done", !.seen = Unseen] /\ rec' = orch.seen
      /\ crossed' = (crossed \/ Changed(orch.seen))
      /\ UNCHANGED <<reports, task, claimed, scanned, worked>>
  BY DEF SendDelegate, LoseDelegate, Crossing
<1>4. orch' \in Orchs /\ orch'.report = orch.report /\ orch'.stage = "done"
  BY <1>1, <1>3 DEF Orchs
<1>5. OrchHasEnvelope' /\ SendingHasRoom'
  BY <1>1, <1>3, <1>4 DEF RelayInv, OrchHasEnvelope, SendingHasRoom
<1>6. /\ inbox' \in [Roles -> 0..MaxCopies]
      /\ \A r \in Roles : inbox'[r] >= inbox[r]
  <2>1. inbox \in [Roles -> 0..MaxCopies] /\ MaxCopies \in Nat
    BY RelayAssumption DEF RelayInv, TypeOK
  <2>2. inbox' = inbox \/ inbox' = [inbox EXCEPT ![orch.seen.role] = @ + 1]
    BY DEF SendDelegate, LoseDelegate
  <2>3. QED
    BY <1>2, <2>1, <2>2
<1>7. faults' \in 0..MaxFaults
  BY FaultType DEF SendDelegate, LoseDelegate, RelayInv, TypeOK
<1>8. crossed' \in BOOLEAN
  BY <1>3 DEF RelayInv, TypeOK
<1>9. QED
  BY <1>2, <1>3, <1>4, <1>5, <1>6, <1>7, <1>8, OrchStepKeeps DEF RelayInv, TypeOK

\* Archiving a report, and a crash of the orchestrator, keep the invariant.
LEMMA OrchEndsKeeps ==
    ASSUME RelayInv, ArchiveReport \/ CrashOrchestrator
    PROVE  RelayInv'
<1>1. orch \in Orchs /\ orch # Idle
  BY OrchCases DEF ArchiveReport, CrashOrchestrator, RelayInv
<1>2. orch.report \in Results /\ reports[orch.report] > 0
  BY <1>1, OrchCases DEF RelayInv, OrchHasEnvelope
<1>3. orch' = Idle /\ UNCHANGED <<rec, inbox, task, claimed, scanned, worked>>
  BY DEF ArchiveReport, CrashOrchestrator
<1>4. reports' \in [Results -> Nat]
  <2>1. reports \in [Results -> Nat] /\ MaxCopies \in Nat
    BY RelayAssumption DEF RelayInv, TypeOK
  <2>2. reports' = reports \/ reports' = [reports EXCEPT ![orch.report] = @ - 1]
    BY DEF ArchiveReport, CrashOrchestrator, Archived
  <2>3. QED
    BY <1>2, <2>1, <2>2
<1>5. OrchHasEnvelope' /\ SendingHasRoom'
  BY <1>3 DEF OrchHasEnvelope, SendingHasRoom, Idle
<1>6. faults' \in 0..MaxFaults
  BY FaultType DEF ArchiveReport, CrashOrchestrator, RelayInv, TypeOK
<1>7. \A r \in Roles : inbox[r] >= inbox[r]
  BY RelayAssumption DEF RelayInv, TypeOK
<1>8. crossed' \in BOOLEAN
  BY DEF ArchiveReport, CrashOrchestrator, Crossing, RelayInv, TypeOK
<1>9. QED
  BY <1>3, <1>4, <1>5, <1>6, <1>7, <1>8, OrchStepKeeps DEF RelayInv, TypeOK

\* A cancellation keeps the invariant.
LEMMA CancelKeeps == ASSUME RelayInv, CancelRequest PROVE RelayInv'
<1>1. /\ rec' = [rec EXCEPT !.status = "cancelled"]
      /\ UNCHANGED <<inbox, reports, task, claimed, scanned, orch, worked, crossed>>
  BY DEF CancelRequest
<1>2. rec' \in Records
  BY <1>1 DEF RelayInv, TypeOK, Records, Statuses
<1>3. faults' \in 0..MaxFaults
  BY FaultType DEF CancelRequest, RelayInv
<1>4. QED
  BY <1>1, <1>2, <1>3 DEF RelayInv, TypeOK, OneLoopAtATime, TaskHasEnvelope,
     OrchHasEnvelope, SendingHasRoom

-----------------------------------------------------------------------------
\* Every step keeps the invariant.
LEMMA NextRelayInv == RelayInv /\ [Next]_vars => RelayInv'
<1> SUFFICES ASSUME RelayInv, [Next]_vars PROVE RelayInv'
  OBVIOUS
<1>1. ASSUME NEW r \in Roles, Consume(r) PROVE RelayInv'
  BY <1>1, ConsumeKeeps
<1>2. ASSUME NEW r \in Roles, ResumeNow(r) \/ ResumeScan(r) \/ ResumeLater(r) PROVE RelayInv'
  BY <1>2, ResumeKeeps
<1>3. ASSUME NEW r \in Roles, CrashRole(r) PROVE RelayInv'
  BY <1>3, CrashRoleKeeps
<1>4. ASSUME NEW r \in Roles, NEW loop \in Loops, LoopStep(r, loop) \/ LoseReport(r, loop)
      PROVE  RelayInv'
  BY <1>4, FinishRunKeeps, ReportSentKeeps, EndTaskKeeps DEF LoopStep
<1>5. CASE HandleReports
  BY <1>5, ReportKeeps, DecideKeeps, SendKeeps, OrchEndsKeeps DEF HandleReports
<1>6. CASE LoseDelegate \/ CrashOrchestrator
  BY <1>6, SendKeeps, OrchEndsKeeps
<1>7. CASE CancelRequest
  BY <1>7, CancelKeeps
<1>8. CASE UNCHANGED vars
  BY <1>8 DEF vars, RelayInv, TypeOK, OneLoopAtATime, TaskHasEnvelope, OrchHasEnvelope,
     SendingHasRoom
<1>9. QED
  BY <1>1, <1>2, <1>3, <1>4, <1>5, <1>6, <1>7, <1>8 DEF Next

\* The strengthened invariant holds of every set of roles, whatever is lost,
\* repeated or crashes and however many reports and delegates are on their way.
THEOREM RelayInvariant == Spec => []RelayInv
<1>1. QED
  BY InitRelayInv, NextRelayInv, PTL DEF Spec

\* The files and the processes' memories keep their types: no envelope is archived
\* twice (relay.py) and no record is saved with a role or turn that does not exist.
THEOREM RelayTypes == Spec => []TypeOK
<1>1. RelayInv => TypeOK
  BY DEF RelayInv
<1>2. QED
  BY <1>1, RelayInvariant, PTL

\* The claim (_claim_request, _release_request) keeps the relay loop and the resume
\* loop of a role from running the request at the same time, in every process
\* and after every crash.
THEOREM ClaimExcludes == Spec => []OneLoopAtATime
<1>1. RelayInv => OneLoopAtATime
  BY DEF RelayInv
<1>2. QED
  BY <1>1, RelayInvariant, PTL

\* Both together: the two loops neither work at once nor archive twice.
THEOREM LoopsStayApart == Spec => []LoopsKeepApart
<1>1. RelayInv => LoopsKeepApart
  BY DEF RelayInv, LoopsKeepApart
<1>2. QED
  BY <1>1, RelayInvariant, PTL

-----------------------------------------------------------------------------
(* Answers and turns                                                        *)

\* A result answers the turn the record is open for, if its role holds it.
Answers(e) ==
    rec.status \in {"delegated", "blocked"} /\ e.role = rec.role =>
      e.turn = rec.turn /\ rec.turn \in worked

ReportsAnswer == \A e \in Results : reports[e] > InHand(e) => Answers(e)

RunsAnswer ==
    \A r \in Roles, loop \in Loops : task[r][loop].stage = "ran" =>
      task[r][loop].seen.result.role = r /\ Answers(task[r][loop].seen.result)

\* The result found in a record is sent again if it is of the record's turn.
ResultAnswers == rec.result.turn = rec.turn => Answers(rec.result)

DecisionAnswers ==
    orch # Idle =>
      /\ orch.report.turn \in worked
      /\ orch.stage = "applying" =>
           orch.report.turn = orch.seen.turn /\ orch.seen.status \in {"delegated", "blocked"}

TurnInv == ReportsAnswer /\ RunsAnswer /\ ResultAnswers /\ DecisionAnswers

\* The inductive invariant.
IInv == RelayInv /\ (~crossed => TurnInv)

\* It holds of the first delegation.
LEMMA InitTurnInv == Init => TurnInv
<1> SUFFICES ASSUME Init PROVE TurnInv
  OBVIOUS
<1>1. /\ rec.turn = 1 /\ rec.result.turn = 0
      /\ \A e \in Results : reports[e] = 0
      /\ \A r \in Roles, loop \in Loops : task[r][loop].stage = "idle"
      /\ orch = Idle
  BY DEF Init, Idle, NoResult
<1>2. ReportsAnswer
  BY <1>1 DEF ReportsAnswer, InHand
<1>3. RunsAnswer /\ ResultAnswers /\ DecisionAnswers
  BY <1>1 DEF RunsAnswer, ResultAnswers, DecisionAnswers
<1>4. QED
  BY <1>2, <1>3 DEF TurnInv

\* Once crossed, always crossed.
LEMMA CrossedStays == ASSUME TypeOK, [Next]_vars, ~crossed' PROVE ~crossed
BY DEF Next, Consume, TakeDelegate, DropDelegate, ResumeNow, ResumeScan, ResumeLater,
   ResumePending, Resend, Rerun, CrashRole, LoopStep, FinishRun, SendReport, EndTask,
   LoseReport, HandleReports, IgnoreReport, AcceptReport, RouteTo, CompleteRequest,
   BlockRequest, SendDelegate, ArchiveReport, Save, Crossing, LoseDelegate,
   CrashOrchestrator, CancelRequest, vars

\* What answers the open turn still does while the record keeps its status, holder and
\* turn and no work is undone.
LEMMA SameTurn ==
    ASSUME rec'.status = rec.status, rec'.role = rec.role, rec'.turn = rec.turn,
           worked \subseteq worked', NEW e, Answers(e)
    PROVE  Answers(e)'
BY DEF Answers

\* A step that leaves record, reports and decision alone and ends no run keeps the turn.
LEMMA QuietTurn ==
    ASSUME TurnInv, UNCHANGED <<rec, reports, orch, worked>>,
           \A r \in Roles, loop \in Loops :
             task'[r][loop].stage = "ran" => task'[r][loop] = task[r][loop]
    PROVE  TurnInv'
<1>1. \A e : Answers(e)' = Answers(e)
  BY DEF Answers
<1>2. ReportsAnswer'
  BY <1>1 DEF TurnInv, ReportsAnswer, InHand
<1>3. RunsAnswer'
  BY <1>1 DEF TurnInv, RunsAnswer
<1>4. ResultAnswers' /\ DecisionAnswers'
  BY <1>1 DEF TurnInv, ResultAnswers, DecisionAnswers
<1>5. QED
  BY <1>2, <1>3, <1>4 DEF TurnInv

\* A loop that begins, or ends, adds no run that has ended.
LEMMA BeginEndsNoRun ==
    ASSUME RelayInv, NEW r \in Roles, NEW loop \in Loops, NEW x \in Tasks \cup {Idle},
           x.stage # "ran", task' = [task EXCEPT ![r][loop] = x]
    PROVE  \A s \in Roles, k \in Loops :
             task'[s][k].stage = "ran" => task'[s][k] = task[s][k]
BY TaskSet DEF RelayInv

\* Another copy of the result found in the record is an answer as good as the first.
LEMMA ResendTurn ==
    ASSUME RelayInv, TurnInv, NEW r \in Roles, NEW seen \in Records,
           Resend(r, seen), UNCHANGED <<orch, worked>>, ~crossed'
    PROVE  TurnInv'
<1> DEFINE e == seen.result
<1>1. /\ seen = rec /\ rec' = rec /\ e.turn = rec.turn
      /\ reports' = [reports EXCEPT ![e] = @ + 1]
      /\ task' = [task EXCEPT ![r]["resume"] = Sent]
  BY DEF Resend, Crossing, Changed, Begin, Sent
<1>2. e \in Results /\ "resume" \in Loops
  BY RealResult DEF Resend, Loops
<1>3. Answers(e)
  BY <1>1 DEF TurnInv, ResultAnswers
<1>4. \A f : Answers(f)' = Answers(f)
  BY <1>1 DEF Answers
<1>5. ReportsAnswer'
  <2>1. \A f \in Results : f # e => reports'[f] = reports[f]
    BY <1>1, <1>2 DEF RelayInv, TypeOK
  <2>2. \A f \in Results : InHand(f)' = InHand(f)
    BY DEF InHand
  <2>3. QED
    BY <1>3, <1>4, <2>1, <2>2 DEF TurnInv, ReportsAnswer
<1>6. RunsAnswer'
  <2>1. Sent \in Tasks /\ Sent.stage # "ran"
    BY DEF Tasks, Sent
  <2>2. \A s \in Roles, k \in Loops :
          task'[s][k].stage = "ran" => task'[s][k] = task[s][k]
    BY <1>1, <1>2, <2>1, BeginEndsNoRun
  <2>3. QED
    BY <1>4, <2>2 DEF TurnInv, RunsAnswer
<1>7. ResultAnswers' /\ DecisionAnswers'
  BY <1>1, <1>4 DEF TurnInv, ResultAnswers, DecisionAnswers
<1>8. QED
  BY <1>5, <1>6, <1>7 DEF TurnInv

\* The passes of the resume loop.
LEMMA PassTurn ==
    ASSUME RelayInv, TurnInv, ~crossed', NEW r \in Roles,
           ResumeNow(r) \/ ResumeScan(r) \/ ResumeLater(r)
    PROVE  TurnInv'
<1>1. ASSUME NEW seen \in Records, ResumePending(r, seen), UNCHANGED <<orch, worked>>
      PROVE  TurnInv'
  <2>1. CASE Resend(r, seen)
    BY <1>1, <2>1, ResendTurn
  <2>2. CASE Rerun(r, seen)
    <3> DEFINE x == [stage |-> "running", seen |-> seen]
    <3>1. /\ task' = [task EXCEPT ![r]["resume"] = x] /\ UNCHANGED <<rec, reports>>
          /\ x \in Tasks /\ x.stage # "ran" /\ "resume" \in Loops
      BY <2>2 DEF Rerun, Begin, Tasks, Loops
    <3>2. \A s \in Roles, k \in Loops :
            task'[s][k].stage = "ran" => task'[s][k] = task[s][k]
      BY <3>1, BeginEndsNoRun
    <3>3. QED
      BY <1>1, <3>1, <3>2, QuietTurn
  <2>3. QED
    BY <1>1, <2>1, <2>2 DEF ResumePending
<1>2. CASE ResumeNow(r)
  BY <1>1, <1>2 DEF ResumeNow, RelayInv, TypeOK
<1>3. CASE ResumeLater(r) /\ ResumePending(r, scanned[r])
  <2>1. scanned[r] \in Records
    BY <1>3 DEF ResumeLater, RelayInv, TypeOK
  <2>2. QED
    BY <1>1, <1>3, <2>1 DEF ResumeLater
<1>4. CASE UNCHANGED <<rec, reports, task, orch, worked>>
  BY <1>4, QuietTurn
<1>5. QED
  BY <1>2, <1>3, <1>4 DEF ResumeScan, ResumeLater

\* The inbox of a role.
LEMMA ConsumeTurn ==
    ASSUME RelayInv, TurnInv, NEW r \in Roles, Consume(r)
    PROVE  TurnInv'
<1>1. CASE TakeDelegate(r)
  <2> DEFINE x == [stage |-> "running", seen |-> rec]
  <2>1. /\ task' = [task EXCEPT ![r]["relay"] = x] /\ UNCHANGED <<rec, reports, orch, worked>>
        /\ x \in Tasks /\ x.stage # "ran" /\ "relay" \in Loops
    BY <1>1 DEF TakeDelegate, Begin, Tasks, Loops, RelayInv, TypeOK
  <2>2. \A s \in Roles, k \in Loops :
          task'[s][k].stage = "ran" => task'[s][k] = task[s][k]
    BY <2>1, BeginEndsNoRun
  <2>3. QED
    BY <2>1, <2>2, QuietTurn
<1>2. CASE DropDelegate(r)
  BY <1>2, QuietTurn DEF DropDelegate
<1>3. QED
  BY <1>1, <1>2 DEF Consume

\* A run that ends on the record as it is has worked on the turn of the record.
LEMMA RunTurn ==
    ASSUME RelayInv, TurnInv, ~crossed', NEW r \in Roles, NEW loop \in Loops,
           FinishRun(r, loop)
    PROVE  TurnInv'
<1>1. PICK saved \in Records :
        /\ saved.status = rec.status /\ saved.role = rec.role /\ saved.turn = rec.turn
        /\ saved.result.role = r /\ saved.result.turn = rec.turn
        /\ rec' = saved
        /\ task' = [task EXCEPT ![r][loop] = [stage |-> "ran", seen |-> saved]]
        /\ worked' = IF rec.role = r THEN worked \cup {rec.turn} ELSE worked
        /\ UNCHANGED <<reports, orch>>
  <2> DEFINE seen == task[r][loop].seen
  <2>1. LET saved == [seen EXCEPT !.result = [role |-> r, turn |-> seen.turn]] IN
          /\ rec' = saved
          /\ crossed' = (crossed \/ Changed(seen))
          /\ task' = [task EXCEPT ![r][loop] = [stage |-> "ran", seen |-> saved]]
          /\ worked' = IF seen.role = r THEN worked \cup {seen.turn} ELSE worked
          /\ UNCHANGED <<reports, orch>>
    BY DEF FinishRun, Crossing
  <2> DEFINE saved == [seen EXCEPT !.result = [role |-> r, turn |-> seen.turn]]
  <2>2. seen = rec /\ rec \in Records
    BY <2>1 DEF Changed, RelayInv, TypeOK
  <2>3. /\ saved \in Records
        /\ saved.status = rec.status /\ saved.role = rec.role /\ saved.turn = rec.turn
        /\ saved.result.role = r /\ saved.result.turn = rec.turn
    BY <2>2 DEF Records, Results
  <2>4. QED
    BY <2>1, <2>2, <2>3
<1>2. /\ rec'.status = rec.status /\ rec'.role = rec.role /\ rec'.turn = rec.turn
      /\ rec'.result = saved.result /\ worked \subseteq worked'
      /\ rec.role = r => rec.turn \in worked'
  BY <1>1
<1>3. \A e : Answers(e) => Answers(e)'
  BY <1>2, SameTurn
<1>4. Answers(saved.result)'
  BY <1>1, <1>2 DEF Answers
<1>5. ReportsAnswer'
  BY <1>1, <1>3 DEF TurnInv, ReportsAnswer, InHand
<1>6. RunsAnswer'
  <2> DEFINE x == [stage |-> "ran", seen |-> saved]
  <2>1. x \in Tasks /\ x.stage = "ran" /\ x.seen = saved /\ Sent.stage # "ran"
    BY <1>1 DEF Tasks, Sent
  <2>2. task' = [task EXCEPT ![r][loop] = x]
    BY <1>1
  <2>3. \A s \in Roles, k \in Loops :
          task'[s][k] = IF s = r /\ k = loop THEN x ELSE task[s][k]
    BY <2>1, <2>2, TaskSet DEF RelayInv
  <2>4. ASSUME NEW s \in Roles, NEW k \in Loops, task'[s][k].stage = "ran"
        PROVE  (task[s][k].seen.result.role = s /\ Answers(task[s][k].seen.result))'
    <3>1. CASE s = r /\ k = loop
      <4>1. task'[s][k].seen = saved
        BY <2>1, <2>3, <3>1
      <4>2. QED
        BY <1>1, <1>4, <3>1, <4>1 DEF Answers
    <3>2. CASE ~(s = r /\ k = loop)
      <4>1. task'[s][k] = task[s][k]
        BY <2>3, <3>2
      <4>2. task[s][k].seen.result.role = s /\ Answers(task[s][k].seen.result)
        BY <2>4, <4>1 DEF TurnInv, RunsAnswer
      <4>3. QED
        BY <1>2, <4>1, <4>2 DEF Answers
    <3>3. QED
      BY <3>1, <3>2
  <2>5. QED
    BY <2>4 DEF RunsAnswer
<1>7. ResultAnswers'
  BY <1>2, <1>4 DEF ResultAnswers, Answers
<1>8. DecisionAnswers'
  BY <1>1, <1>2 DEF TurnInv, DecisionAnswers
<1>9. QED
  BY <1>5, <1>6, <1>7, <1>8 DEF TurnInv

\* A report that is sent answers what its run answered.
LEMMA SentTurn ==
    ASSUME RelayInv, TurnInv, NEW r \in Roles, NEW loop \in Loops,
           SendReport(r, loop) \/ LoseReport(r, loop)
    PROVE  TurnInv'
<1> DEFINE e == task[r][loop].seen.result
<1>1. /\ task[r][loop].stage = "ran" /\ task' = [task EXCEPT ![r][loop] = Sent]
      /\ UNCHANGED <<rec, orch, worked>>
      /\ reports' = reports \/ reports' = [reports EXCEPT ![e] = @ + 1]
  BY DEF SendReport, LoseReport
<1>2. e \in Results /\ Answers(e)
  <2>1. e.role = r /\ Answers(e)
    BY <1>1 DEF TurnInv, RunsAnswer
  <2>2. task[r][loop].seen \in Records
    BY <1>1, TaskCases DEF RelayInv
  <2>3. QED
    BY <2>1, <2>2, RealResult
<1>3. Sent \in Tasks /\ Sent.stage # "ran"
  BY DEF Tasks, Sent
<1>4. \A s \in Roles, k \in Loops :
        task'[s][k].stage = "ran" => task'[s][k] = task[s][k]
  BY <1>1, <1>3, BeginEndsNoRun
<1>5. \A f : Answers(f)' = Answers(f)
  BY <1>1 DEF Answers
<1>6. ReportsAnswer'
  <2>1. \A f \in Results : f # e => reports'[f] = reports[f]
    BY <1>1, <1>2 DEF RelayInv, TypeOK
  <2>2. \A f \in Results : InHand(f)' = InHand(f)
    BY <1>1 DEF InHand
  <2>3. QED
    BY <1>2, <1>5, <2>1, <2>2 DEF TurnInv, ReportsAnswer
<1>7. RunsAnswer'
  BY <1>4, <1>5 DEF TurnInv, RunsAnswer
<1>8. ResultAnswers' /\ DecisionAnswers'
  BY <1>1, <1>5 DEF TurnInv, ResultAnswers, DecisionAnswers
<1>9. QED
  BY <1>6, <1>7, <1>8 DEF TurnInv

\* A role that is done, or crashes, says nothing.
LEMMA EndedTurn ==
    ASSUME RelayInv, TurnInv, NEW r \in Roles,
           CrashRole(r) \/ \E loop \in Loops : EndTask(r, loop)
    PROVE  TurnInv'
<1>1. Idle.stage # "ran"
  BY DEF Idle
<1>2. ASSUME NEW loop \in Loops, EndTask(r, loop) PROVE TurnInv'
  <2>1. \A s \in Roles, k \in Loops :
          task'[s][k].stage = "ran" => task'[s][k] = task[s][k]
    BY <1>1, <1>2, BeginEndsNoRun DEF EndTask
  <2>2. QED
    BY <1>2, <2>1, QuietTurn DEF EndTask
<1>3. CASE CrashRole(r)
  <2>1. \A s \in Roles, k \in Loops :
          task'[s][k] = IF s = r THEN Idle ELSE task[s][k]
    BY <1>3 DEF CrashRole, RelayInv, TypeOK
  <2>2. \A s \in Roles, k \in Loops :
          task'[s][k].stage = "ran" => task'[s][k] = task[s][k]
    BY <1>1, <2>1
  <2>3. QED
    BY <1>3, <2>2, QuietTurn DEF CrashRole
<1>4. QED
  BY <1>2, <1>3

\* A report is taken for the turn it answers.
LEMMA HeardTurn ==
    ASSUME RelayInv, TurnInv, NEW e \in Results, IgnoreReport(e) \/ AcceptReport(e)
    PROVE  TurnInv'
<1>1. /\ orch = Idle /\ reports[e] > 0 /\ rec \in Records
      /\ UNCHANGED <<rec, task, worked>>
      /\ \A f \in Results : reports[f] \in Nat
  BY DEF IgnoreReport, AcceptReport, RelayInv, TypeOK
<1>2. \A f : Answers(f)' = Answers(f)
  BY <1>1 DEF Answers
<1>3. \A f \in Results : reports[f] > 0 => Answers(f)
  BY <1>1 DEF TurnInv, ReportsAnswer, InHand
<1>4. RunsAnswer' /\ ResultAnswers'
  BY <1>1, <1>2 DEF TurnInv, RunsAnswer, ResultAnswers
<1>5. CASE IgnoreReport(e)
  <2>1. orch' = Idle /\ \A f \in Results : reports'[f] > 0 => reports[f] > 0
    BY <1>1, <1>5 DEF IgnoreReport, Archived, RelayInv, TypeOK
  <2>2. ReportsAnswer' /\ DecisionAnswers'
    BY <1>2, <1>3, <2>1 DEF ReportsAnswer, InHand, DecisionAnswers
  <2>3. QED
    BY <1>4, <2>2 DEF TurnInv
<1>6. CASE AcceptReport(e)
  <2>1. /\ orch' = [stage |-> "applying", seen |-> rec, report |-> e]
        /\ reports' = reports /\ rec.status \notin Terminal /\ rec.role = e.role
    BY <1>6 DEF AcceptReport, Stale
  <2>2. rec.status \in {"delegated", "blocked"}
    BY <1>1, <2>1 DEF Records, Statuses, Terminal
  <2>3. e.turn = rec.turn /\ rec.turn \in worked
    BY <1>1, <1>3, <2>1, <2>2 DEF Answers
  <2>4. DecisionAnswers'
    BY <1>1, <2>1, <2>2, <2>3 DEF DecisionAnswers
  <2>5. ReportsAnswer'
    <3>1. \A f \in Results : InHand(f)' \in {0, 1}
      BY DEF InHand
    <3>2. \A f \in Results : reports'[f] > InHand(f)' => reports[f] > 0
      BY <1>1, <2>1, <3>1
    <3>3. QED
      BY <1>2, <1>3, <3>2 DEF ReportsAnswer
  <2>6. QED
    BY <1>4, <2>4, <2>5 DEF TurnInv
<1>7. QED
  BY <1>5, <1>6

\* What a decision starts from: the record as it is, open, and its turn's work done.
LEMMA DecidedOn ==
    ASSUME RelayInv, TurnInv, ~crossed', NEW next, NEW stage \in {"sending", "done"}, NEW cause,
           Save(next, stage, cause)
    PROVE  /\ orch.seen = rec /\ rec \in Records /\ orch.report \in Results
           /\ rec.status \in {"delegated", "blocked"}
           /\ rec.turn \in worked /\ orch.report.turn = rec.turn
           /\ rec' = next /\ ~cause
           /\ orch' # Idle /\ orch'.report = orch.report /\ orch'.stage # "applying"
           /\ orch # Idle /\ UNCHANGED <<reports, task, worked>>
<1>1. /\ orch.stage = "applying" /\ orch # Idle /\ orch \in Orchs /\ orch.report \in Results
      /\ orch' = [orch EXCEPT !.stage = stage,
                               !.seen = IF stage = "done" THEN Unseen ELSE next]
  BY OrchCases DEF Save, RelayInv
<1>2. /\ orch.seen = rec /\ ~cause /\ rec' = next /\ rec \in Records
      /\ UNCHANGED <<reports, task, worked>>
  BY DEF Save, Crossing, Changed, RelayInv, TypeOK
<1>3. /\ orch.report.turn = rec.turn /\ rec.status \in {"delegated", "blocked"}
      /\ rec.turn \in worked
  BY <1>1, <1>2 DEF TurnInv, DecisionAnswers
<1>4. orch'.stage = stage /\ orch'.report = orch.report
  BY <1>1 DEF Orchs
<1>5. orch' # Idle
  BY <1>4 DEF Idle
<1>6. QED
  BY <1>1, <1>2, <1>3, <1>4, <1>5

\* A request that is handed on has no answer of its new holder waiting; one that is
\* completed takes none; a blocked one is where it was.
LEMMA DecideTurn ==
    ASSUME RelayInv, TurnInv, ~crossed',
           (\E r \in Roles : RouteTo(r)) \/ CompleteRequest \/ BlockRequest
    PROVE  TurnInv'
<1>1. ASSUME NEW r \in Roles, RouteTo(r) PROVE TurnInv'
  <2> DEFINE next == [Answered EXCEPT !.status = "delegated", !.role = r, !.turn = @ + 1]
  <2>1. Save(next, "sending", Outstanding(r))
    BY <1>1 DEF RouteTo
  <2>2. /\ orch.seen = rec /\ rec \in Records /\ orch.report \in Results
        /\ rec.turn \in worked /\ orch.report.turn = rec.turn
        /\ rec' = next /\ ~Outstanding(r)
        /\ orch' # Idle /\ orch'.report = orch.report /\ orch'.stage # "applying"
        /\ orch # Idle /\ UNCHANGED <<reports, task, worked>>
    BY <2>1, DecidedOn
  <2>3. /\ rec'.role = r /\ rec'.turn = rec.turn + 1 /\ rec.turn \in Nat
        /\ rec'.result = orch.report
    BY <2>2 DEF Answered, Records
  <2>4. ReportsAnswer'
    <3>1. \A f \in Results : InHand(f)' = InHand(f)
      BY <2>2 DEF InHand
    <3>2. \A f \in Results : reports'[f] > InHand(f)' => f.role # r
      BY <2>2, <3>1 DEF Outstanding
    <3>3. QED
      BY <2>3, <3>2 DEF ReportsAnswer, Answers
  <2>5. RunsAnswer'
    BY <2>2, <2>3 DEF Outstanding, TurnInv, RunsAnswer, Answers
  <2>6. ResultAnswers'
    BY <2>2, <2>3 DEF ResultAnswers
  <2>7. DecisionAnswers'
    BY <2>2 DEF DecisionAnswers
  <2>8. QED
    BY <2>4, <2>5, <2>6, <2>7 DEF TurnInv
<1>2. CASE CompleteRequest
  <2> DEFINE next == [Answered EXCEPT !.status = "completed", !.role = "orchestrator"]
  <2>1. Save(next, "done", FALSE)
    BY <1>2 DEF CompleteRequest
  <2>2. /\ orch.seen = rec /\ rec \in Records /\ rec' = next
        /\ rec.turn \in worked /\ orch.report.turn = rec.turn
        /\ orch' # Idle /\ orch'.report = orch.report /\ orch'.stage # "applying"
        /\ UNCHANGED <<reports, task, worked>>
    BY <2>1, DecidedOn
  <2>3. rec'.status = "completed"
    BY <2>2 DEF Answered, Records
  <2>4. \A f : Answers(f)'
    BY <2>3 DEF Answers
  <2>5. ReportsAnswer' /\ ResultAnswers'
    BY <2>4 DEF ReportsAnswer, ResultAnswers
  <2>6. RunsAnswer'
    BY <2>2, <2>4 DEF TurnInv, RunsAnswer
  <2>7. DecisionAnswers'
    BY <2>2 DEF DecisionAnswers
  <2>8. QED
    BY <2>5, <2>6, <2>7 DEF TurnInv
<1>3. CASE BlockRequest
  <2> DEFINE next == [Answered EXCEPT !.status = "blocked"]
  <2>1. Save(next, "done", FALSE)
    BY <1>3 DEF BlockRequest
  <2>2. /\ orch.seen = rec /\ rec \in Records /\ rec' = next
        /\ rec.status \in {"delegated", "blocked"}
        /\ rec.turn \in worked /\ orch.report.turn = rec.turn
        /\ orch' # Idle /\ orch'.report = orch.report /\ orch'.stage # "applying"
        /\ orch # Idle /\ UNCHANGED <<reports, task, worked>>
    BY <2>1, DecidedOn
  <2>3. /\ rec'.role = rec.role /\ rec'.turn = rec.turn /\ rec'.result = orch.report
    BY <2>2 DEF Answered, Records
  <2>4. \A f : Answers(f) => Answers(f)'
    BY <2>2, <2>3 DEF Answers
  <2>5. ReportsAnswer'
    <3>1. \A f \in Results : InHand(f)' = InHand(f)
      BY <2>2 DEF InHand
    <3>2. QED
      BY <2>2, <2>4, <3>1 DEF TurnInv, ReportsAnswer
  <2>6. RunsAnswer'
    BY <2>2, <2>4 DEF TurnInv, RunsAnswer
  <2>7. ResultAnswers'
    BY <2>2, <2>3 DEF ResultAnswers, Answers
  <2>8. DecisionAnswers'
    BY <2>2 DEF DecisionAnswers
  <2>9. QED
    BY <2>5, <2>6, <2>7, <2>8 DEF TurnInv
<1>4. QED
  BY <1>1, <1>2, <1>3

\* Recording the delivery saves the record as it is.
LEMMA DeliverTurn ==
    ASSUME RelayInv, TurnInv, ~crossed', SendDelegate \/ LoseDelegate
    PROVE  TurnInv'
<1>1. /\ orch # Idle /\ orch \in Orchs /\ rec' = rec
      /\ orch' = [orch EXCEPT !.stage = "done", !.seen = Unseen]
      /\ UNCHANGED <<reports, task, worked>>
  BY OrchCases DEF SendDelegate, LoseDelegate, Crossing, Changed, RelayInv
<1>2. orch'.stage = "done" /\ orch'.report = orch.report
  BY <1>1 DEF Orchs
<1>3. orch' # Idle
  BY <1>2 DEF Idle
<1>4. \A f : Answers(f)' = Answers(f) /\ InHand(f)' = InHand(f)
  BY <1>1, <1>2, <1>3 DEF Answers, InHand
<1>5. ReportsAnswer' /\ RunsAnswer'
  BY <1>1, <1>4 DEF TurnInv, ReportsAnswer, RunsAnswer
<1>6. ResultAnswers' /\ DecisionAnswers'
  BY <1>1, <1>2, <1>3, <1>4 DEF TurnInv, ResultAnswers, DecisionAnswers
<1>7. QED
  BY <1>5, <1>6 DEF TurnInv

\* A report that is archived is one less; one that a crash leaves answers its turn.
LEMMA OrchEndsTurn ==
    ASSUME RelayInv, TurnInv, ~crossed', ArchiveReport \/ CrashOrchestrator
    PROVE  TurnInv'
<1> DEFINE e == orch.report
<1>1. /\ orch # Idle /\ e \in Results /\ orch' = Idle /\ UNCHANGED <<rec, task, worked>>
      /\ reports \in [Results -> Nat]
  BY OrchCases DEF ArchiveReport, CrashOrchestrator, RelayInv, TypeOK
<1>2. \A f : Answers(f)' = Answers(f)
  BY <1>1 DEF Answers
<1>3. RunsAnswer' /\ ResultAnswers' /\ DecisionAnswers'
  BY <1>1, <1>2 DEF TurnInv, RunsAnswer, ResultAnswers, DecisionAnswers
<1>4. \A f \in Results : InHand(f)' = 0 /\ InHand(f) = IF f = e THEN 1 ELSE 0
  BY <1>1 DEF InHand
<1>5. CASE ArchiveReport
  <2>1. \A f \in Results : reports'[f] = IF f = e THEN reports[f] - 1 ELSE reports[f]
    BY <1>1, <1>5 DEF ArchiveReport, Archived
  <2>2. \A f \in Results : reports'[f] > InHand(f)' => reports[f] > InHand(f)
    BY <1>1, <1>4, <2>1
  <2>3. ReportsAnswer'
    BY <1>2, <2>2 DEF TurnInv, ReportsAnswer
  <2>4. QED
    BY <1>3, <2>3 DEF TurnInv
<1>6. CASE CrashOrchestrator
  <2>1. reports' = reports /\ ~(rec.role = e.role /\ rec.turn # e.turn)
    BY <1>6 DEF CrashOrchestrator, Crossing
  <2>2. Answers(e)
    BY <1>1, <2>1 DEF TurnInv, DecisionAnswers, Answers
  <2>3. ReportsAnswer'
    BY <1>1, <1>2, <1>4, <2>1, <2>2 DEF TurnInv, ReportsAnswer
  <2>4. QED
    BY <1>3, <2>3 DEF TurnInv
<1>7. QED
  BY <1>5, <1>6

\* A request that is cancelled takes no report.
LEMMA CancelTurn == ASSUME RelayInv, TurnInv, CancelRequest PROVE TurnInv'
<1>1. /\ rec' = [rec EXCEPT !.status = "cancelled"] /\ rec \in Records
      /\ UNCHANGED <<reports, task, orch, worked>>
  BY DEF CancelRequest, RelayInv, TypeOK
<1>2. rec'.status = "cancelled"
  BY <1>1 DEF Records
<1>3. \A f : Answers(f)'
  BY <1>2 DEF Answers
<1>4. ReportsAnswer' /\ ResultAnswers'
  BY <1>3 DEF ReportsAnswer, ResultAnswers
<1>5. RunsAnswer' /\ DecisionAnswers'
  BY <1>1, <1>3 DEF TurnInv, RunsAnswer, DecisionAnswers
<1>6. QED
  BY <1>4, <1>5 DEF TurnInv

\* Every step that crosses nothing keeps the turn.
LEMMA NextTurnInv == RelayInv /\ TurnInv /\ [Next]_vars /\ ~crossed' => TurnInv'
<1> SUFFICES ASSUME RelayInv, TurnInv, [Next]_vars, ~crossed' PROVE TurnInv'
  OBVIOUS
<1>1. ASSUME NEW r \in Roles,
             \/ Consume(r) \/ ResumeNow(r) \/ ResumeScan(r) \/ ResumeLater(r) \/ CrashRole(r)
             \/ \E loop \in Loops : LoopStep(r, loop) \/ LoseReport(r, loop)
      PROVE  TurnInv'
  BY <1>1, ConsumeTurn, PassTurn, EndedTurn, RunTurn, SentTurn DEF LoopStep
<1>2. CASE HandleReports
  BY <1>2, HeardTurn, DecideTurn, DeliverTurn, OrchEndsTurn DEF HandleReports
<1>3. CASE LoseDelegate \/ CrashOrchestrator \/ CancelRequest
  BY <1>3, DeliverTurn, OrchEndsTurn, CancelTurn
<1>4. CASE UNCHANGED vars
  BY <1>4, QuietTurn DEF vars
<1>5. QED
  BY <1>1, <1>2, <1>3, <1>4 DEF Next

\* The strengthened invariant: until something crosses, every answer on its way to the
\* orchestrator, and the one in its hand, is of the turn it would be taken for.
THEOREM TurnInvariant == Spec => []IInv
<1>1. Init => IInv
  BY InitRelayInv, InitTurnInv DEF IInv
<1>2. IInv /\ [Next]_vars => IInv'
  <2> SUFFICES ASSUME IInv, [Next]_vars PROVE IInv'
    OBVIOUS
  <2>1. RelayInv'
    BY NextRelayInv DEF IInv
  <2>2. ASSUME ~crossed' PROVE TurnInv'
    BY <2>2, CrossedStays, NextTurnInv DEF IInv, RelayInv
  <2>3. QED
    BY <2>1, <2>2 DEF IInv
<1>3. QED
  BY <1>1, <1>2, PTL DEF Spec

\* Whatever is lost, crashes or is cancelled, and however many reports and delegates
\* are on their way: a report is taken as the answer to another turn than its own
\* (_stale_role_report_reason tells reports apart by their role only) only after an
\* old copy of the record was saved or an answer outlived its turn.
THEOREM ReportsAnswerTheirTurn == Spec => []AnswersItsTurn
<1>1. IInv => AnswersItsTurn
  <2>1. orch.stage = "applying" => orch # Idle
    BY DEF Idle
  <2>2. QED
    BY <2>1 DEF IInv, TurnInv, DecisionAnswers, AnswersItsTurn
<1>2. QED
  BY <1>1, TurnInvariant, PTL

-----------------------------------------------------------------------------
(* The abstract turns                                                       *)

\* A step that touches neither the turn nor its work is none of RequestTurns.
LEMMA TurnStutters ==
    ASSUME rec'.status = rec.status, rec'.role = rec.role, rec'.turn = rec.turn,
           worked' = worked, crossed' = crossed
    PROVE  [Turns!Next]_(Turns!vars)
BY DEF Turns!vars

\* A run that ends is the work of its role's turn, or nothing.
LEMMA RunIsWork ==
    ASSUME RelayInv, ~crossed, ~crossed', NEW r \in Roles, NEW loop \in Loops,
           FinishRun(r, loop)
    PROVE  [Turns!Next]_(Turns!vars)
<1> DEFINE seen == task[r][loop].seen
<1>1. seen = rec /\ rec \in Records /\ crossed' = FALSE
  BY DEF FinishRun, Crossing, Changed, RelayInv, TypeOK
<1>2. /\ rec'.status = rec.status /\ rec'.role = rec.role /\ rec'.turn = rec.turn
      /\ worked' = IF rec.role = r THEN worked \cup {rec.turn} ELSE worked
  BY <1>1 DEF FinishRun, Records
<1>3. CASE rec.role = r
  BY <1>1, <1>2, <1>3 DEF Turns!Next, Turns!Kept, Turns!Advance, Turns!Work
<1>4. CASE rec.role # r
  <2>1. crossed = FALSE
    BY DEF RelayInv, TypeOK
  <2>2. QED
    BY <1>1, <1>2, <1>4, <2>1, TurnStutters
<1>5. QED
  BY <1>3, <1>4

\* A decision hands the turn on, or settles the request.
LEMMA DecisionIsATurn ==
    ASSUME RelayInv, TurnInv, ~crossed, ~crossed',
           (\E r \in Roles : RouteTo(r)) \/ CompleteRequest \/ BlockRequest
    PROVE  Turns!Next
<1>1. \E next, cause : Save(next, "sending", cause) \/ Save(next, "done", cause)
  <2>1. CASE CompleteRequest \/ BlockRequest
    <3>1. \E next : Save(next, "done", FALSE)
      BY <2>1 DEF CompleteRequest, BlockRequest
    <3>2. QED
      BY <3>1
  <2>2. ASSUME NEW r \in Roles, RouteTo(r)
        PROVE  \E next : Save(next, "sending", Outstanding(r))
    BY <2>2 DEF RouteTo
  <2>3. QED
    BY <2>1, <2>2
<1>2. /\ orch.seen = rec /\ rec \in Records /\ orch.report \in Results
      /\ rec.status \in {"delegated", "blocked"} /\ rec.turn \in worked
      /\ worked' = worked
  BY <1>1, DecidedOn
<1>3. crossed' = FALSE
  BY <1>1 DEF Save, Crossing, RelayInv, TypeOK
<1>4. /\ Answered.status = rec.status /\ Answered.role = rec.role
      /\ Answered.turn = rec.turn /\ Answered \in Records
  BY <1>2 DEF Answered, Records
<1>5. ASSUME NEW r \in Roles, RouteTo(r) PROVE Turns!HandOn(r)
  <2>1. /\ rec' = [Answered EXCEPT !.status = "delegated", !.role = r, !.turn = @ + 1]
        /\ rec.turn < MaxTurns
    BY <1>2, <1>5 DEF RouteTo, Save
  <2>2. rec'.status = "delegated" /\ rec'.role = r /\ rec'.turn = rec.turn + 1
    BY <1>4, <2>1 DEF Records
  <2>3. QED
    BY <1>2, <2>1, <2>2 DEF Turns!HandOn, Turns!Open
<1>6. CASE CompleteRequest
  <2>1. rec' = [Answered EXCEPT !.status = "completed", !.role = "orchestrator"]
    BY <1>6 DEF CompleteRequest, Save
  <2>2. rec'.status = "completed" /\ rec'.role = "orchestrator" /\ rec'.turn = rec.turn
    BY <1>4, <2>1 DEF Records
  <2>3. Turns!Settle("completed")
    BY <1>2, <2>2 DEF Turns!Settle, Turns!Open
  <2>4. QED
    BY <1>3, <2>3 DEF Turns!Next, Turns!Kept, Turns!Advance
<1>7. CASE BlockRequest
  <2>1. rec' = [Answered EXCEPT !.status = "blocked"]
    BY <1>7 DEF BlockRequest, Save
  <2>2. rec'.status = "blocked" /\ rec'.role = rec.role /\ rec'.turn = rec.turn
    BY <1>4, <2>1 DEF Records
  <2>3. Turns!Settle("blocked")
    BY <1>2, <2>2 DEF Turns!Settle, Turns!Open
  <2>4. QED
    BY <1>3, <2>3 DEF Turns!Next, Turns!Kept, Turns!Advance
<1>8. QED
  BY <1>3, <1>5, <1>6, <1>7 DEF Turns!Next, Turns!Kept, Turns!Advance

\* Every step of the relay is a step of the turns, or none.
LEMMA StepIsATurn == IInv /\ [Next]_vars => [Turns!Next]_(Turns!vars)
<1> SUFFICES ASSUME IInv, [Next]_vars PROVE [Turns!Next]_(Turns!vars)
  OBVIOUS
<1>1. CASE crossed'
  <2>1. crossed' = TRUE
    BY <1>1, NextRelayInv DEF IInv, RelayInv, TypeOK
  <2>2. QED
    BY <2>1 DEF Turns!Next, Turns!Lapse
<1>2. CASE ~crossed'
  <2> USE <1>2
  <2>1. ~crossed /\ RelayInv /\ TurnInv /\ rec \in Records /\ crossed' = crossed
    <3>1. ~crossed /\ RelayInv /\ RelayInv'
      BY CrossedStays, NextRelayInv DEF IInv, RelayInv
    <3>2. crossed \in BOOLEAN /\ crossed' \in BOOLEAN
      BY <3>1 DEF RelayInv, TypeOK
    <3>3. crossed' = crossed
      BY <3>1, <3>2
    <3>4. QED
      BY <3>1, <3>3 DEF IInv, RelayInv, TypeOK
  <2>2. ASSUME NEW r \in Roles, NEW loop \in Loops, FinishRun(r, loop)
        PROVE  [Turns!Next]_(Turns!vars)
    BY <2>1, <2>2, RunIsWork
  <2>3. ASSUME NEW r \in Roles, NEW seen, ResumePending(r, seen)
        PROVE  rec' = rec
    BY <2>3 DEF ResumePending, Resend, Rerun, Crossing, Changed
  <2>4. ASSUME NEW r \in Roles,
               \/ Consume(r) \/ ResumeNow(r) \/ ResumeScan(r) \/ ResumeLater(r)
               \/ CrashRole(r)
               \/ \E loop \in Loops :
                    SendReport(r, loop) \/ EndTask(r, loop) \/ LoseReport(r, loop)
        PROVE  [Turns!Next]_(Turns!vars)
    <3>1. rec' = rec /\ worked' = worked
      BY <2>3, <2>4 DEF Consume, TakeDelegate, DropDelegate, ResumeNow, ResumeScan,
         ResumeLater, CrashRole, SendReport, EndTask, LoseReport
    <3>2. QED
      BY <2>1, <3>1, TurnStutters
  <2>5. CASE (\E r \in Roles : RouteTo(r)) \/ CompleteRequest \/ BlockRequest
    BY <2>1, <2>5, DecisionIsATurn
  <2>6. CASE (\E e \in Results : IgnoreReport(e) \/ AcceptReport(e)) \/ SendDelegate
             \/ LoseDelegate \/ ArchiveReport \/ CrashOrchestrator \/ UNCHANGED vars
    <3>1. rec' = rec /\ worked' = worked
      BY <2>6 DEF IgnoreReport, AcceptReport, SendDelegate, LoseDelegate, ArchiveReport,
         CrashOrchestrator, Crossing, Changed, vars
    <3>2. QED
      BY <2>1, <3>1, TurnStutters
  <2>7. CASE CancelRequest
    <3>1. rec' = [rec EXCEPT !.status = "cancelled"] /\ worked' = worked
      BY <2>7 DEF CancelRequest
    <3>2. rec'.status = "cancelled" /\ rec'.role = rec.role /\ rec'.turn = rec.turn
      BY <2>1, <3>1 DEF Records
    <3>3. crossed' = FALSE
      BY <2>1 DEF RelayInv, TypeOK
    <3>4. QED
      BY <2>1, <3>1, <3>2, <3>3 DEF Turns!Next, Turns!Kept, Turns!Withdraw
  <2>8. QED
    BY <2>2, <2>4, <2>5, <2>6, <2>7 DEF Next, HandleReports, LoopStep
<1>3. QED
  BY <1>1, <1>2

\* The safety part of ImplementsTurns: every behaviour of the relay starts as one of
\* RequestTurns and takes its steps only: work, hand on, settle, withdraw, until it lapses.
THEOREM TurnsAreTaken == Spec => Turns!Init /\ [][Turns!Next]_(Turns!vars)
<1>1. Init => Turns!Init
  BY DEF Init, Turns!Init
<1>2. IInv /\ [Next]_vars => [Turns!Next]_(Turns!vars)
  BY StepIsATurn
<1>3. QED
  BY <1>1, <1>2, TurnInvariant, PTL DEF Spec
=============================================================================
