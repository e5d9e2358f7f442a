------------------------ MODULE SprintPlanningProofs ------------------------
(***************************************************************************)
(* Theorems about SprintPlanning, for any bounds on reopenings, answers    *)
(* and faults: backlog work waits for the user's confirmation; a sprint    *)
(* starts from what was planned and no change request is lost, unless an   *)
(* answer puts an old copy of a blocked sprint back; and the loop comes    *)
(* nearer to its return.                                                   *)
(***************************************************************************)
EXTENDS SprintPlanning, TLAPS

Loops == [stage: Stages, step: Step, first: BOOLEAN, guarded: BOOLEAN]
Answers == [kind: {"confirm", "change"}, id: 1..MaxEvents, copy: Sprints]

Types ==
    /\ disk \in Sprints /\ mem \in Sprints /\ loop \in Loops
    /\ req \in [Step -> Requests]
    /\ backlog \in Backlogs
    /\ active \in BOOLEAN /\ task \in BOOLEAN
    /\ answers \subseteq Answers
    /\ said \in Nat /\ faults \in Nat /\ said + faults <= MaxEvents

-----------------------------------------------------------------------------
(* What holds however late an answer comes *)

\* A file's plan, its steps and its status tell the same story: the plan was
\* drafted exactly when the second step is done, and only a confirmed one goes on.
Sound(d) ==
    /\ ArtifactSync \in d.done <=> d.plan.status \in {"pending", "confirmed"}
    /\ ArtifactSync \in d.done => Milestone \in d.done
    /\ d.done \cap {Definition, Ranking, Finalization} # {} => Confirmed(d)
    /\ d.status = "running" => Confirmed(d)

CopiesWait ==
    \A a \in answers : Sound(a.copy) /\ Waiting(a.copy) /\ a.copy.status # "running"

\* What the loop knows where it waits.
LoopIsInOrder ==
    /\ loop.stage \in {"asking", "sending", "reporting"} => mem.status \in {"planning", "blocked"}
    /\ loop.stage \in {"drafting", "ending"} => mem.status \in {"blocked", "failed"}
    /\ loop.stage = "asking" =>
         /\ loop.step \notin mem.done /\ ~Waiting(mem)
         /\ \A s \in Step : s < loop.step => s \in mem.done
    /\ loop.stage = "sending" => mem.done = {Milestone, ArtifactSync} /\ Waiting(mem)
    /\ loop.stage = "reporting" => mem.done = Step /\ mem.queue
    /\ loop.stage \in {"drafting", "ending"} /\ mem.status = "blocked" => ~Waiting(mem)

PlanInv == Types /\ Sound(disk) /\ Sound(mem) /\ CopiesWait /\ LoopIsInOrder

-----------------------------------------------------------------------------
(* What holds unless an old copy of a blocked sprint is put back *)

PutsBlockedBack ==
    \E a \in answers : ~active /\ a.copy.status = "blocked" /\ AnswerIsApplied(a)
NoneIsPutBack == [][~PutsBlockedBack]_vars

Open(s) == req[s].status = "open"
NoneOpenOf(done) == \A s \in Step : Open(s) => s \notin done

\* The loop's copy is what the file says of plan and steps, or the file is an old
\* copy that no one resumes or reads before the loop saves.
InStep == disk.plan = mem.plan /\ disk.done = mem.done
Orphaned == ~active /\ disk.status # "blocked"
\* The loop is gone as well.
Stranded == Orphaned /\ ~task /\ answers = {}

FileIsHeld ==
    /\ loop.stage \in {"asking", "reporting"} => InStep \/ Orphaned
    /\ loop.stage = "drafting" =>
         InStep \/ Orphaned \/ (mem.status = "failed" /\ NoneOpenOf(disk.done))

\* No request is open for what is done.
OpenIsUndone ==
    /\ loop.stage # "idle" => NoneOpenOf(mem.done)
    /\ loop.stage \in {"sending", "ending"} => NoneOpenOf(disk.done)
    /\ loop.stage = "idle" => NoneOpenOf(disk.done) \/ Stranded
    /\ Open(ArtifactSync) => Milestone \in disk.done
    /\ loop.stage = "asking" => \A s \in {Milestone, ArtifactSync} : Open(s) => s = loop.step
    /\ (loop.stage = "idle" /\ answers # {}) \/ loop.stage \notin {"idle", "asking"}
       => ~Open(Milestone) /\ ~Open(ArtifactSync)

StartInv == FileIsHeld /\ OpenIsUndone /\ StartsPlanned

IInv == PlanInv /\ StartInv

-----------------------------------------------------------------------------
(* The operators of the loop *)

\* The first of the steps that are left.
LEMMA FirstStep ==
    ASSUME NEW S \in SUBSET Step, S # {}
    PROVE  /\ (CHOOSE s \in S : \A t \in S : s <= t) \in S
           /\ \A t \in Step : t < (CHOOSE s \in S : \A t2 \in S : s <= t2) => t \notin S
<1>1. \E s \in S : \A t \in S : s <= t
  <2>1. CASE 1 \in S
    BY <2>1 DEF Step
  <2>2. CASE 1 \notin S /\ 2 \in S
    BY <2>2 DEF Step
  <2>3. CASE {1, 2} \cap S = {} /\ 3 \in S
    BY <2>3 DEF Step
  <2>4. CASE {1, 2, 3} \cap S = {} /\ 4 \in S
    BY <2>4 DEF Step
  <2>5. CASE {1, 2, 3, 4} \cap S = {}
    <3>1. PICK m \in S : TRUE
      OBVIOUS
    <3>2. \A t \in S : t \in Nat /\ t \in 1..5 /\ t # 1 /\ t # 2 /\ t # 3 /\ t # 4
      BY <2>5 DEF Step
    <3>3. \A t \in S : t = 5
      BY <3>2
    <3>4. QED BY <3>1, <3>3
  <2>6. QED BY <2>1, <2>2, <2>3, <2>4, <2>5
<1>2. PICK m \in S : m = (CHOOSE s \in S : \A t \in S : s <= t) /\ \A t \in S : m <= t
  BY <1>1
<1>3. \A t \in S : t \in Nat
  BY DEF Step
<1>4. \A t \in Step : t < m => t \notin S
  BY <1>2, <1>3
<1>5. QED BY <1>2, <1>4

\* A copy of the sprint and the way the loop was entered.
LEMMA InitialTypes ==
    ASSUME PlanningAssumption
    PROVE  /\ NewSprint \in Sprints /\ Sound(NewSprint) /\ ~Waiting(NewSprint)
           /\ Idle \in Loops /\ Idle.stage = "idle"
           /\ NoRequest \in Requests /\ NoRequest.status = "none"
BY DEF NewSprint, Sprints, Plans, Sound, Confirmed, Waiting, Idle, Loops, Stages, Step,
       NoRequest, Requests, Terminal, PlanningAssumption, Milestone, ArtifactSync,
       Definition, Ranking, Finalization

\* What a request is read as: one that was answered is closed.
LEMMA ReadTypes ==
    ASSUME Types
    PROVE  /\ Read \in [Step -> Requests]
           /\ \A s \in Step : Read[s].status = "open" => Open(s)
           /\ req[loop.step].status \in Terminal => Read[loop.step].status # "open"
           /\ \A s \in Step \ {loop.step} : Read[s] = req[s]
BY InitialTypes, PlanningAssumption DEF Types, Read, Open, Loops, Requests, NoRequest, Terminal

\* The changes the loop makes to its copy give a sprint again.
LEMMA CopyTypes ==
    ASSUME Types, NEW m \in Sprints, NEW s \in Step
    PROVE  /\ Merged(m) \in Sprints /\ ClearSync(m) \in Sprints /\ Reopened(m, s) \in Sprints
           /\ Applied(m) \in Sprints
           /\ Merged(m).plan = m.plan /\ Merged(m).done = m.done /\ Merged(m).status = m.status
           /\ Applied(m).plan = m.plan /\ Applied(m).done = m.done /\ Applied(m).status = m.status
           /\ Applied(m).queue = Selected(backlog)
           /\ Reopened(m, s).plan = m.plan /\ Reopened(m, s).done = m.done
           /\ Reopened(m, s).status = "planning"
           /\ ClearSync(m).plan = m.plan /\ ClearSync(m).done = m.done \ {ArtifactSync}
           /\ ClearSync(m).status = m.status
<1>1. Merged(m) \in Sprints /\ Merged(m).plan = m.plan /\ Merged(m).done = m.done
      /\ Merged(m).status = m.status
  BY DEF Types, Merged, Sprints
<1>2. /\ Applied(m) \in Sprints /\ Applied(m).plan = m.plan /\ Applied(m).done = m.done
      /\ Applied(m).status = m.status /\ Applied(m).queue = Selected(backlog)
  <2>1. Selected(backlog) \in BOOLEAN
    BY DEF Selected
  <2>2. QED BY <1>1, <2>1 DEF Applied, Sprints
<1>3. Reopened(m, s) \in Sprints
  <2>1. [m.reopens EXCEPT ![s] = IF @ < MaxReopens THEN @ + 1 ELSE @] \in [Step -> 0..MaxReopens]
    BY PlanningAssumption DEF Sprints, PlanningAssumption
  <2>2. QED BY <2>1 DEF Reopened, Sprints
<1>4. /\ Reopened(m, s).plan = m.plan /\ Reopened(m, s).done = m.done
      /\ Reopened(m, s).status = "planning"
  BY DEF Reopened, Sprints
<1>5. /\ ClearSync(m) \in Sprints /\ ClearSync(m).plan = m.plan
      /\ ClearSync(m).done = m.done \ {ArtifactSync} /\ ClearSync(m).status = m.status
  BY DEF ClearSync, Sprints
<1>6. QED BY <1>1, <1>2, <1>3, <1>4, <1>5

\* How the loop goes on: it waits for the user, ends with every step done, or asks for
\* the first step that is left, which is not what waits for the user.
LEMMA ProceedCases ==
    ASSUME NEW m \in Sprints, NEW l \in Loops, Sound(m), Proceed(m, l)
    PROVE  \/ Waiting(m) /\ Returns /\ req' = Read
           \/ m.done = Step /\ ~Waiting(m) /\ Ends(m, l, "blocked")
           \/ /\ ~Waiting(m)
              /\ \E s \in Step : /\ s \notin m.done /\ \A t \in Step : t < s => t \in m.done
                                 /\ Ask(m, l, s)
<1>1. Waiting(m) => Gated(m)
  BY DEF Sound, Waiting, Gated, Confirmed, Milestone, ArtifactSync
<1>2. Gated(m) => Waiting(m)
  BY DEF Sound, Waiting, Gated, Confirmed, Milestone, ArtifactSync
<1>3. CASE Waiting(m)
  BY <1>1, <1>3 DEF Proceed
<1>4. CASE ~Waiting(m)
  <2>1. ~Gated(m)
    BY <1>2, <1>4
  <2>2. Rest(m) = Step \ m.done
    BY <2>1 DEF Rest
  <2>3. IF Rest(m) = {} THEN Ends(m, l, "blocked")
        ELSE Ask(m, l, CHOOSE s \in Rest(m) : \A t \in Rest(m) : s <= t)
    BY <2>1 DEF Proceed
  <2>4. CASE Rest(m) = {}
    BY <1>4, <2>2, <2>3, <2>4 DEF Sprints
  <2>5. CASE Rest(m) # {}
    <3>1. PICK n : n = (CHOOSE s \in Rest(m) : \A t \in Rest(m) : s <= t)
      OBVIOUS
    <3>2. n \in Rest(m) /\ \A t \in Step : t < n => t \notin Rest(m)
      BY <2>2, <2>5, <3>1, FirstStep
    <3>3. Ask(m, l, n)
      BY <2>3, <2>5, <3>1
    <3>4. QED BY <1>4, <2>2, <3>2, <3>3
  <2>6. QED BY <2>4, <2>5
<1>5. QED BY <1>3, <1>4

\* A request of a step is asked, or asked again.
LEMMA AskTypes ==
    ASSUME Types, NEW m \in Sprints, NEW l \in Loops, NEW s \in Step, Ask(m, l, s)
    PROVE  /\ req' \in [Step -> Requests]
           /\ loop' \in Loops /\ loop'.stage = "asking" /\ loop'.step = s
           /\ \A t \in Step \ {s} : req'[t] = Read[t]
<1>1. Request(m, s, l.first) \in Requests
  <2>1. NewRequest(ResearchFirst(m, s, l.first)) \in Requests
    BY DEF NewRequest, NoRequest, Requests, ResearchFirst, Sprints, Loops
  <2>2. QED BY <2>1, ReadTypes DEF Request
<1>2. req' = [Read EXCEPT ![s] = Request(m, s, l.first)]
  BY DEF Ask
<1>3. loop' \in Loops /\ loop'.stage = "asking" /\ loop'.step = s
  BY DEF Ask, Loops, Stages
<1>4. QED BY <1>1, <1>2, <1>3, ReadTypes

\* The end of a sprint is prepared.
LEMMA EndsTypes ==
    ASSUME Types, NEW m \in Sprints, NEW l \in Loops, NEW status \in {"blocked", "failed"},
           Ends(m, l, status)
    PROVE  /\ mem' \in Sprints /\ mem'.status = status
           /\ mem'.done = m.done /\ mem'.plan = m.plan
           /\ loop' \in Loops /\ loop'.stage = "drafting" /\ loop'.step = l.step
           /\ req' = Read
<1>1. /\ mem' \in Sprints /\ mem'.status = status
      /\ mem'.done = m.done /\ mem'.plan = m.plan
  BY DEF Ends, Sprints
<1>2. loop' \in Loops /\ loop'.stage = "drafting" /\ loop'.step = l.step
  BY DEF Ends, Loops, Stages
<1>3. QED BY <1>1, <1>2 DEF Ends

\* What a step of the loop leaves in order.
LoopTypes == mem \in Sprints /\ loop \in Loops /\ req \in [Step -> Requests]
LoopInOrder == LoopTypes /\ Sound(mem) /\ LoopIsInOrder

\* The loop goes on in order.
LEMMA ProceedKeeps ==
    ASSUME Types, NEW m \in Sprints, NEW l \in Loops, Sound(m),
           m.status \in {"planning", "blocked"}, Proceed(m, l)
    PROVE  LoopInOrder'
<1>1. CASE Returns /\ req' = Read
  BY <1>1, InitialTypes, ReadTypes, PlanningAssumption
  DEF Returns, LoopInOrder, LoopTypes, LoopIsInOrder, Loops
<1>2. CASE ~Waiting(m) /\ Ends(m, l, "blocked")
  <2>1. /\ mem' \in Sprints /\ mem'.status = "blocked" /\ mem'.done = m.done
        /\ mem'.plan = m.plan /\ loop' \in Loops /\ loop'.stage = "drafting" /\ req' = Read
    BY <1>2, EndsTypes
  <2>2. Sound(mem)' /\ ~Waiting(mem)'
    BY <1>2, <2>1 DEF Sound, Confirmed, Waiting
  <2>3. QED BY <2>1, <2>2, ReadTypes DEF LoopInOrder, LoopTypes, LoopIsInOrder
<1>3. CASE /\ ~Waiting(m)
           /\ \E s \in Step : /\ s \notin m.done /\ \A t \in Step : t < s => t \in m.done
                              /\ Ask(m, l, s)
  <2>1. PICK s \in Step : /\ s \notin m.done /\ \A t \in Step : t < s => t \in m.done
                          /\ Ask(m, l, s)
    BY <1>3
  <2>2. /\ req' \in [Step -> Requests] /\ loop' \in Loops
        /\ loop'.stage = "asking" /\ loop'.step = s
    BY <2>1, AskTypes
  <2>3. mem' = m
    BY <2>1 DEF Ask
  <2>4. QED BY <1>3, <2>1, <2>2, <2>3
        DEF LoopInOrder, LoopTypes, LoopIsInOrder, Sound, Confirmed, Waiting
<1>4. QED BY <1>1, <1>2, <1>3, ProceedCases

\* A reopened step is asked again, or the sprint ends.
LEMMA ReopenKeeps ==
    ASSUME Types, Sound(disk), NEW m \in Sprints, Sound(m), ~Waiting(m),
           NEW s \in Step, Reopen(m, s)
    PROVE  LoopInOrder' /\ disk' \in Sprints /\ Sound(disk)'
<1>1. /\ Reopened(m, s) \in Sprints /\ Sound(Reopened(m, s))
      /\ Reopened(m, s).status = "planning"
  BY CopyTypes DEF Sound, Confirmed
<1>2. CASE MayReopen(m, s)
  <2>1. [loop EXCEPT !.first = FALSE] \in Loops
    BY DEF Types, Loops
  <2>2. disk' = Reopened(m, s) /\ Proceed(Reopened(m, s), [loop EXCEPT !.first = FALSE])
    BY <1>2 DEF Reopen
  <2>3. LoopInOrder'
    BY <1>1, <2>1, <2>2, ProceedKeeps
  <2>4. QED BY <1>1, <2>2, <2>3 DEF Sound, Confirmed
<1>3. CASE ~MayReopen(m, s)
  <2>1. Ends(m, loop, "blocked") /\ UNCHANGED disk
    BY <1>3 DEF Reopen
  <2>2. /\ mem' \in Sprints /\ mem'.status = "blocked" /\ mem'.done = m.done
        /\ mem'.plan = m.plan /\ loop' \in Loops /\ loop'.stage = "drafting" /\ req' = Read
    BY <2>1, EndsTypes DEF Types
  <2>3. Sound(mem)' /\ ~Waiting(mem)'
    BY <2>2 DEF Sound, Confirmed, Waiting
  <2>4. QED BY <2>1, <2>2, <2>3, ReadTypes
        DEF LoopInOrder, LoopTypes, LoopIsInOrder, Types, Sound, Confirmed
<1>4. QED BY <1>2, <1>3

-----------------------------------------------------------------------------
(* Plans wait for the user: PlanInv *)

\* What a step of the loop, and a report, does not touch.
LEMMA OthersKept ==
    ASSUME Types, CopiesWait, UNCHANGED others, UNCHANGED faults
    PROVE  backlog' \in Backlogs /\ answers' \subseteq Answers /\ CopiesWait'
           /\ said' \in Nat /\ faults' \in Nat /\ said' + faults' <= MaxEvents
BY DEF Types, CopiesWait, others

\* The same with a fault.
LEMMA FaultKept ==
    ASSUME Types, CopiesWait, UNCHANGED others, NEW kind, Fault(kind)
    PROVE  backlog' \in Backlogs /\ answers' \subseteq Answers /\ CopiesWait'
           /\ said' \in Nat /\ faults' \in Nat /\ said' + faults' <= MaxEvents
BY PlanningAssumption DEF Types, CopiesWait, others, Fault, PlanningAssumption

\* The loop's copy when a step was answered well.
LEMMA CompletedSound ==
    ASSUME PlanInv, AskedValidly
    PROVE  /\ Completed \in Sprints /\ Completed.plan = mem.plan
           /\ Completed.done = mem.done \cup {loop.step}
           /\ Completed.status = mem.status /\ Completed.queue = Selected(backlog)
           /\ Completed.status \in {"planning", "blocked"}
           /\ loop.step # ArtifactSync => Sound(Completed)
           /\ Confirmed(mem) => Sound(Completed)
<1>1. loop.stage = "asking" /\ loop.step \in Step
  BY DEF AskedValidly, AskedUsably, Asked, PlanInv, Types, Loops
<1>2. mem \in Sprints /\ Sound(mem) /\ mem.status \in {"planning", "blocked"}
      /\ \A s \in Step : s < loop.step => s \in mem.done
  BY <1>1 DEF PlanInv, LoopIsInOrder, Types
<1>3. /\ Applied(mem) \in Sprints /\ Applied(mem).plan = mem.plan /\ Applied(mem).done = mem.done
      /\ Applied(mem).status = mem.status /\ Applied(mem).queue = Selected(backlog)
  BY <1>1, <1>2, CopyTypes DEF PlanInv
<1>4. /\ Completed \in Sprints /\ Completed.plan = mem.plan
      /\ Completed.done = mem.done \cup {loop.step}
      /\ Completed.status = mem.status /\ Completed.queue = Selected(backlog)
  BY <1>1, <1>3 DEF Completed, Sprints
<1>5. {1, 2, 3, 4, 5} \subseteq Step
  BY DEF Step
<1>6. ASSUME loop.step # ArtifactSync PROVE Sound(Completed)
  <2>1. CASE loop.step = Milestone
    BY <1>2, <1>4, <2>1 DEF Sound, Confirmed, Milestone, ArtifactSync, Definition, Ranking,
       Finalization
  <2>2. CASE loop.step \in {Definition, Ranking, Finalization}
    <3>1. ArtifactSync \in mem.done
      BY <1>2, <1>5, <2>2 DEF ArtifactSync, Definition, Ranking, Finalization
    <3>2. Confirmed(mem)
      BY <1>1, <1>2, <3>1 DEF Sound, Confirmed, Waiting, PlanInv, LoopIsInOrder
    <3>3. QED BY <1>2, <1>4, <2>2, <3>1, <3>2
          DEF Sound, Confirmed, Milestone, ArtifactSync, Definition, Ranking, Finalization
  <2>3. loop.step \in {Milestone, Definition, Ranking, Finalization}
    BY <1>1, <1>6 DEF Step, Milestone, ArtifactSync, Definition, Ranking, Finalization
  <2>4. QED BY <2>1, <2>2, <2>3
<1>7. ASSUME Confirmed(mem) PROVE Sound(Completed)
  BY <1>2, <1>4, <1>7, <1>6 DEF Sound, Confirmed, Milestone, ArtifactSync, Definition, Ranking,
     Finalization
<1>8. QED BY <1>2, <1>4, <1>6, <1>7

\* A step of the loop that leaves the loop in order and the file sound keeps PlanInv.
LEMMA PlanInvFromLoop ==
    ASSUME LoopInOrder', disk' \in Sprints, Sound(disk)', active' \in BOOLEAN, task' \in BOOLEAN,
           backlog' \in Backlogs /\ answers' \subseteq Answers /\ CopiesWait'
           /\ said' \in Nat /\ faults' \in Nat /\ said' + faults' <= MaxEvents
    PROVE  PlanInv'
BY DEF PlanInv, LoopInOrder, LoopTypes, Types

\* Entering the loop.
LEMMA EnterLoopPlans == ASSUME PlanInv, EnterLoop PROVE PlanInv'
<1>1. disk \in Sprints /\ Sound(disk) /\ Types /\ CopiesWait
  BY DEF PlanInv, Types
<1>2. backlog' \in Backlogs /\ answers' \subseteq Answers /\ CopiesWait'
      /\ said' \in Nat /\ faults' \in Nat /\ said' + faults' <= MaxEvents
  <2>1. UNCHANGED others /\ UNCHANGED faults
    BY DEF EnterLoop
  <2>2. QED BY <1>1, <2>1, OthersKept
<1>3. active' \in BOOLEAN /\ task' \in BOOLEAN
  BY <1>1 DEF EnterLoop, Types
<1>4. CASE disk.wrapUp
  <2>1. disk' = [disk EXCEPT !.status = "closeout"] /\ UNCHANGED <<mem, loop, req>>
    BY <1>4 DEF EnterLoop
  <2>2. disk' \in Sprints /\ Sound(disk)'
    BY <1>1, <2>1 DEF Sprints, Sound, Confirmed
  <2>3. LoopInOrder'
    BY <2>1 DEF PlanInv, Types, LoopInOrder, LoopTypes, LoopIsInOrder, Sound, Confirmed, Waiting
  <2>4. QED BY <1>2, <1>3, <2>2, <2>3, PlanInvFromLoop
<1>5. CASE ~disk.wrapUp
  <2> DEFINE m == IF disk.plan.status = "revision_requested" THEN ClearSync(disk) ELSE disk
  <2> DEFINE l == [Idle EXCEPT !.guarded = disk.status = "planning"]
  <2>1. Proceed(m, l) /\ UNCHANGED <<disk, active>>
    BY <1>5 DEF EnterLoop
  <2>2. l \in Loops
    <3>1. (disk.status = "planning") \in BOOLEAN
      OBVIOUS
    <3>2. QED BY <3>1, InitialTypes, PlanningAssumption DEF Loops
  <2>3. m \in Sprints /\ Sound(m) /\ m.status = disk.status
    <3>1. /\ ClearSync(disk) \in Sprints /\ ClearSync(disk).plan = disk.plan
          /\ ClearSync(disk).done = disk.done \ {ArtifactSync}
          /\ ClearSync(disk).status = disk.status
      BY <1>1, CopyTypes DEF Step
    <3>2. disk.plan.status = "revision_requested" => Sound(ClearSync(disk))
      BY <1>1, <3>1 DEF Sound, Confirmed, Milestone, ArtifactSync, Definition, Ranking,
         Finalization
    <3>3. QED BY <1>1, <3>1, <3>2
  <2>4. m.status \in {"planning", "blocked"}
    BY <2>3 DEF EnterLoop
  <2>5. LoopInOrder'
    <3> HIDE DEF m, l
    <3>1. QED BY <1>1, <2>1, <2>2, <2>3, <2>4, ProceedKeeps
  <2>6. disk' \in Sprints /\ Sound(disk)'
    BY <1>1, <2>1 DEF Sound, Confirmed
  <2>7. QED BY <1>2, <1>3, <2>5, <2>6, PlanInvFromLoop
<1>6. QED BY <1>4, <1>5

\* A step that failed or was not valid is asked again, and the sprint may end.
LEMMA StepIsReopenedPlans == ASSUME PlanInv, StepFails \/ StepIsInvalid PROVE PlanInv'
<1>1. Types /\ CopiesWait /\ Sound(disk) /\ Sound(mem) /\ mem \in Sprints /\ loop.step \in Step
  BY DEF PlanInv, Types, Loops
<1>2. loop.stage = "asking"
  BY DEF StepFails, StepIsInvalid, AskedUsably, Asked
<1>3. ~Waiting(mem)
  BY <1>2 DEF PlanInv, LoopIsInOrder
<1>4. \/ Reopen(mem, loop.step)
      \/ Reopen(Applied(mem), loop.step)
  BY DEF StepFails, StepIsInvalid
<1>5. Applied(mem) \in Sprints /\ Sound(Applied(mem)) /\ ~Waiting(Applied(mem))
  BY <1>1, <1>3, CopyTypes DEF Sound, Confirmed, Waiting
<1>6. LoopInOrder' /\ disk' \in Sprints /\ Sound(disk)'
  BY <1>1, <1>3, <1>4, <1>5, ReopenKeeps
<1>7. backlog' \in Backlogs /\ answers' \subseteq Answers /\ CopiesWait'
      /\ said' \in Nat /\ faults' \in Nat /\ said' + faults' <= MaxEvents
  <2>1. UNCHANGED others /\ UNCHANGED faults
    BY DEF StepFails, StepIsInvalid
  <2>2. QED BY <1>1, <2>1, OthersKept
<1>8. active' \in BOOLEAN /\ task' \in BOOLEAN
  BY <1>1 DEF StepFails, StepIsInvalid, Types
<1>9. QED BY <1>6, <1>7, <1>8, PlanInvFromLoop

\* A step that is done leads to the next one.
LEMMA StepIsDonePlans == ASSUME PlanInv, StepIsDone PROVE PlanInv'
<1>1. Types /\ CopiesWait /\ loop \in Loops
  BY DEF PlanInv, Types
<1>2. AskedValidly /\ disk' = Completed /\ Proceed(Completed, loop)
      /\ (loop.step = ArtifactSync => Confirmed(mem))
  BY DEF StepIsDone
<1>3. Completed \in Sprints /\ Sound(Completed) /\ Completed.status \in {"planning", "blocked"}
  BY <1>2, CompletedSound
<1>4. LoopInOrder'
  BY <1>1, <1>2, <1>3, ProceedKeeps
<1>5. disk' \in Sprints /\ Sound(disk)'
  BY <1>2, <1>3 DEF Sound, Confirmed
<1>6. backlog' \in Backlogs /\ answers' \subseteq Answers /\ CopiesWait'
      /\ said' \in Nat /\ faults' \in Nat /\ said' + faults' <= MaxEvents
  <2>1. UNCHANGED others /\ UNCHANGED faults
    BY DEF StepIsDone
  <2>2. QED BY <1>1, <2>1, OthersKept
<1>7. active' \in BOOLEAN /\ task' \in BOOLEAN
  BY <1>1 DEF StepIsDone, Types
<1>8. QED BY <1>4, <1>5, <1>6, <1>7, PlanInvFromLoop

\* The plan is pending in the file and in the copy when it is sent.
LEMMA PlanIsDraftedPlans == ASSUME PlanInv, PlanIsDrafted PROVE PlanInv'
<1>1. Types /\ CopiesWait /\ loop \in Loops /\ mem \in Sprints /\ Sound(mem)
  BY DEF PlanInv, Types
<1>2. AskedValidly /\ loop.step = ArtifactSync /\ ~Confirmed(mem) /\ loop.stage = "asking"
  BY DEF PlanIsDrafted, AskedValidly, AskedUsably, Asked
<1>3. /\ Completed \in Sprints /\ Completed.plan = mem.plan
      /\ Completed.done = mem.done \cup {loop.step}
      /\ Completed.status \in {"planning", "blocked"}
  BY <1>2, CompletedSound
<1> DEFINE drafted == [Completed EXCEPT !.plan = Drafted(@)]
<1>4. mem' = drafted /\ disk' = drafted
  BY DEF PlanIsDrafted, SaveBoth
<1>5. Drafted(Completed.plan) \in Plans /\ Drafted(Completed.plan).status = "pending"
  BY <1>3 DEF Drafted, Plans, Sprints
<1>6. /\ drafted \in Sprints /\ drafted.done = Completed.done
      /\ drafted.status = Completed.status /\ drafted.plan.status = "pending"
  BY <1>3, <1>5 DEF Sprints
<1>7. drafted.done = {Milestone, ArtifactSync}
  <2>1. mem.done \subseteq Step /\ mem.done \cap {Definition, Ranking, Finalization} = {}
    BY <1>1, <1>2 DEF Sprints, Sound
  <2>2. Milestone \in mem.done
    <3>1. 1 \in Step /\ 1 < loop.step
      BY <1>2 DEF Step, ArtifactSync
    <3>2. QED BY <1>2, <3>1 DEF PlanInv, LoopIsInOrder, Milestone
  <2>3. QED BY <1>2, <1>3, <1>6, <2>1, <2>2
        DEF Step, Milestone, ArtifactSync, Definition, Ranking, Finalization
<1>8. Sound(drafted) /\ Waiting(drafted)
  BY <1>3, <1>6, <1>7 DEF Sound, Confirmed, Waiting, Milestone, ArtifactSync, Definition,
     Ranking, Finalization
<1>9. loop' \in Loops /\ loop'.stage = "sending" /\ req' = Read
  BY <1>1 DEF PlanIsDrafted, Stage, Loops, Stages
<1>10. disk' \in Sprints /\ Sound(disk)' /\ mem' \in Sprints /\ Sound(mem)' /\ Waiting(mem)'
       /\ mem'.done = {Milestone, ArtifactSync} /\ mem'.status \in {"planning", "blocked"}
  BY <1>3, <1>4, <1>6, <1>7, <1>8 DEF Sound, Confirmed, Waiting
<1>11. LoopInOrder'
  BY <1>1, <1>9, <1>10, ReadTypes DEF LoopInOrder, LoopTypes, LoopIsInOrder
<1>12. backlog' \in Backlogs /\ answers' \subseteq Answers /\ CopiesWait'
       /\ said' \in Nat /\ faults' \in Nat /\ said' + faults' <= MaxEvents
  <2>1. UNCHANGED others /\ UNCHANGED faults
    BY DEF PlanIsDrafted
  <2>2. QED BY <1>1, <2>1, OthersKept
<1>13. active' \in BOOLEAN /\ task' \in BOOLEAN
  BY <1>1 DEF PlanIsDrafted, Types
<1>14. QED BY <1>10, <1>11, <1>12, <1>13, PlanInvFromLoop

\* With the last step done every step is, and the backlog is in the sprint.
LEMMA AllIsDone ==
    ASSUME PlanInv, AskedValidly, loop.step = Finalization
    PROVE  /\ Completed \in Sprints /\ Sound(Completed) /\ Completed.done = Step
           /\ Completed.status \in {"planning", "blocked"}
           /\ Completed.queue /\ Covered(backlog) /\ Confirmed(Completed)
<1>1. /\ Completed \in Sprints /\ Sound(Completed)
      /\ Completed.done = mem.done \cup {loop.step} /\ Completed.queue = Selected(backlog)
      /\ Completed.status \in {"planning", "blocked"}
  BY CompletedSound DEF Finalization, ArtifactSync
<1>2. loop.stage = "asking" /\ mem \in Sprints
  BY DEF AskedValidly, AskedUsably, Asked, PlanInv, Types
<1>3. \A s \in Step : s < loop.step => s \in mem.done
  BY <1>2 DEF PlanInv, LoopIsInOrder
<1>4. \A s \in Step : s < 5 \/ s = 5
  BY DEF Step
<1>5. Completed.done = Step
  BY <1>1, <1>2, <1>3, <1>4 DEF Finalization, Sprints, Step
<1>6. Confirmed(Completed)
  BY <1>1, <1>5 DEF Sound, Step, Finalization, Definition, Ranking
<1>7. ~Unfinished(Applied(mem))
  BY DEF AskedValidly, Invalid
<1>8. Applied(mem).queue = Selected(backlog)
  BY <1>2, CopyTypes DEF PlanInv, Step
<1>9. QED BY <1>1, <1>5, <1>6, <1>7, <1>8 DEF Unfinished

\* The last step is done: what was planned is reported.
LEMMA PlanningIsDonePlans == ASSUME PlanInv, PlanningIsDone PROVE PlanInv'
<1>1. Types /\ CopiesWait /\ loop \in Loops
  BY DEF PlanInv, Types
<1>2. /\ Completed \in Sprints /\ Sound(Completed) /\ Completed.done = Step
      /\ Completed.status \in {"planning", "blocked"} /\ Completed.queue
  BY AllIsDone DEF PlanningIsDone
<1>3. disk' = Completed /\ mem' = Completed /\ req' = Read
      /\ loop' \in Loops /\ loop'.stage = "reporting"
  BY <1>1 DEF PlanningIsDone, SaveBoth, Stage, Loops, Stages
<1>4. disk' \in Sprints /\ Sound(disk)' /\ mem' \in Sprints /\ Sound(mem)'
  BY <1>2, <1>3 DEF Sound, Confirmed
<1>5. LoopInOrder'
  BY <1>1, <1>2, <1>3, <1>4, ReadTypes DEF LoopInOrder, LoopTypes, LoopIsInOrder
<1>6. backlog' \in Backlogs /\ answers' \subseteq Answers /\ CopiesWait'
      /\ said' \in Nat /\ faults' \in Nat /\ said' + faults' <= MaxEvents
  <2>1. UNCHANGED others /\ UNCHANGED faults
    BY DEF PlanningIsDone
  <2>2. QED BY <1>1, <2>1, OthersKept
<1>7. active' \in BOOLEAN /\ task' \in BOOLEAN
  BY <1>1 DEF PlanningIsDone, Types
<1>8. QED BY <1>4, <1>5, <1>6, <1>7, PlanInvFromLoop

\* A document is missing.
LEMMA DocumentIsMissingPlans == ASSUME PlanInv, DocumentIsMissing PROVE PlanInv'
<1>1. Types /\ CopiesWait /\ loop \in Loops
  BY DEF PlanInv, Types
<1>2. /\ Completed \in Sprints /\ Sound(Completed) /\ Completed.done = Step
      /\ Confirmed(Completed)
  BY AllIsDone DEF DocumentIsMissing
<1>3. PICK s \in {ArtifactSync, Finalization} :
        IF MayReopen(Completed, s)
        THEN disk' = Reopened(Completed, s) /\ Proceed(Reopened(Completed, s), loop)
        ELSE disk' = Completed /\ Ends(Completed, loop, "blocked")
  BY DEF DocumentIsMissing
<1>4. s \in Step
  BY DEF Step, ArtifactSync, Finalization
<1>5. /\ Reopened(Completed, s) \in Sprints /\ Sound(Reopened(Completed, s))
      /\ Reopened(Completed, s).status = "planning"
  BY <1>1, <1>2, <1>4, CopyTypes DEF Sound, Confirmed
<1>6. LoopInOrder' /\ disk' \in Sprints /\ Sound(disk)'
  <2>1. CASE MayReopen(Completed, s)
    <3>1. disk' = Reopened(Completed, s) /\ Proceed(Reopened(Completed, s), loop)
      BY <1>3, <2>1
    <3>2. LoopInOrder'
      BY <1>1, <1>5, <3>1, ProceedKeeps
    <3>3. QED BY <1>5, <3>1, <3>2 DEF Sound, Confirmed
  <2>2. CASE ~MayReopen(Completed, s)
    <3>1. disk' = Completed /\ Ends(Completed, loop, "blocked")
      BY <1>3, <2>2
    <3>2. /\ mem' \in Sprints /\ mem'.status = "blocked" /\ mem'.done = Completed.done
          /\ mem'.plan = Completed.plan /\ loop' \in Loops /\ loop'.stage = "drafting"
          /\ req' = Read
      BY <1>1, <1>2, <3>1, EndsTypes
    <3>3. Sound(mem)' /\ ~Waiting(mem)' /\ Sound(disk)' /\ disk' \in Sprints
      BY <1>2, <3>1, <3>2 DEF Sound, Confirmed, Waiting
    <3>4. QED BY <1>1, <3>2, <3>3, ReadTypes DEF LoopInOrder, LoopTypes, LoopIsInOrder
  <2>3. QED BY <2>1, <2>2
<1>7. backlog' \in Backlogs /\ answers' \subseteq Answers /\ CopiesWait'
      /\ said' \in Nat /\ faults' \in Nat /\ said' + faults' <= MaxEvents
  <2>1. UNCHANGED others /\ Fault("docs")
    BY DEF DocumentIsMissing
  <2>2. QED BY <1>1, <2>1, FaultKept
<1>8. active' \in BOOLEAN /\ task' \in BOOLEAN
  BY <1>1 DEF DocumentIsMissing, Types
<1>9. QED BY <1>6, <1>7, <1>8, PlanInvFromLoop

\* The loop returns, its copy goes with it.
LEMMA ReturnsInOrder ==
    ASSUME Returns, req' \in [Step -> Requests]
    PROVE  LoopInOrder'
BY InitialTypes, PlanningAssumption DEF Returns, LoopInOrder, LoopTypes, LoopIsInOrder, Loops

\* The plan goes out, or the message is lost.
LEMMA SendingPlans == ASSUME PlanInv, PlanIsSent \/ SendFails PROVE PlanInv'
<1>1. Types /\ CopiesWait /\ loop \in Loops /\ mem \in Sprints /\ Sound(mem) /\ Sound(disk)
  BY DEF PlanInv, Types
<1>2. ASSUME Returns, UNCHANGED req PROVE LoopInOrder'
  BY <1>1, <1>2, ReturnsInOrder DEF Types
<1>3. ASSUME Ends(mem, loop, "failed") PROVE LoopInOrder'
  <2>1. /\ mem' \in Sprints /\ mem'.status = "failed" /\ mem'.done = mem.done
        /\ mem'.plan = mem.plan /\ loop' \in Loops /\ loop'.stage = "drafting" /\ req' = Read
    BY <1>1, <1>3, EndsTypes
  <2>2. Sound(mem)'
    BY <1>1, <2>1 DEF Sound, Confirmed
  <2>3. QED BY <1>1, <2>1, <2>2, ReadTypes DEF LoopInOrder, LoopTypes, LoopIsInOrder
<1>4. LoopInOrder'
  BY <1>2, <1>3 DEF PlanIsSent, SendFails
<1>5. disk' \in Sprints /\ Sound(disk)'
  BY <1>1 DEF PlanIsSent, SendFails, Types, Sound, Confirmed
<1>6. backlog' \in Backlogs /\ answers' \subseteq Answers /\ CopiesWait'
      /\ said' \in Nat /\ faults' \in Nat /\ said' + faults' <= MaxEvents
  <2>1. CASE PlanIsSent
    <3>1. UNCHANGED others /\ UNCHANGED faults
      BY <2>1 DEF PlanIsSent, others
    <3>2. QED BY <1>1, <3>1, OthersKept
  <2>2. CASE SendFails
    <3>1. UNCHANGED others /\ Fault("send")
      BY <2>2 DEF SendFails
    <3>2. QED BY <1>1, <3>1, FaultKept
  <2>3. QED BY <2>1, <2>2
<1>7. active' \in BOOLEAN /\ task' \in BOOLEAN
  BY <1>1 DEF PlanIsSent, SendFails, Types
<1>8. QED BY <1>4, <1>5, <1>6, <1>7, PlanInvFromLoop

\* The report of what was planned goes out and the sprint starts, or it does not.
LEMMA ReportingPlans == ASSUME PlanInv, SprintStarts \/ ReportFails PROVE PlanInv'
<1>1. Types /\ CopiesWait /\ loop \in Loops /\ mem \in Sprints /\ Sound(mem) /\ Sound(disk)
  BY DEF PlanInv, Types
<1>2. mem.done = Step
  BY DEF PlanInv, LoopIsInOrder, SprintStarts, ReportFails
<1>3. Confirmed(mem)
  BY <1>1, <1>2 DEF Sound, Step, Definition
<1>4. ASSUME SprintStarts PROVE LoopInOrder' /\ disk' \in Sprints /\ Sound(disk)'
  <2>1. disk' = [mem EXCEPT !.status = "running", !.resumable = FALSE]
        /\ Returns /\ UNCHANGED req
    BY <1>4 DEF SprintStarts
  <2>2. disk' \in Sprints /\ Sound(disk)'
    BY <1>1, <1>3, <2>1 DEF Sprints, Sound, Confirmed
  <2>3. LoopInOrder'
    BY <1>1, <2>1, ReturnsInOrder DEF Types
  <2>4. QED BY <2>2, <2>3
<1>5. ASSUME ReportFails PROVE LoopInOrder' /\ disk' \in Sprints /\ Sound(disk)'
  <2>1. Ends(mem, loop, "blocked") /\ UNCHANGED disk
    BY <1>5 DEF ReportFails
  <2>2. /\ mem' \in Sprints /\ mem'.status = "blocked" /\ mem'.done = mem.done
        /\ mem'.plan = mem.plan /\ loop' \in Loops /\ loop'.stage = "drafting" /\ req' = Read
    BY <1>1, <2>1, EndsTypes
  <2>3. Sound(mem)' /\ ~Waiting(mem)'
    BY <1>1, <1>3, <2>2 DEF Sound, Confirmed, Waiting
  <2>4. LoopInOrder'
    BY <1>1, <2>2, <2>3, ReadTypes DEF LoopInOrder, LoopTypes, LoopIsInOrder
  <2>5. disk' \in Sprints /\ Sound(disk)'
    BY <1>1, <2>1 DEF Types, Sound, Confirmed
  <2>6. QED BY <2>4, <2>5
<1>6. LoopInOrder' /\ disk' \in Sprints /\ Sound(disk)'
  BY <1>4, <1>5
<1>7. backlog' \in Backlogs /\ answers' \subseteq Answers /\ CopiesWait'
      /\ said' \in Nat /\ faults' \in Nat /\ said' + faults' <= MaxEvents
  <2>1. CASE SprintStarts
    <3>1. UNCHANGED others /\ UNCHANGED faults
      BY <2>1 DEF SprintStarts
    <3>2. QED BY <1>1, <3>1, OthersKept
  <2>2. CASE ReportFails
    <3>1. UNCHANGED others /\ Fault("report")
      BY <2>2 DEF ReportFails
    <3>2. QED BY <1>1, <3>1, FaultKept
  <2>3. QED BY <2>1, <2>2
<1>8. active' \in BOOLEAN /\ task' \in BOOLEAN
  BY <1>1 DEF SprintStarts, ReportFails, Types
<1>9. QED BY <1>6, <1>7, <1>8, PlanInvFromLoop

\* An end is saved, and reported.
LEMMA EndPlans == ASSUME PlanInv, EndIsSaved \/ EndIsReported PROVE PlanInv'
<1>1. Types /\ CopiesWait /\ loop \in Loops /\ mem \in Sprints /\ Sound(mem) /\ Sound(disk)
  BY DEF PlanInv, Types
<1>2. ASSUME EndIsSaved PROVE LoopInOrder' /\ disk' \in Sprints /\ Sound(disk)'
  <2>1. disk' = mem /\ loop' \in Loops /\ loop'.stage = "ending" /\ UNCHANGED <<mem, req>>
        /\ loop.stage = "drafting"
    BY <1>1, <1>2 DEF EndIsSaved, Stage, Loops, Stages
  <2>2. LoopInOrder'
    BY <1>1, <2>1
    DEF PlanInv, Types, LoopInOrder, LoopTypes, LoopIsInOrder, Sound, Confirmed, Waiting
  <2>3. disk' \in Sprints /\ Sound(disk)'
    BY <1>1, <2>1 DEF Sound, Confirmed
  <2>4. QED BY <2>2, <2>3
<1>3. ASSUME EndIsReported PROVE LoopInOrder' /\ disk' \in Sprints /\ Sound(disk)'
  <2>1. Returns /\ UNCHANGED <<disk, req>>
    BY <1>3 DEF EndIsReported
  <2>2. QED BY <1>1, <2>1, ReturnsInOrder DEF Types, Sound, Confirmed
<1>4. LoopInOrder' /\ disk' \in Sprints /\ Sound(disk)'
  BY <1>2, <1>3
<1>5. backlog' \in Backlogs /\ answers' \subseteq Answers /\ CopiesWait'
      /\ said' \in Nat /\ faults' \in Nat /\ said' + faults' <= MaxEvents
  <2>1. UNCHANGED others /\ UNCHANGED faults
    BY DEF EndIsSaved, EndIsReported
  <2>2. QED BY <1>1, <2>1, OthersKept
<1>6. active' \in BOOLEAN /\ task' \in BOOLEAN
  BY <1>1 DEF EndIsSaved, EndIsReported, Types
<1>7. QED BY <1>4, <1>5, <1>6, PlanInvFromLoop

\* What leaves the loop alone leaves it in order.
LEMMA LoopUntouched ==
    ASSUME PlanInv, UNCHANGED <<mem, loop>>, req' \in [Step -> Requests]
    PROVE  LoopInOrder'
BY DEF PlanInv, Types, LoopInOrder, LoopTypes, LoopIsInOrder, Sound, Confirmed, Waiting

\* Reports write what the loop reads of backlog and research, never the plan.
LEMMA ReportPlans == ASSUME PlanInv, Report PROVE PlanInv'
<1>1. Types /\ CopiesWait /\ disk \in Sprints /\ Sound(disk)
  BY DEF PlanInv, Types
<1> DEFINE Kept == /\ req' \in [Step -> Requests] /\ disk' \in Sprints /\ Sound(disk)'
                   /\ backlog' \in Backlogs
                   /\ UNCHANGED <<mem, loop, active, answers, task, said, faults>>
<1>2. ASSUME ResearchReports PROVE Kept
  <2>1. req' \in [Step -> Requests]
    <3>1. req[Milestone] \in Requests
      BY <1>1 DEF Types, Step, Milestone
    <3>2. /\ [req[Milestone] EXCEPT !.research = FALSE] \in Requests
          /\ [req[Milestone] EXCEPT !.status = "blocked"] \in Requests
      BY <3>1 DEF Requests, Terminal
    <3>3. QED BY <1>1, <1>2, <3>2 DEF ResearchReports, Types, Step, Milestone
  <2>2. disk' = disk \/ \E r \in {"degraded", "sourced"} : disk' = [disk EXCEPT !.research = r]
    BY <1>2 DEF ResearchReports
  <2>3. disk' \in Sprints /\ Sound(disk)'
    BY <1>1, <2>2 DEF Sprints, Sound, Confirmed
  <2>4. QED BY <1>1, <1>2, <2>1, <2>3 DEF ResearchReports, others, Types
<1>3. ASSUME NEW s \in Step, PlannerReports(s) PROVE Kept
  <2>1. PICK b \in Backlogs, status \in Terminal, plan \in BOOLEAN, persisted \in BOOLEAN,
             titled \in BOOLEAN :
          /\ backlog' = b
          /\ req' = [req EXCEPT ![s] = [@ EXCEPT !.status = status, !.plan = plan,
                                          !.persisted = persisted, !.titled = titled]]
          /\ disk' = [disk EXCEPT !.queue = IF status = "completed" THEN Selected(b) ELSE @]
    BY <1>3 DEF PlannerReports
  <2>2. req[s] \in Requests
    BY <1>1 DEF Types
  <2>3. [req[s] EXCEPT !.status = status, !.plan = plan, !.persisted = persisted,
                       !.titled = titled] \in Requests
    BY <2>2 DEF Requests, Terminal
  <2>4. req' \in [Step -> Requests]
    BY <1>1, <2>1, <2>3 DEF Types
  <2>5. Selected(b) \in BOOLEAN
    BY DEF Selected
  <2>6. disk' \in Sprints /\ Sound(disk)'
    BY <1>1, <2>1, <2>5 DEF Sprints, Sound, Confirmed
  <2>7. QED BY <1>3, <2>1, <2>4, <2>6 DEF PlannerReports
<1>4. Kept
  BY <1>2, <1>3 DEF Report
<1>5. LoopInOrder'
  BY <1>4, LoopUntouched
<1>6. QED BY <1>1, <1>4, <1>5, PlanInvFromLoop DEF Types, CopiesWait

\* The user answers a plan that waits, and the answer holds a copy of it.
LEMMA UserAnswersPlans ==
    ASSUME PlanInv, NEW kind \in {"confirm", "change"}, UserAnswers(kind)
    PROVE  PlanInv'
<1>1. Types /\ CopiesWait /\ disk \in Sprints /\ Sound(disk)
  BY DEF PlanInv, Types
<1>2. said' = said + 1 /\ said' + faults <= MaxEvents /\ said' \in 1..MaxEvents
  BY <1>1, PlanningAssumption DEF UserAnswers, Types, PlanningAssumption
<1> DEFINE a == [kind |-> kind, id |-> said', copy |-> disk]
<1>3. answers' = answers \cup {a} /\ Waiting(disk) /\ disk.status # "running"
      /\ UNCHANGED <<disk, mem, loop, req, backlog, active, task, faults>>
  BY DEF UserAnswers
<1>4. a \in Answers /\ a.copy = disk
  BY <1>1, <1>2 DEF Answers
<1>5. answers' \subseteq Answers
  BY <1>1, <1>3, <1>4 DEF Types
<1>6. CopiesWait'
  <2>1. ASSUME NEW b \in answers'
        PROVE  Sound(b.copy) /\ Waiting(b.copy) /\ b.copy.status # "running"
    BY <1>1, <1>3, <1>4, <2>1 DEF CopiesWait
  <2>2. QED BY <2>1 DEF CopiesWait, Sound, Confirmed, Waiting
<1>7. LoopInOrder'
  BY <1>1, <1>3, LoopUntouched DEF Types
<1>8. disk' \in Sprints /\ Sound(disk)'
  BY <1>1, <1>3 DEF Sound, Confirmed
<1>9. QED BY <1>1, <1>2, <1>3, <1>5, <1>6, <1>7, <1>8, PlanInvFromLoop DEF Types

\* What an answer writes, if anything: a confirmed plan, or one to be revised.
LEMMA AnswerWrites ==
    ASSUME PlanInv, NEW a \in answers, AnswerIsApplied(a)
    PROVE  /\ Current(a) \in Sprints /\ Sound(Current(a))
           /\ \/ ~Waiting(Current(a)) /\ UNCHANGED <<disk, task>>
              \/ /\ Waiting(Current(a)) /\ task' = TRUE
                 /\ disk' \in Sprints /\ disk'.status = Current(a).status
                 /\ Sound(disk)' /\ ~Waiting(disk)'
                 /\ disk'.done \subseteq Current(a).done /\ Milestone \in disk'.done
                 /\ Current(a).plan.changes \subseteq disk'.plan.changes
<1>1. a \in Answers /\ disk \in Sprints /\ Sound(disk)
      /\ Sound(a.copy) /\ Waiting(a.copy) /\ a.copy.status # "running"
  BY DEF PlanInv, Types, CopiesWait
<1>2. Current(a) \in Sprints /\ Sound(Current(a))
  BY <1>1 DEF Current, Answers
<1>3. Waiting(Current(a)) => Milestone \in Current(a).done /\ Current(a).status # "running"
  BY <1>1, <1>2 DEF Sound, Waiting, Confirmed
<1>4. CASE ~Waiting(Current(a))
  BY <1>2, <1>4 DEF AnswerIsApplied, StillOpen
<1>5. CASE Waiting(Current(a)) /\ a.kind = "confirm"
  <2>1. disk' = [Current(a) EXCEPT !.plan.status = "confirmed"] /\ task' = TRUE
    BY <1>5 DEF AnswerIsApplied, StillOpen
  <2>2. /\ disk' \in Sprints /\ disk'.status = Current(a).status
        /\ disk'.plan.status = "confirmed" /\ disk'.done = Current(a).done
        /\ disk'.plan.changes = Current(a).plan.changes
    BY <1>2, <2>1 DEF Sprints, Plans
  <2>3. Sound(disk)' /\ ~Waiting(disk)'
    BY <1>2, <1>5, <2>2 DEF Sound, Confirmed, Waiting
  <2>4. QED BY <1>2, <1>3, <1>5, <2>1, <2>2, <2>3
<1>6. CASE Waiting(Current(a)) /\ a.kind # "confirm"
  <2> DEFINE changed == [Current(a) EXCEPT !.plan.status = "revision_requested",
                                           !.plan.changes = @ \cup {a.id}]
  <2>1. disk' = ClearSync(changed) /\ task' = TRUE
    BY <1>6 DEF AnswerIsApplied, StillOpen
  <2>2. /\ changed \in Sprints /\ changed.status = Current(a).status
        /\ changed.plan.status = "revision_requested" /\ changed.done = Current(a).done
        /\ Current(a).plan.changes \subseteq changed.plan.changes
    BY <1>1, <1>2 DEF Sprints, Plans, Answers
  <2>3. /\ disk' \in Sprints /\ disk'.status = Current(a).status
        /\ disk'.plan.status = "revision_requested"
        /\ disk'.done = Current(a).done \ {ArtifactSync}
        /\ Current(a).plan.changes \subseteq disk'.plan.changes
    BY <2>1, <2>2 DEF ClearSync, Sprints
  <2>4. Sound(disk)' /\ ~Waiting(disk)'
    BY <1>2, <1>3, <1>6, <2>3 DEF Sound, Confirmed, Waiting, Milestone, ArtifactSync,
       Definition, Ranking, Finalization
  <2>5. QED BY <1>2, <1>3, <1>6, <2>1, <2>3, <2>4 DEF Milestone, ArtifactSync
<1>7. QED BY <1>4, <1>5, <1>6

\* The answer is applied to the file, or to the copy.
LEMMA AnswerIsAppliedPlans ==
    ASSUME PlanInv, NEW a \in answers, AnswerIsApplied(a) PROVE PlanInv'
<1>1. Types /\ CopiesWait /\ disk \in Sprints /\ Sound(disk)
  BY DEF PlanInv, Types
<1>2. UNCHANGED <<mem, loop, req, backlog, active, said, faults>> /\ answers' \subseteq answers
  BY DEF AnswerIsApplied
<1>3. disk' \in Sprints /\ Sound(disk)' /\ task' \in BOOLEAN
  BY <1>1, AnswerWrites DEF Types, Sound, Confirmed
<1>4. LoopInOrder'
  BY <1>1, <1>2, LoopUntouched DEF Types
<1>5. CopiesWait'
  BY <1>1, <1>2 DEF CopiesWait, Sound, Confirmed, Waiting
<1>6. QED BY <1>1, <1>2, <1>3, <1>4, <1>5, PlanInvFromLoop DEF Types

\* The operator's commands and crashes change no plan.
LEMMA OperatorPlans == ASSUME PlanInv, Stop \/ Restart \/ Crash PROVE PlanInv'
<1>1. Types /\ CopiesWait /\ disk \in Sprints /\ Sound(disk)
  BY DEF PlanInv, Types
<1>2. active' \in BOOLEAN /\ task' \in BOOLEAN /\ UNCHANGED req
  BY <1>1 DEF Stop, Restart, Crash, Types
<1>3. disk' \in Sprints /\ Sound(disk)'
  BY <1>1 DEF Stop, Restart, Crash, Sprints, Sound, Confirmed
<1>4. LoopInOrder'
  <2>1. CASE Stop \/ Restart
    <3>1. UNCHANGED <<mem, loop>>
      BY <2>1 DEF Stop, Restart
    <3>2. LoopInOrder'
      BY <1>1, <1>2, <3>1, LoopUntouched DEF Types
    <3>3. QED BY <3>2
  <2>2. CASE Crash
    BY <1>1, <1>2, <2>2, ReturnsInOrder DEF Crash, Types
  <2>3. QED BY <2>1, <2>2
<1>5. \E kind : Fault(kind)
  BY DEF Stop, Restart, Crash
<1>6. /\ said' \in Nat /\ faults' \in Nat /\ said' + faults' <= MaxEvents
  BY <1>1, <1>5, PlanningAssumption
  DEF Stop, Restart, Crash, Fault, others, Types, PlanningAssumption
<1>7. backlog' \in Backlogs /\ answers' \subseteq answers
  BY <1>1 DEF Stop, Restart, Crash, others, Types
<1>8. answers' \subseteq Answers /\ CopiesWait'
  BY <1>1, <1>7 DEF Types, CopiesWait, Sound, Confirmed, Waiting
<1>9. QED BY <1>2, <1>3, <1>4, <1>6, <1>7, <1>8, PlanInvFromLoop

\* PlanInv holds at first,
LEMMA PlanInvInit == ASSUME Init PROVE PlanInv
<1>1. Types
  <2>1. MaxEvents \in Nat
    BY PlanningAssumption DEF PlanningAssumption
  <2>2. req \in [Step -> Requests]
    BY InitialTypes, PlanningAssumption DEF Init
  <2>3. disk \in Sprints /\ mem \in Sprints /\ loop \in Loops
    BY InitialTypes, PlanningAssumption DEF Init
  <2>4. backlog \in Backlogs /\ active \in BOOLEAN /\ task \in BOOLEAN /\ answers \subseteq Answers
    BY DEF Init, Backlogs
  <2>5. said = 0 /\ faults = 0
    BY DEF Init
  <2>6. said \in Nat /\ faults \in Nat /\ said + faults <= MaxEvents
    BY <2>1, <2>5
  <2>7. QED BY <2>2, <2>3, <2>4, <2>6 DEF Types
<1>2. Sound(disk) /\ Sound(mem) /\ CopiesWait
  BY InitialTypes, PlanningAssumption DEF Init, CopiesWait
<1>3. LoopIsInOrder
  BY InitialTypes, PlanningAssumption DEF Init, LoopIsInOrder
<1>4. QED BY <1>1, <1>2, <1>3 DEF PlanInv

\* and every step keeps it.
LEMMA PlanInvStep == ASSUME PlanInv, [Next]_vars PROVE PlanInv'
<1>1. CASE UNCHANGED vars
  BY <1>1 DEF vars, PlanInv, Types, CopiesWait, LoopIsInOrder, Sound, Confirmed, Waiting
<1>2. CASE LoopStep
  BY <1>2, EnterLoopPlans, StepIsReopenedPlans, PlanIsDraftedPlans, StepIsDonePlans,
     PlanningIsDonePlans, SendingPlans, ReportingPlans, EndPlans DEF LoopStep
<1>3. CASE Report
  BY <1>3, ReportPlans
<1>4. CASE Answer
  BY <1>4, AnswerIsAppliedPlans DEF Answer
<1>5. CASE \E kind \in {"confirm", "change"} : UserAnswers(kind)
  BY <1>5, UserAnswersPlans
<1>6. CASE DocumentIsMissing \/ SendFails \/ ReportFails
  BY <1>6, DocumentIsMissingPlans, SendingPlans, ReportingPlans
<1>7. CASE Stop \/ Restart \/ Crash
  BY <1>7, OperatorPlans
<1>8. QED BY <1>1, <1>2, <1>3, <1>4, <1>5, <1>6, <1>7 DEF Next

\* Files, copies and requests have their types, whatever fails and however late an
\* answer comes (_run_initial_sprint_phase and its files).
THEOREM PlanningTypes == Spec => []TypeOK
<1>1. PlanInv => TypeOK
  <2>1. Types => TypeOK
    BY DEF Types, TypeOK, Loops, Answers
  <2>2. QED BY <2>1 DEF PlanInv
<1>2. QED BY <1>1, PlanInvInit, PlanInvStep, PTL DEF Spec

\* Backlog work is accepted, and the sprint starts, only from a plan that the user
\* confirmed: no late answer and no old copy gets around the gate of
\* _run_initial_sprint_phase.
THEOREM PlanComesFirst == Spec => []PlanFirst
<1>1. PlanInv => PlanFirst
  BY DEF PlanInv, PlanFirst, Sound
<1>2. QED BY <1>1, PlanInvInit, PlanInvStep, PTL DEF Spec

-----------------------------------------------------------------------------
(* A sprint starts from what was planned: StartInv *)

\* Steps one and two are in order when the second one is asked.
ReadIsUndone(m) ==
    /\ \A s \in Step : Read[s].status = "open" => s \notin m.done
    /\ Read[ArtifactSync].status = "open" => Milestone \in m.done
NoneReadOfTwo == Read[Milestone].status # "open" /\ Read[ArtifactSync].status # "open"

\* The sprint's end is prepared with no request open of what is done.
LEMMA EndsStart ==
    ASSUME Types, NEW m \in Sprints, NEW l \in Loops, NEW status \in {"blocked", "failed"},
           Ends(m, l, status), ReadIsUndone(m), NoneReadOfTwo,
           \/ disk'.plan = m.plan /\ disk'.done = m.done
           \/ Orphaned'
           \/ status = "failed" /\ \A s \in Step : Read[s].status = "open" => s \notin disk'.done
    PROVE  StartInv'
<1>1. /\ mem'.status = status /\ mem'.done = m.done /\ mem'.plan = m.plan
      /\ loop'.stage = "drafting" /\ req' = Read
  BY EndsTypes
<1>2. \A s \in Step : Open(s)' <=> Read[s].status = "open"
  BY <1>1 DEF Open
<1>3. FileIsHeld'
  BY <1>1, <1>2 DEF FileIsHeld, InStep, NoneOpenOf
<1>4. OpenIsUndone'
  BY <1>1, <1>2 DEF OpenIsUndone, ReadIsUndone, NoneReadOfTwo, NoneOpenOf, Step, Milestone,
     ArtifactSync
<1>5. StartsPlanned'
  BY <1>1 DEF StartsPlanned
<1>6. QED BY <1>3, <1>4, <1>5 DEF StartInv

\* The loop goes on from a copy that is in the file.
LEMMA ProceedStart ==
    ASSUME Types, NEW m \in Sprints, NEW l \in Loops, Sound(m), Proceed(m, l),
           ReadIsUndone(m), disk'.plan = m.plan, disk'.done = m.done
    PROVE  StartInv'
<1>0. Milestone = 1 /\ ArtifactSync = 2 /\ 1 \in Step /\ 2 \in Step
  BY DEF Milestone, ArtifactSync, Step
<1>1. ASSUME Waiting(m), Returns, req' = Read PROVE StartInv'
  <2>1. loop'.stage = "idle"
    BY <1>1, InitialTypes, PlanningAssumption DEF Returns
  <2>2. \A s \in Step : Open(s)' <=> Read[s].status = "open"
    BY <1>1 DEF Open
  <2>3. Milestone \in m.done /\ ArtifactSync \in m.done
    BY <1>1 DEF Sound, Waiting
  <2>4. NoneOpenOf(disk.done)' /\ ~Open(Milestone)' /\ ~Open(ArtifactSync)'
    BY <1>0, <2>2, <2>3 DEF NoneOpenOf, ReadIsUndone
  <2>5. QED BY <2>1, <2>4 DEF StartInv, FileIsHeld, OpenIsUndone, StartsPlanned
<1>2. ASSUME m.done = Step, Ends(m, l, "blocked") PROVE StartInv'
  <2>1. NoneReadOfTwo
    BY <1>0, <1>2 DEF NoneReadOfTwo, ReadIsUndone
  <2>2. QED BY <1>2, <2>1, EndsStart
<1>3. ASSUME NEW s \in Step, s \notin m.done, \A t \in Step : t < s => t \in m.done, Ask(m, l, s)
      PROVE  StartInv'
  <2>1. loop'.stage = "asking" /\ loop'.step = s /\ \A t \in Step \ {s} : req'[t] = Read[t]
    BY <1>3, AskTypes
  <2>2. mem' = m
    BY <1>3 DEF Ask
  <2>3. \A t \in Step \ {s} : Open(t)' <=> Read[t].status = "open"
    BY <2>1 DEF Open
  <2>4. NoneOpenOf(m.done)'
    BY <1>3, <2>3 DEF NoneOpenOf, ReadIsUndone
  <2>5. Open(ArtifactSync)' => Milestone \in m.done
    <3>1. CASE s = ArtifactSync
      BY <1>0, <1>3, <3>1
    <3>2. CASE s # ArtifactSync
      BY <1>0, <2>3, <3>2 DEF ReadIsUndone
    <3>3. QED BY <3>1, <3>2
  <2>6. ASSUME NEW t \in {Milestone, ArtifactSync}, Open(t)' PROVE t = s
    <3>1. SUFFICES ASSUME t # s PROVE FALSE
      OBVIOUS
    <3>2. t \in Step /\ Read[t].status = "open" /\ t \notin m.done
      BY <1>0, <2>3, <2>6, <3>1 DEF ReadIsUndone
    <3>3. s < t
      BY <1>3, <3>1, <3>2 DEF Step
    <3>4. s = Milestone /\ t = ArtifactSync
      BY <1>0, <3>3 DEF Step
    <3>5. QED BY <1>3, <2>5, <2>6, <3>4
  <2>7. FileIsHeld'
    BY <2>1, <2>2 DEF FileIsHeld, InStep
  <2>8. OpenIsUndone'
    BY <2>1, <2>2, <2>4, <2>5, <2>6 DEF OpenIsUndone, NoneOpenOf
  <2>9. StartsPlanned'
    BY <2>1 DEF StartsPlanned
  <2>10. QED BY <2>7, <2>8, <2>9 DEF StartInv
<1>4. QED BY <1>1, <1>2, <1>3, ProceedCases

\* Where a step was answered, what is open is of later steps and not done.
LEMMA AskedReads ==
    ASSUME IInv, Asked
    PROVE  /\ loop.stage = "asking" /\ loop.step \in Step
           /\ Read[loop.step].status # "open"
           /\ \A s \in Step : Read[s].status = "open" => s \notin mem.done /\ s # loop.step
           /\ NoneReadOfTwo
           /\ InStep \/ Orphaned
<1>1. loop.stage = "asking" /\ loop.step \in Step /\ Types /\ req[loop.step].status \in Terminal
  BY DEF Asked, IInv, PlanInv, Types, Loops
<1>2. /\ \A s \in Step : Open(s) => s \notin mem.done
      /\ \A s \in {Milestone, ArtifactSync} : Open(s) => s = loop.step
      /\ InStep \/ Orphaned
  BY <1>1 DEF IInv, StartInv, OpenIsUndone, NoneOpenOf, FileIsHeld
<1>3. /\ \A s \in Step : Read[s].status = "open" => Open(s)
      /\ Read[loop.step].status # "open"
  BY <1>1, ReadTypes
<1>4. {Milestone, ArtifactSync} \subseteq Step
  BY DEF Milestone, ArtifactSync, Step
<1>5. QED BY <1>1, <1>2, <1>3, <1>4 DEF NoneReadOfTwo

\* Entering the loop: what is open is not done, or nothing resumes the sprint.
LEMMA EnterLoopStart == ASSUME IInv, EnterLoop PROVE StartInv'
<1>1. disk \in Sprints /\ Sound(disk) /\ Types /\ loop.stage = "idle"
  BY DEF IInv, PlanInv, Types, EnterLoop
<1>2. ~Stranded
  BY DEF EnterLoop, Stranded, Orphaned
<1>3. NoneOpenOf(disk.done) /\ (Open(ArtifactSync) => Milestone \in disk.done)
  BY <1>1, <1>2 DEF IInv, StartInv, OpenIsUndone
<1>4. CASE disk.wrapUp
  <2>1. disk' = [disk EXCEPT !.status = "closeout"] /\ UNCHANGED <<mem, loop, req, answers>>
    BY <1>4 DEF EnterLoop, others
  <2>2. disk'.done = disk.done
    BY <1>1, <2>1 DEF Sprints
  <2>3. QED BY <1>1, <1>3, <2>1, <2>2
        DEF IInv, StartInv, FileIsHeld, OpenIsUndone, NoneOpenOf, Open, StartsPlanned
<1>5. CASE ~disk.wrapUp
  <2> DEFINE m == IF disk.plan.status = "revision_requested" THEN ClearSync(disk) ELSE disk
  <2> DEFINE l == [Idle EXCEPT !.guarded = disk.status = "planning"]
  <2>1. Proceed(m, l) /\ UNCHANGED <<disk, active>>
    BY <1>5 DEF EnterLoop
  <2>2. l \in Loops
    <3>1. (disk.status = "planning") \in BOOLEAN
      OBVIOUS
    <3>2. QED BY <3>1, InitialTypes, PlanningAssumption DEF Loops
  <2>3. m \in Sprints /\ Sound(m) /\ m.plan = disk.plan /\ m.done = disk.done
    <3>1. /\ ClearSync(disk) \in Sprints /\ ClearSync(disk).plan = disk.plan
          /\ ClearSync(disk).done = disk.done \ {ArtifactSync}
          /\ ClearSync(disk).status = disk.status
      BY <1>1, CopyTypes DEF Step
    <3>2. disk.plan.status = "revision_requested" => ArtifactSync \notin disk.done
      BY <1>1 DEF Sound
    <3>3. disk.plan.status = "revision_requested" =>
            ClearSync(disk).done = disk.done /\ Sound(ClearSync(disk))
      BY <1>1, <3>1, <3>2 DEF Sound, Confirmed
    <3>4. QED BY <1>1, <3>1, <3>3
  <2>4. ReadIsUndone(m)
    BY <1>1, <1>3, <2>3, ReadTypes DEF ReadIsUndone, NoneOpenOf, Step, ArtifactSync
  <2>5. disk'.plan = m.plan /\ disk'.done = m.done
    BY <2>1, <2>3
  <2> HIDE DEF m, l
  <2>6. QED BY <1>1, <2>1, <2>2, <2>3, <2>4, <2>5, ProceedStart
<1>6. QED BY <1>4, <1>5

\* A step is reopened, or was reopened too often.
LEMMA ReopenStart ==
    ASSUME IInv, Asked, NEW m \in Sprints, m.plan = mem.plan, m.done = mem.done,
           Reopen(m, loop.step), UNCHANGED active
    PROVE  StartInv'
<1>1. Types /\ loop \in Loops /\ Sound(mem) /\ mem \in Sprints
  BY DEF IInv, PlanInv, Types
<1>2. /\ loop.step \in Step /\ NoneReadOfTwo /\ (InStep \/ Orphaned)
      /\ \A s \in Step : Read[s].status = "open" => s \notin m.done
  BY AskedReads
<1>3. CASE MayReopen(m, loop.step)
  <2> DEFINE n == Reopened(m, loop.step)
  <2> DEFINE l == [loop EXCEPT !.first = FALSE]
  <2>1. disk' = n /\ Proceed(n, l)
    BY <1>3 DEF Reopen
  <2>2. l \in Loops
    BY <1>1 DEF Loops
  <2>3. n \in Sprints /\ n.plan = m.plan /\ n.done = m.done /\ n.status = "planning"
    BY <1>1, <1>2, CopyTypes
  <2>4. Sound(n)
    BY <1>1, <2>3 DEF Sound, Confirmed
  <2>5. ReadIsUndone(n)
    BY <1>2, <2>3 DEF ReadIsUndone, NoneReadOfTwo
  <2> HIDE DEF n, l
  <2>6. QED BY <1>1, <2>1, <2>2, <2>3, <2>4, <2>5, ProceedStart
<1>4. CASE ~MayReopen(m, loop.step)
  <2>1. Ends(m, loop, "blocked") /\ UNCHANGED disk
    BY <1>4 DEF Reopen
  <2>2. ReadIsUndone(m)
    BY <1>2 DEF ReadIsUndone, NoneReadOfTwo
  <2>3. (disk'.plan = m.plan /\ disk'.done = m.done) \/ Orphaned'
    BY <1>2, <2>1 DEF InStep, Orphaned
  <2>4. QED BY <1>1, <1>2, <2>1, <2>2, <2>3, EndsStart
<1>5. QED BY <1>3, <1>4

\* A step that failed or was not valid.
LEMMA StepIsReopenedStart == ASSUME IInv, StepFails \/ StepIsInvalid PROVE StartInv'
<1>1. Types /\ mem \in Sprints /\ loop.step \in Step
  BY DEF IInv, PlanInv, Types, Loops
<1>2. /\ Applied(mem) \in Sprints /\ Applied(mem).plan = mem.plan
      /\ Applied(mem).done = mem.done
  BY <1>1, CopyTypes
<1>3. Asked /\ UNCHANGED active
  BY DEF StepFails, StepIsInvalid, AskedUsably
<1>4. Reopen(mem, loop.step) \/ Reopen(Applied(mem), loop.step)
  BY DEF StepFails, StepIsInvalid
<1>5. QED BY <1>1, <1>2, <1>3, <1>4, ReopenStart

\* What is open when a step is done is of other steps, and not done.
LEMMA CompletedReads ==
    ASSUME IInv, AskedValidly
    PROVE  /\ \A s \in Step : Read[s].status = "open" => s \notin Completed.done
           /\ NoneReadOfTwo /\ ReadIsUndone(Completed)
<1>1. Asked
  BY DEF AskedValidly, AskedUsably
<1>2. Completed.done = mem.done \cup {loop.step}
  BY CompletedSound DEF IInv
<1>3. \A s \in Step : Read[s].status = "open" => s \notin mem.done /\ s # loop.step
  BY <1>1, AskedReads
<1>4. NoneReadOfTwo
  BY <1>1, AskedReads
<1>5. QED BY <1>2, <1>3, <1>4 DEF ReadIsUndone, NoneReadOfTwo

\* A step that is done.
LEMMA StepIsDoneStart == ASSUME IInv, StepIsDone PROVE StartInv'
<1>1. AskedValidly /\ disk' = Completed /\ Proceed(Completed, loop)
      /\ (loop.step = ArtifactSync => Confirmed(mem))
  BY DEF StepIsDone
<1>2. Completed \in Sprints /\ Sound(Completed)
  BY <1>1, CompletedSound DEF IInv
<1>3. ReadIsUndone(Completed)
  BY <1>1, CompletedReads
<1>4. Types /\ loop \in Loops
  BY DEF IInv, PlanInv, Types
<1>5. QED BY <1>1, <1>2, <1>3, <1>4, ProceedStart

\* A plan that waits for the user.
LEMMA PlanIsDraftedStart == ASSUME IInv, PlanIsDrafted PROVE StartInv'
<1>1. AskedValidly /\ loop \in Loops /\ disk' = mem' /\ req' = Read
      /\ mem' = [Completed EXCEPT !.plan = Drafted(@)]
  BY DEF PlanIsDrafted, SaveBoth, IInv, PlanInv, Types
<1>2. loop'.stage = "sending"
  BY <1>1 DEF PlanIsDrafted, Stage, Loops
<1>3. mem'.done = Completed.done
  BY <1>1, CompletedSound DEF IInv, Sprints
<1>4. \A s \in Step : Open(s)' <=> Read[s].status = "open"
  BY <1>1 DEF Open
<1>5. NoneOpenOf(mem.done)' /\ ~Open(Milestone)' /\ ~Open(ArtifactSync)'
  BY <1>1, <1>3, <1>4, CompletedReads
  DEF NoneOpenOf, NoneReadOfTwo, Step, Milestone, ArtifactSync
<1>6. QED BY <1>1, <1>2, <1>5
      DEF StartInv, FileIsHeld, OpenIsUndone, NoneOpenOf, StartsPlanned

\* The last step: the planner's backlog is in the sprint.
LEMMA PlanningIsDoneStart == ASSUME IInv, PlanningIsDone PROVE StartInv'
<1>1. AskedValidly /\ loop.step = Finalization /\ loop \in Loops /\ req' = Read
      /\ disk' = Completed /\ mem' = Completed /\ backlog' = backlog
  BY DEF PlanningIsDone, SaveBoth, others, IInv, PlanInv, Types
<1>2. loop'.stage = "reporting"
  BY <1>1 DEF PlanningIsDone, Stage, Loops
<1>3. Completed.done = Step /\ Completed.queue /\ Covered(backlog)
  BY <1>1, AllIsDone DEF IInv
<1>4. \A s \in Step : Open(s)' <=> Read[s].status = "open"
  BY <1>1 DEF Open
<1>5. NoneOpenOf(mem.done)' /\ ~Open(Milestone)' /\ ~Open(ArtifactSync)'
  BY <1>1, <1>4, CompletedReads
  DEF NoneOpenOf, NoneReadOfTwo, Step, Milestone, ArtifactSync
<1>6. StartsPlanned'
  BY <1>1, <1>2, <1>3 DEF StartsPlanned, Covered
<1>7. QED BY <1>1, <1>2, <1>5, <1>6
      DEF StartInv, FileIsHeld, OpenIsUndone, NoneOpenOf, InStep

\* A document is missing although every step is done.
LEMMA DocumentIsMissingStart == ASSUME IInv, DocumentIsMissing PROVE StartInv'
<1>1. AskedValidly /\ loop.step = Finalization /\ loop \in Loops /\ Types
  BY DEF DocumentIsMissing, IInv, PlanInv, Types
<1>2. Completed \in Sprints /\ Sound(Completed) /\ Completed.done = Step
  BY <1>1, AllIsDone DEF IInv
<1>3. ReadIsUndone(Completed) /\ NoneReadOfTwo
  BY <1>1, CompletedReads
<1>4. PICK s \in {ArtifactSync, Finalization} :
        IF MayReopen(Completed, s)
        THEN disk' = Reopened(Completed, s) /\ Proceed(Reopened(Completed, s), loop)
        ELSE disk' = Completed /\ Ends(Completed, loop, "blocked")
  BY DEF DocumentIsMissing
<1>5. s \in Step
  BY DEF Step, ArtifactSync, Finalization
<1>6. CASE MayReopen(Completed, s)
  <2>1. disk' = Reopened(Completed, s) /\ Proceed(Reopened(Completed, s), loop)
    BY <1>4, <1>6
  <2>2. /\ Reopened(Completed, s) \in Sprints /\ Sound(Reopened(Completed, s))
        /\ Reopened(Completed, s).done = Completed.done
    BY <1>1, <1>2, <1>5, CopyTypes DEF Sound, Confirmed
  <2>3. ReadIsUndone(Reopened(Completed, s))
    BY <1>3, <2>2 DEF ReadIsUndone
  <2>4. QED BY <1>1, <2>1, <2>2, <2>3, ProceedStart
<1>7. CASE ~MayReopen(Completed, s)
  <2>1. disk' = Completed /\ Ends(Completed, loop, "blocked")
    BY <1>4, <1>7
  <2>2. QED BY <1>1, <1>2, <1>3, <2>1, EndsStart
<1>8. QED BY <1>6, <1>7

\* A request that was answered, or none, is what Read leaves out.
LEMMA ReadShrinks ==
    ASSUME PlanInv, StartInv, loop.stage \in {"sending", "reporting"}
    PROVE  ReadIsUndone(mem) /\ NoneReadOfTwo
<1>1. \A s \in Step : Read[s].status = "open" => Open(s) /\ s \notin mem.done
  BY ReadTypes DEF PlanInv, StartInv, OpenIsUndone, NoneOpenOf
<1>2. ~Open(Milestone) /\ ~Open(ArtifactSync)
  BY DEF StartInv, OpenIsUndone
<1>3. QED BY <1>1, <1>2 DEF ReadIsUndone, NoneReadOfTwo, Step, Milestone, ArtifactSync

\* The plan is on its way, or the message is lost.
LEMMA SendingStart == ASSUME IInv, PlanIsSent \/ SendFails PROVE StartInv'
<1>1. Types /\ loop \in Loops /\ mem \in Sprints /\ PlanInv /\ StartInv /\ loop.stage = "sending"
  BY DEF IInv, PlanInv, Types, PlanIsSent, SendFails
<1>2. NoneOpenOf(disk.done) /\ ~Open(Milestone) /\ ~Open(ArtifactSync) /\ UNCHANGED disk
  BY <1>1 DEF StartInv, OpenIsUndone, PlanIsSent, SendFails
<1>3. ASSUME Returns, UNCHANGED req PROVE StartInv'
  <2>1. loop'.stage = "idle"
    BY <1>3, InitialTypes, PlanningAssumption DEF Returns
  <2>2. QED BY <1>2, <1>3, <2>1
        DEF StartInv, FileIsHeld, OpenIsUndone, NoneOpenOf, Open, StartsPlanned
<1>4. ASSUME Ends(mem, loop, "failed") PROVE StartInv'
  <2>1. ReadIsUndone(mem) /\ NoneReadOfTwo
    BY <1>1, ReadShrinks
  <2>2. \A s \in Step : Read[s].status = "open" => s \notin disk'.done
    BY <1>1, <1>2, ReadTypes DEF NoneOpenOf
  <2>3. QED BY <1>1, <1>4, <2>1, <2>2, EndsStart
<1>5. QED BY <1>3, <1>4 DEF PlanIsSent, SendFails

\* What was planned is reported, or is not.
LEMMA ReportingStart == ASSUME IInv, SprintStarts \/ ReportFails PROVE StartInv'
<1>1. /\ Types /\ loop \in Loops /\ mem \in Sprints /\ PlanInv /\ StartInv
      /\ loop.stage = "reporting"
  BY DEF IInv, PlanInv, Types, SprintStarts, ReportFails
<1>2. NoneOpenOf(mem.done) /\ ~Open(Milestone) /\ ~Open(ArtifactSync) /\ (InStep \/ Orphaned)
  BY <1>1 DEF StartInv, OpenIsUndone, FileIsHeld
<1>3. ASSUME SprintStarts PROVE StartInv'
  <2>1. loop'.stage = "idle" /\ UNCHANGED req
    BY <1>3, InitialTypes, PlanningAssumption DEF SprintStarts, Returns
  <2>2. disk'.done = mem.done
    BY <1>1, <1>3 DEF SprintStarts, Sprints
  <2>3. QED BY <1>2, <2>1, <2>2
        DEF StartInv, FileIsHeld, OpenIsUndone, NoneOpenOf, Open, StartsPlanned
<1>4. ASSUME ReportFails PROVE StartInv'
  <2>1. Ends(mem, loop, "blocked") /\ UNCHANGED <<disk, active>>
    BY <1>4 DEF ReportFails
  <2>2. ReadIsUndone(mem) /\ NoneReadOfTwo
    BY <1>1, ReadShrinks
  <2>3. (disk'.plan = mem.plan /\ disk'.done = mem.done) \/ Orphaned'
    BY <1>2, <2>1 DEF InStep, Orphaned
  <2>4. QED BY <1>1, <2>1, <2>2, <2>3, EndsStart
<1>5. QED BY <1>3, <1>4

\* The end is in the file, and reported.
LEMMA EndStart == ASSUME IInv, EndIsSaved \/ EndIsReported PROVE StartInv'
<1>1. loop \in Loops
  BY DEF IInv, PlanInv, Types
<1>2. ASSUME EndIsSaved PROVE StartInv'
  <2>1. disk' = mem /\ mem' = mem /\ UNCHANGED req /\ loop.stage = "drafting"
        /\ loop'.stage = "ending"
    BY <1>1, <1>2 DEF EndIsSaved, Stage, Loops
  <2>2. QED BY <2>1
        DEF IInv, StartInv, FileIsHeld, OpenIsUndone, NoneOpenOf, Open, StartsPlanned
<1>3. ASSUME EndIsReported PROVE StartInv'
  <2>1. UNCHANGED <<disk, req>> /\ loop.stage = "ending" /\ loop'.stage = "idle"
    BY <1>3, InitialTypes, PlanningAssumption DEF EndIsReported, Returns
  <2>2. QED BY <2>1
        DEF IInv, StartInv, FileIsHeld, OpenIsUndone, NoneOpenOf, Open, StartsPlanned
<1>4. QED BY <1>2, <1>3

\* Where no plan, step, status or copy changes and nothing is opened, all stays.
LEMMA ReportStart == ASSUME IInv, Report PROVE StartInv'
<1>1. disk \in Sprints /\ req \in [Step -> Requests]
  BY DEF IInv, PlanInv, Types
<1>2. ASSUME ResearchReports
      PROVE  /\ \A s \in Step : Open(s)' => Open(s)
             /\ disk'.plan = disk.plan /\ disk'.done = disk.done /\ disk'.status = disk.status
             /\ UNCHANGED <<mem, loop, active, answers, task, backlog>>
  <2>1. \A s \in Step : Open(s)' => Open(s)
    BY <1>1, <1>2 DEF ResearchReports, Open, Step, Milestone, Requests
  <2>2. disk' = disk \/ \E r \in {"degraded", "sourced"} : disk' = [disk EXCEPT !.research = r]
    BY <1>2 DEF ResearchReports
  <2>3. QED BY <1>1, <1>2, <2>1, <2>2 DEF ResearchReports, others, Sprints
<1>3. ASSUME NEW s \in Step, PlannerReports(s)
      PROVE  /\ \A t \in Step : Open(t)' => Open(t)
             /\ disk'.plan = disk.plan /\ disk'.done = disk.done /\ disk'.status = disk.status
             /\ UNCHANGED <<mem, loop, active, answers, task>> /\ Open(s)
  <2>1. \E b \in Backlogs, status \in Terminal, plan, persisted, titled \in BOOLEAN :
          /\ req' = [req EXCEPT ![s] = [@ EXCEPT !.status = status, !.plan = plan,
                                          !.persisted = persisted, !.titled = titled]]
          /\ disk' = [disk EXCEPT !.queue = IF status = "completed" THEN Selected(b) ELSE @]
    BY <1>3 DEF PlannerReports
  <2>2. \A t \in Step : Open(t)' => Open(t)
    BY <1>1, <1>3, <2>1 DEF PlannerReports, Open, Requests
  <2>3. disk'.plan = disk.plan /\ disk'.done = disk.done /\ disk'.status = disk.status
    BY <1>1, <2>1 DEF Sprints
  <2>4. QED BY <1>3, <2>2, <2>3 DEF PlannerReports, Open
<1>4. /\ \A s \in Step : Open(s)' => Open(s)
      /\ disk'.plan = disk.plan /\ disk'.done = disk.done /\ disk'.status = disk.status
      /\ UNCHANGED <<mem, loop, active, answers, task>>
  BY <1>2, <1>3 DEF Report
<1>5. FileIsHeld'
  BY <1>4 DEF IInv, StartInv, FileIsHeld, InStep, Orphaned, NoneOpenOf
<1>6. OpenIsUndone'
  BY <1>4 DEF IInv, StartInv, OpenIsUndone, NoneOpenOf, Stranded, Orphaned, Step, Milestone,
     ArtifactSync
<1>7. StartsPlanned'
  <2>1. CASE loop.stage = "reporting"
    <3>1. \A s \in Step : ~Open(s)
      BY <2>1 DEF IInv, PlanInv, LoopIsInOrder, StartInv, OpenIsUndone, NoneOpenOf
    <3>2. UNCHANGED backlog
      BY <1>2, <1>3, <3>1 DEF Report
    <3>3. QED BY <1>4, <3>2 DEF IInv, StartInv, StartsPlanned, Covered
  <2>2. CASE loop.stage # "reporting"
    BY <1>4, <2>2 DEF StartsPlanned
  <2>3. QED BY <2>1, <2>2
<1>8. QED BY <1>5, <1>6, <1>7 DEF StartInv

\* A user who answers sees an active sprint whose plan waits.
LEMMA UserAnswersStart ==
    ASSUME IInv, NEW kind \in {"confirm", "change"}, UserAnswers(kind)
    PROVE  StartInv'
<1>1. UNCHANGED <<disk, mem, loop, req, backlog, active, task>> /\ active /\ Waiting(disk)
  BY DEF UserAnswers
<1>2. Milestone \in disk.done /\ ArtifactSync \in disk.done
  BY <1>1 DEF IInv, PlanInv, Sound, Waiting
<1>3. ~Stranded
  BY <1>1 DEF Stranded, Orphaned
<1>4. loop.stage = "idle" => NoneOpenOf(disk.done) /\ ~Open(Milestone) /\ ~Open(ArtifactSync)
  BY <1>2, <1>3 DEF IInv, StartInv, OpenIsUndone, NoneOpenOf, Step, Milestone, ArtifactSync
<1>5. FileIsHeld'
  BY <1>1 DEF IInv, StartInv, FileIsHeld, InStep, Orphaned, NoneOpenOf, Open
<1>6. OpenIsUndone'
  BY <1>1, <1>4 DEF IInv, StartInv, OpenIsUndone, NoneOpenOf, Open
<1>7. StartsPlanned'
  BY <1>1 DEF IInv, StartInv, StartsPlanned, Covered
<1>8. QED BY <1>5, <1>6, <1>7 DEF StartInv

\* An answer changes a plan that waits; where the loop works on, none does, unless the
\* copy is taken because no sprint is active.
LEMMA AnswerIsAppliedStart ==
    ASSUME IInv, NEW a \in answers, AnswerIsApplied(a), ~PutsBlockedBack
    PROVE  StartInv'
<1>1. /\ a.copy.status # "blocked" \/ active
      /\ UNCHANGED <<mem, loop, req, backlog, active>> /\ a \in Answers
      /\ answers # {} /\ answers' \subseteq answers
  BY DEF PutsBlockedBack, AnswerIsApplied, IInv, PlanInv, Types
<1>2. PlanInv /\ StartInv /\ Sound(disk) /\ Sound(mem) /\ disk \in Sprints /\ mem \in Sprints
  BY DEF IInv, PlanInv, Types
<1>3. Sound(a.copy) /\ Waiting(a.copy) /\ a.copy \in Sprints
  BY <1>1, <1>2 DEF PlanInv, CopiesWait, Answers
<1>4. StartsPlanned'
  BY <1>1, <1>2 DEF StartInv, StartsPlanned, Covered
<1>5. CASE UNCHANGED <<disk, task>>
  <2>1. FileIsHeld'
    BY <1>1, <1>2, <1>5 DEF StartInv, FileIsHeld, InStep, Orphaned, NoneOpenOf, Open
  <2>2. OpenIsUndone'
    BY <1>1, <1>2, <1>5 DEF StartInv, OpenIsUndone, NoneOpenOf, Open, Stranded
  <2>3. QED BY <1>4, <2>1, <2>2 DEF StartInv
<1>6. CASE Waiting(Current(a)) /\ disk' \in Sprints /\ disk'.status = Current(a).status
           /\ disk'.done \subseteq Current(a).done /\ Milestone \in disk'.done
  <2>1. CASE active
    <3>1. Current(a) = disk
      BY <2>1 DEF Current
    <3>2. ~Orphaned /\ ~Stranded
      BY <2>1 DEF Orphaned, Stranded
    <3>3. loop.stage \notin {"asking", "reporting"}
      <4>1. loop.stage \in {"asking", "reporting"} => Waiting(mem)
        BY <1>2, <1>6, <3>1, <3>2 DEF StartInv, FileIsHeld, InStep, Waiting
      <4>2. loop.stage = "asking" => ~Waiting(mem)
        BY <1>2 DEF PlanInv, LoopIsInOrder
      <4>3. loop.stage = "reporting" => ~Waiting(mem)
        BY <1>2 DEF PlanInv, LoopIsInOrder, Sound, Confirmed, Waiting, Step, Definition
      <4>4. QED BY <4>1, <4>2, <4>3
    <3>4. loop.stage = "drafting" => mem.status = "failed" /\ NoneOpenOf(disk.done)
      <4>1. loop.stage = "drafting" /\ InStep => Waiting(mem)
        BY <1>6, <3>1 DEF InStep, Waiting
      <4>2. loop.stage = "drafting" /\ mem.status # "failed" => ~Waiting(mem)
        BY <1>2 DEF PlanInv, LoopIsInOrder
      <4>3. loop.stage = "drafting" => mem.status = "failed"
        BY <1>2, <3>2, <4>1, <4>2 DEF StartInv, FileIsHeld
      <4>4. loop.stage = "drafting" => NoneOpenOf(mem.done)
        BY <1>2 DEF StartInv, OpenIsUndone
      <4>5. QED BY <1>2, <3>2, <4>3, <4>4 DEF StartInv, FileIsHeld, InStep
    <3>5. NoneOpenOf(disk.done) => NoneOpenOf(disk.done)'
      BY <1>1, <1>6, <3>1 DEF NoneOpenOf, Open
    <3>6. FileIsHeld'
      BY <1>1, <3>3, <3>4, <3>5 DEF FileIsHeld
    <3>7. OpenIsUndone'
      BY <1>1, <1>2, <1>6, <3>2, <3>5 DEF StartInv, OpenIsUndone, NoneOpenOf, Open
    <3>8. QED BY <1>4, <3>6, <3>7 DEF StartInv
  <2>2. CASE ~active
    <3>1. Current(a) = a.copy
      BY <2>2 DEF Current
    <3>2. Orphaned'
      BY <1>1, <1>6, <2>2, <3>1 DEF Orphaned
    <3>3. disk'.done \subseteq {Milestone, ArtifactSync}
      BY <1>3, <1>6, <3>1 DEF Sound, Waiting, Confirmed, Sprints, Step, Milestone, ArtifactSync,
         Definition, Ranking, Finalization
    <3>4. loop.stage \in {"idle", "sending", "ending"} => NoneOpenOf(disk.done)'
      BY <1>1, <1>2, <3>3 DEF StartInv, OpenIsUndone, NoneOpenOf, Open
    <3>5. FileIsHeld'
      BY <1>1, <3>2 DEF FileIsHeld
    <3>6. OpenIsUndone'
      BY <1>1, <1>2, <1>6, <3>4 DEF StartInv, OpenIsUndone, NoneOpenOf, Open
    <3>7. QED BY <1>4, <3>5, <3>6 DEF StartInv
  <2>3. QED BY <2>1, <2>2
<1>7. QED BY <1>2, <1>5, <1>6, AnswerWrites

\* The operator's commands, and crashes: after one the file is what the loop was at, or
\* nothing resumes it.
LEMMA OperatorStart == ASSUME IInv, Stop \/ Restart \/ Crash PROVE StartInv'
<1>1. PlanInv /\ StartInv /\ disk \in Sprints /\ UNCHANGED req
  BY DEF IInv, PlanInv, Types, Stop, Restart, Crash
<1>2. ASSUME Stop \/ Restart PROVE StartInv'
  <2>1. UNCHANGED <<mem, loop, backlog, answers>>
    BY <1>2 DEF Stop, Restart, others
  <2>2. disk'.plan = disk.plan /\ disk'.done = disk.done
    BY <1>1, <1>2 DEF Stop, Restart, Sprints
  <2>3. ~Orphaned /\ ~Stranded
    BY <1>2 DEF Stop, Restart, Orphaned, Stranded
  <2>4. FileIsHeld'
    BY <1>1, <2>1, <2>2, <2>3 DEF StartInv, FileIsHeld, InStep, NoneOpenOf, Open
  <2>5. OpenIsUndone'
    BY <1>1, <2>1, <2>2, <2>3 DEF StartInv, OpenIsUndone, NoneOpenOf, Open
  <2>6. QED BY <1>1, <2>1, <2>4, <2>5 DEF StartInv, StartsPlanned, Covered
<1>3. ASSUME Crash PROVE StartInv'
  <2>1. /\ loop'.stage = "idle" /\ answers' = {} /\ task' = FALSE
        /\ UNCHANGED <<disk, active>>
    BY <1>3, InitialTypes, PlanningAssumption DEF Crash, Returns
  <2>2. NoneOpenOf(disk.done) \/ Orphaned
    <3>1. loop.stage \in Stages
      BY <1>1 DEF PlanInv, Types, Loops
    <3>2. CASE loop.stage \in {"asking", "reporting", "drafting"}
      BY <1>1, <3>2 DEF StartInv, FileIsHeld, OpenIsUndone, InStep, NoneOpenOf
    <3>3. CASE loop.stage \in {"idle", "sending", "ending"}
      BY <1>1, <3>3 DEF StartInv, OpenIsUndone, Stranded
    <3>4. QED BY <3>1, <3>2, <3>3 DEF Stages
  <2>3. NoneOpenOf(disk.done)' \/ Stranded'
    BY <1>1, <2>1, <2>2 DEF NoneOpenOf, Open, Stranded, Orphaned
  <2>4. QED BY <1>1, <2>1, <2>3 DEF StartInv, FileIsHeld, OpenIsUndone, Open, StartsPlanned
<1>4. QED BY <1>2, <1>3

\* StartInv holds at first,
LEMMA IInvInit == ASSUME Init PROVE IInv
<1>1. PlanInv
  BY PlanInvInit
<1>2. loop.stage = "idle" /\ \A s \in Step : ~Open(s)
  BY InitialTypes, PlanningAssumption DEF Init, Open
<1>3. StartInv
  BY <1>2 DEF Init, StartInv, FileIsHeld, OpenIsUndone, NoneOpenOf, StartsPlanned, Step,
     ArtifactSync
<1>4. QED BY <1>1, <1>3 DEF IInv

\* and every step keeps it that does not put an old copy of a blocked sprint back.
LEMMA IInvStep == ASSUME IInv, [Next]_vars, [~PutsBlockedBack]_vars PROVE IInv'
<1>1. PlanInv'
  BY PlanInvStep DEF IInv
<1>2. ASSUME UNCHANGED vars PROVE StartInv'
  BY <1>2 DEF vars, IInv, StartInv, FileIsHeld, InStep, Orphaned, OpenIsUndone, NoneOpenOf, Open,
     Stranded, StartsPlanned, Covered
<1>3. ASSUME LoopStep PROVE StartInv'
  BY <1>3, EnterLoopStart, StepIsReopenedStart, PlanIsDraftedStart, StepIsDoneStart,
     PlanningIsDoneStart, SendingStart, ReportingStart, EndStart DEF LoopStep
<1>4. ASSUME Report PROVE StartInv'
  BY <1>4, ReportStart
<1>5. ASSUME Answer PROVE StartInv'
  BY <1>2, <1>5, AnswerIsAppliedStart DEF Answer
<1>6. ASSUME NEW kind \in {"confirm", "change"}, UserAnswers(kind) PROVE StartInv'
  BY <1>6, UserAnswersStart
<1>7. ASSUME DocumentIsMissing \/ SendFails \/ ReportFails PROVE StartInv'
  BY <1>7, DocumentIsMissingStart, SendingStart, ReportingStart
<1>8. ASSUME Stop \/ Restart \/ Crash PROVE StartInv'
  BY <1>8, OperatorStart
<1>9. StartInv'
  BY <1>2, <1>3, <1>4, <1>5, <1>6, <1>7, <1>8 DEF Next
<1>10. QED BY <1>1, <1>9 DEF IInv

\* A sprint starts from what was planned and agreed to: with every step done and a
\* backlog in it that covers requirements and plan actions, although the planner goes
\* on writing backlogs, unless an answer puts an old copy of a blocked sprint back
\* while no sprint is active (_maybe_handle_initial_plan_feedback's fallback).
THEOREM SprintsStartFromPlans == Spec /\ NoneIsPutBack => []StartsFromPlan
<1>1. IInv => StartsFromPlan
  <2>1. Types => TypeOK
    BY DEF Types, TypeOK, Loops, Answers
  <2>2. PlanInv => PlanFirst
    BY DEF PlanInv, PlanFirst, Sound
  <2>3. QED BY <2>1, <2>2 DEF IInv, PlanInv, StartInv, StartsFromPlan
<1>2. QED BY <1>1, IInvInit, IInvStep, PTL DEF Spec, NoneIsPutBack

-----------------------------------------------------------------------------
(* No change request is lost *)

KeepsChanges == active /\ disk'.status # "failed" => disk.plan.changes \subseteq disk'.plan.changes

\* While the sprint is active the loop's copy has the change requests of the file.
LEMMA StepKeepsChanges == ASSUME IInv, [Next]_vars PROVE KeepsChanges
<1>1. disk \in Sprints /\ mem \in Sprints /\ loop \in Loops /\ Types /\ PlanInv
  BY DEF IInv, PlanInv, Types
<1>2. SUFFICES ASSUME active, disk'.status # "failed"
               PROVE  disk.plan.changes \subseteq disk'.plan.changes
  BY DEF KeepsChanges
<1>3. ~Orphaned
  BY <1>2 DEF Orphaned
<1>4. /\ loop.stage \in {"asking", "reporting"} => disk.plan = mem.plan
      /\ loop.stage = "drafting" => disk.plan = mem.plan \/ mem.status = "failed"
  BY <1>3 DEF IInv, StartInv, FileIsHeld, InStep
<1>5. ASSUME UNCHANGED disk PROVE disk.plan.changes \subseteq disk'.plan.changes
  BY <1>5
<1>6. CASE UNCHANGED vars
  BY <1>5, <1>6 DEF vars
<1>7. CASE EnterLoop
  BY <1>1, <1>7 DEF EnterLoop, Sprints
<1>8. CASE StepFails \/ StepIsInvalid
  <2>1. loop.stage = "asking" /\ loop.step \in Step
    BY <1>1, <1>8 DEF StepFails, StepIsInvalid, AskedUsably, Asked, Loops
  <2>2. Applied(mem) \in Sprints /\ Applied(mem).plan = mem.plan
    BY <1>1, <2>1, CopyTypes
  <2>3. \/ UNCHANGED disk
        \/ disk' = Reopened(mem, loop.step)
        \/ disk' = Reopened(Applied(mem), loop.step)
    BY <1>8 DEF StepFails, StepIsInvalid, Reopen
  <2>4. /\ Reopened(mem, loop.step).plan = mem.plan
        /\ Reopened(Applied(mem), loop.step).plan = mem.plan
    BY <1>1, <2>1, <2>2, CopyTypes
  <2>5. QED BY <1>4, <2>1, <2>3, <2>4
<1>9. CASE PlanIsDrafted
  <2>1. AskedValidly /\ loop.stage = "asking"
    BY <1>9 DEF PlanIsDrafted, AskedValidly, AskedUsably, Asked
  <2>2. disk' = [Completed EXCEPT !.plan = Drafted(@)]
    BY <1>9 DEF PlanIsDrafted, SaveBoth
  <2>3. Completed \in Sprints /\ Completed.plan = mem.plan
    BY <1>1, <2>1, CompletedSound
  <2>4. disk'.plan.changes = mem.plan.changes
    BY <2>2, <2>3 DEF Drafted, Sprints, Plans
  <2>5. QED BY <1>4, <2>1, <2>4
<1>10. CASE StepIsDone \/ PlanningIsDone
  <2>1. AskedValidly /\ loop.stage = "asking" /\ disk' = Completed
    BY <1>10 DEF StepIsDone, PlanningIsDone, AskedValidly, AskedUsably, Asked, SaveBoth
  <2>2. Completed.plan = mem.plan
    BY <1>1, <2>1, CompletedSound
  <2>3. QED BY <1>4, <2>1, <2>2
<1>11. CASE DocumentIsMissing
  <2>1. AskedValidly /\ loop.stage = "asking"
    BY <1>11 DEF DocumentIsMissing, AskedValidly, AskedUsably, Asked
  <2>2. Completed \in Sprints /\ Completed.plan = mem.plan
    BY <1>1, <2>1, CompletedSound
  <2>3. \/ disk' = Completed
        \/ \E s \in {ArtifactSync, Finalization} : disk' = Reopened(Completed, s)
    BY <1>11 DEF DocumentIsMissing
  <2>4. \A s \in {ArtifactSync, Finalization} : Reopened(Completed, s).plan = mem.plan
    BY <1>1, <2>2, CopyTypes DEF Step, ArtifactSync, Finalization
  <2>5. QED BY <1>4, <2>1, <2>2, <2>3, <2>4
<1>12. CASE PlanIsSent \/ SendFails \/ ReportFails \/ EndIsReported \/ Restart \/ Crash
  BY <1>5, <1>12 DEF PlanIsSent, SendFails, ReportFails, EndIsReported, Restart, Crash
<1>13. CASE SprintStarts
  <2>1. disk'.plan = mem.plan /\ loop.stage = "reporting"
    BY <1>1, <1>13 DEF SprintStarts, Sprints
  <2>2. QED BY <1>4, <2>1
<1>14. CASE EndIsSaved
  BY <1>2, <1>4, <1>14 DEF EndIsSaved
<1>15. CASE Report
  <2>1. CASE ResearchReports
    BY <1>1, <2>1 DEF ResearchReports, Sprints
  <2>2. ASSUME NEW s \in Step, PlannerReports(s)
        PROVE  disk.plan.changes \subseteq disk'.plan.changes
    BY <1>1, <2>2 DEF PlannerReports, Sprints
  <2>3. QED BY <1>15, <2>1, <2>2 DEF Report
<1>16. CASE Answer
  <2>1. PICK a \in answers : AnswerIsApplied(a)
    BY <1>16 DEF Answer
  <2>2. Current(a) = disk
    BY <1>2 DEF Current
  <2>3. QED BY <1>1, <1>5, <2>1, <2>2, AnswerWrites
<1>17. CASE \E kind \in {"confirm", "change"} : UserAnswers(kind)
  BY <1>5, <1>17 DEF UserAnswers
<1>18. CASE Stop
  BY <1>1, <1>18 DEF Stop, Sprints
<1>19. QED BY <1>6, <1>7, <1>8, <1>9, <1>10, <1>11, <1>12, <1>13, <1>14, <1>15, <1>16, <1>17,
       <1>18 DEF Next, LoopStep

\* While a sprint is active and has not failed no save loses a change request, neither
\* the loop's of the copy it holds nor another answer's, under the same exception.
THEOREM ChangesStay == Spec /\ NoneIsPutBack => ChangesAreKept
<1>1. IInv /\ [Next]_vars => KeepsChanges
  BY StepKeepsChanges
<1>2. QED BY <1>1, IInvInit, IInvStep, PTL DEF Spec, NoneIsPutBack, ChangesAreKept, KeepsChanges

-----------------------------------------------------------------------------
(* The loop does not go round for ever *)

\* What a run of the loop may still do: the requests it may ask for, in steps that are
\* not done and in reopenings of steps, and what it waits for now.
Undone(m, s) == IF s \in m.done THEN 0 ELSE 1
Chances(m, s) == MaxReopens - m.reopens[s]
RoundsOf(m, s) == Undone(m, s) + Chances(m, s)
Rounds(m) == RoundsOf(m, 1) + RoundsOf(m, 2) + RoundsOf(m, 3) + RoundsOf(m, 4) + RoundsOf(m, 5)

\* The reports that answer a request: the research role's, then the planner's.
Waits(r) == IF r.status # "open" THEN 0 ELSE IF r.research THEN 2 ELSE 1
StageLeft(l, reqs) ==
    CASE l.stage = "ending" -> 1
      [] l.stage = "drafting" -> 2
      [] l.stage \in {"sending", "reporting"} -> 3
      [] OTHER -> 4 + Waits(reqs[l.step])
LoopLeft == IF loop.stage = "idle" THEN 0 ELSE 3 * Rounds(mem) + StageLeft(loop, req)

\* While the loop runs every step of its own brings it nearer to its return, and no
\* report, answer, command or failure takes it back.
Descends == loop.stage # "idle" => LoopLeft' <= LoopLeft /\ (LoopStep => LoopLeft' < LoopLeft)

LEMMA RoundsTypes ==
    ASSUME NEW m \in Sprints
    PROVE  /\ \A s \in Step : Undone(m, s) \in {0, 1} /\ Chances(m, s) \in Nat
                              /\ Chances(m, s) <= MaxReopens
           /\ Rounds(m) \in Nat /\ Rounds(m) <= 5 * MaxReopens + 5
<1>1. ASSUME NEW s \in Step
      PROVE  Undone(m, s) \in {0, 1} /\ Chances(m, s) \in Nat /\ Chances(m, s) <= MaxReopens
  <2>1. m.reopens[s] \in 0..MaxReopens
    BY DEF Sprints
  <2>2. QED BY <2>1, PlanningAssumption DEF Undone, Chances
<1>2. {1, 2, 3, 4, 5} \subseteq Step
  BY DEF Step
<1>3. QED BY <1>1, <1>2, PlanningAssumption DEF Rounds, RoundsOf

LEMMA StageTypes ==
    ASSUME NEW l \in Loops, NEW reqs \in [Step -> Requests]
    PROVE  StageLeft(l, reqs) \in 1..6
<1>1. Waits(reqs[l.step]) \in 0..2
  BY DEF Waits
<1>2. QED BY <1>1 DEF StageLeft

\* The rounds are counted by steps and reopenings alone.
LEMMA RoundsCount ==
    ASSUME NEW m, NEW n, n.done = m.done, n.reopens = m.reopens
    PROVE  Rounds(n) = Rounds(m)
BY DEF Rounds, RoundsOf, Undone, Chances

\* Where one step's count falls, the sum does.
LEMMA RoundsFall ==
    ASSUME NEW m \in Sprints, NEW n \in Sprints, NEW s \in Step,
           RoundsOf(n, s) = RoundsOf(m, s) - 1,
           \A t \in Step \ {s} : RoundsOf(n, t) = RoundsOf(m, t)
    PROVE  Rounds(n) = Rounds(m) - 1
<1>1. \A t \in Step : RoundsOf(m, t) \in Nat /\ RoundsOf(n, t) \in Nat
  BY RoundsTypes DEF RoundsOf
<1>2. s \in {1, 2, 3, 4, 5} /\ Step = {1, 2, 3, 4, 5}
  BY DEF Step
<1>3. CASE s = 1
  BY <1>1, <1>2, <1>3 DEF Rounds
<1>4. CASE s = 2
  BY <1>1, <1>2, <1>4 DEF Rounds
<1>5. CASE s = 3
  BY <1>1, <1>2, <1>5 DEF Rounds
<1>6. CASE s = 4
  BY <1>1, <1>2, <1>6 DEF Rounds
<1>7. CASE s = 5
  BY <1>1, <1>2, <1>7 DEF Rounds
<1>8. QED BY <1>2, <1>3, <1>4, <1>5, <1>6, <1>7

LEMMA ReopenedRounds ==
    ASSUME Types, NEW m \in Sprints, NEW s \in Step, MayReopen(m, s)
    PROVE  Rounds(Reopened(m, s)) = Rounds(m) - 1
<1>1. Reopened(m, s) \in Sprints /\ Reopened(m, s).done = m.done
  BY CopyTypes
<1>2. /\ Reopened(m, s).reopens[s] = m.reopens[s] + 1
      /\ \A t \in Step \ {s} : Reopened(m, s).reopens[t] = m.reopens[t]
  BY DEF Reopened, MayReopen, Sprints
<1>3. m.reopens[s] \in Nat /\ MaxReopens \in Nat /\ Undone(m, s) \in Nat
  BY PlanningAssumption DEF Sprints, Undone
<1>4. RoundsOf(Reopened(m, s), s) = RoundsOf(m, s) - 1
  BY <1>1, <1>2, <1>3 DEF RoundsOf, Undone, Chances
<1>5. \A t \in Step \ {s} : RoundsOf(Reopened(m, s), t) = RoundsOf(m, t)
  BY <1>1, <1>2 DEF RoundsOf, Undone, Chances
<1>6. QED BY <1>1, <1>4, <1>5, RoundsFall

\* An end is drafted, and costs no request.
LEMMA EndsLowers ==
    ASSUME Types, NEW m \in Sprints, NEW l \in Loops, NEW status \in {"blocked", "failed"},
           Ends(m, l, status)
    PROVE  LoopLeft' = 3 * Rounds(m) + 2
<1>1. mem'.done = m.done /\ mem'.reopens = m.reopens /\ loop'.stage = "drafting"
  BY DEF Ends, Sprints, Loops
<1>2. Rounds(mem') = Rounds(m)
  BY <1>1, RoundsCount
<1>3. QED BY <1>1, <1>2 DEF LoopLeft, StageLeft

\* What the loop waits for next costs at most a request and its reports.
LEMMA ProceedLowers ==
    ASSUME Types, NEW m \in Sprints, NEW l \in Loops, Sound(m), Proceed(m, l)
    PROVE  LoopLeft' \in Nat /\ LoopLeft' <= 3 * Rounds(m) + 6
<1>1. Rounds(m) \in Nat
  BY RoundsTypes
<1>2. CASE Returns
  BY <1>1, <1>2 DEF Returns, Idle, LoopLeft
<1>3. CASE Ends(m, l, "blocked")
  BY <1>1, <1>3, EndsLowers
<1>4. CASE \E s \in Step : Ask(m, l, s)
  <2>1. PICK s \in Step : Ask(m, l, s)
    BY <1>4
  <2>2. mem' = m
    BY <2>1 DEF Ask
  <2>3. StageLeft(loop', req') \in 1..6
    BY <2>1, AskTypes, StageTypes
  <2>4. LoopLeft' = 3 * Rounds(m) + StageLeft(loop', req')
    BY <2>1, <2>2, AskTypes DEF LoopLeft
  <2>5. QED BY <1>1, <2>3, <2>4
<1>5. QED BY <1>2, <1>3, <1>4, ProceedCases

LEMMA ReopenLowers ==
    ASSUME Types, NEW m \in Sprints, NEW s \in Step, Sound(m), Reopen(m, s)
    PROVE  LoopLeft' \in Nat /\ LoopLeft' <= 3 * Rounds(m) + 3
<1>1. Rounds(m) \in Nat
  BY RoundsTypes
<1>2. CASE MayReopen(m, s)
  <2>1. Reopened(m, s) \in Sprints /\ Sound(Reopened(m, s))
    BY CopyTypes DEF Sound, Confirmed
  <2>2. [loop EXCEPT !.first = FALSE] \in Loops
    BY DEF Types, Loops
  <2>3. Proceed(Reopened(m, s), [loop EXCEPT !.first = FALSE])
    BY <1>2 DEF Reopen
  <2>4. LoopLeft' \in Nat /\ LoopLeft' <= 3 * Rounds(Reopened(m, s)) + 6
    BY <2>1, <2>2, <2>3, ProceedLowers
  <2>5. Rounds(Reopened(m, s)) = Rounds(m) - 1
    BY <1>2, ReopenedRounds
  <2>6. LoopLeft' <= 3 * (Rounds(m) - 1) + 6
    BY <2>4, <2>5
  <2>7. QED BY <1>1, <2>4, <2>6
<1>3. CASE ~MayReopen(m, s)
  <2>1. Ends(m, loop, "blocked")
    BY <1>3 DEF Reopen
  <2>2. QED BY <1>1, <2>1, EndsLowers DEF Types
<1>4. QED BY <1>2, <1>3

\* Applying a result leaves steps and reopenings alone, and completing the step lowers
\* what is left by a request.
LEMMA CompletedRounds ==
    ASSUME PlanInv, loop.stage = "asking"
    PROVE  /\ Applied(mem) \in Sprints /\ Rounds(Applied(mem)) = Rounds(mem)
           /\ Completed \in Sprints /\ Rounds(Completed) = Rounds(mem) - 1
<1>1. mem \in Sprints /\ loop.step \in Step /\ loop.step \notin mem.done /\ Types
  BY DEF PlanInv, Types, Loops, LoopIsInOrder
<1>2. /\ Applied(mem) \in Sprints /\ Applied(mem).done = mem.done
      /\ Applied(mem).reopens = mem.reopens
  <2>1. Applied(mem) \in Sprints /\ Applied(mem).done = mem.done
    BY <1>1, CopyTypes
  <2>2. Applied(mem).reopens = mem.reopens
    BY <1>1 DEF Applied, Merged, Sprints
  <2>3. QED BY <2>1, <2>2
<1>3. /\ Completed \in Sprints /\ Completed.done = mem.done \cup {loop.step}
      /\ Completed.reopens = mem.reopens
  BY <1>1, <1>2 DEF Completed, Sprints
<1>4. RoundsOf(Completed, loop.step) = RoundsOf(mem, loop.step) - 1
  <2>1. Chances(mem, loop.step) \in Nat
    BY <1>1, RoundsTypes
  <2>2. Undone(Completed, loop.step) = 0 /\ Undone(mem, loop.step) = 1
    BY <1>1, <1>3 DEF Undone
  <2>3. Chances(Completed, loop.step) = Chances(mem, loop.step)
    BY <1>3 DEF Chances
  <2>4. QED BY <2>1, <2>2, <2>3 DEF RoundsOf
<1>5. \A t \in Step \ {loop.step} : RoundsOf(Completed, t) = RoundsOf(mem, t)
  BY <1>3 DEF RoundsOf, Undone, Chances
<1>6. QED BY <1>1, <1>2, <1>3, <1>4, <1>5, RoundsCount, RoundsFall

\* An answered request is what the loop has waited for.
LEMMA AskedLeft ==
    ASSUME PlanInv, Asked
    PROVE  LoopLeft = 3 * Rounds(mem) + 4 /\ Rounds(mem) \in Nat
<1>1. loop.stage = "asking" /\ req[loop.step].status # "open" /\ mem \in Sprints
  BY DEF Asked, Terminal, PlanInv, Types
<1>2. QED BY <1>1, RoundsTypes DEF LoopLeft, StageLeft, Waits

LEMMA AnswersDescend ==
    ASSUME PlanInv, \/ StepFails \/ StepIsInvalid \/ StepIsDone
                    \/ PlanIsDrafted \/ PlanningIsDone
    PROVE  LoopLeft' < LoopLeft
<1>1. Asked
  BY DEF StepFails, StepIsInvalid, StepIsDone, PlanIsDrafted, PlanningIsDone, AskedValidly, AskedUsably
<1>2. /\ Types /\ mem \in Sprints /\ Sound(mem) /\ loop \in Loops /\ loop.step \in Step
      /\ loop.stage = "asking"
  BY <1>1 DEF PlanInv, Types, Loops, Asked
<1>3. LoopLeft = 3 * Rounds(mem) + 4 /\ Rounds(mem) \in Nat
  BY <1>1, AskedLeft
<1>4. /\ Applied(mem) \in Sprints /\ Rounds(Applied(mem)) = Rounds(mem)
      /\ Completed \in Sprints /\ Rounds(Completed) = Rounds(mem) - 1
  BY <1>2, CompletedRounds
<1>5. Sound(Applied(mem))
  BY <1>2, CopyTypes DEF Sound, Confirmed
<1>6. CASE StepFails
  <2>1. Reopen(mem, loop.step)
    BY <1>6 DEF StepFails
  <2>2. LoopLeft' \in Nat /\ LoopLeft' <= 3 * Rounds(mem) + 3
    BY <1>2, <2>1, ReopenLowers
  <2>3. QED BY <1>3, <2>2
<1>7. CASE StepIsInvalid
  <2>1. Reopen(Applied(mem), loop.step)
    BY <1>7 DEF StepIsInvalid
  <2>2. LoopLeft' \in Nat /\ LoopLeft' <= 3 * Rounds(mem) + 3
    BY <1>2, <1>4, <1>5, <2>1, ReopenLowers
  <2>3. QED BY <1>3, <2>2
<1>8. CASE StepIsDone
  <2>1. Proceed(Completed, loop) /\ AskedValidly /\ (loop.step = ArtifactSync => Confirmed(mem))
    BY <1>8 DEF StepIsDone
  <2>2. Sound(Completed)
    BY <2>1, CompletedSound
  <2>3. LoopLeft' \in Nat /\ LoopLeft' <= 3 * Rounds(Completed) + 6
    BY <1>2, <1>4, <2>1, <2>2, ProceedLowers
  <2>4. LoopLeft' <= 3 * (Rounds(mem) - 1) + 6
    BY <1>4, <2>3
  <2>5. QED BY <1>3, <2>3, <2>4
<1>9. CASE PlanIsDrafted \/ PlanningIsDone
  <2>1. loop'.stage \in {"sending", "reporting"}
    BY <1>2, <1>9 DEF PlanIsDrafted, PlanningIsDone, Stage, Loops
  <2>2. mem'.done = Completed.done /\ mem'.reopens = Completed.reopens
    BY <1>4, <1>9 DEF PlanIsDrafted, PlanningIsDone, SaveBoth, Sprints
  <2>3. Rounds(mem') = Rounds(mem) - 1
    BY <1>4, <2>2, RoundsCount
  <2>4. LoopLeft' = 3 * (Rounds(mem) - 1) + 3
    BY <2>1, <2>3 DEF LoopLeft, StageLeft
  <2>5. QED BY <1>3, <2>4
<1>10. QED BY <1>6, <1>7, <1>8, <1>9

\* From the plan's sending on, a run comes to its end; a failure may draft an end first.
LEMMA EndingsDescend ==
    ASSUME PlanInv, PlanIsSent \/ SendFails \/ SprintStarts \/ ReportFails \/ EndIsSaved \/ EndIsReported
    PROVE  LoopLeft' < LoopLeft
<1>1. mem \in Sprints /\ loop \in Loops /\ Types
  BY DEF PlanInv, Types
<1>2. Rounds(mem) \in Nat
  BY <1>1, RoundsTypes
<1>3. CASE Returns
  <2>1. LoopLeft' = 0
    BY <1>3 DEF Returns, Idle, LoopLeft
  <2>2. LoopLeft > 0
    <3>1. loop.stage \in {"sending", "reporting", "drafting", "ending"}
      BY DEF PlanIsSent, SendFails, SprintStarts, ReportFails, EndIsSaved, EndIsReported
    <3>2. QED BY <1>2, <3>1 DEF LoopLeft, StageLeft
  <2>3. QED BY <2>1, <2>2
<1>4. CASE /\ loop.stage \in {"sending", "reporting"}
           /\ \E status \in {"blocked", "failed"} : Ends(mem, loop, status)
  <2>1. LoopLeft = 3 * Rounds(mem) + 3
    BY <1>4 DEF LoopLeft, StageLeft
  <2>2. LoopLeft' = 3 * Rounds(mem) + 2
    BY <1>1, <1>4, EndsLowers
  <2>3. QED BY <1>2, <2>1, <2>2
<1>5. CASE EndIsSaved
  <2>1. loop.stage = "drafting" /\ loop'.stage = "ending" /\ mem' = mem
    BY <1>1, <1>5 DEF EndIsSaved, Stage, Loops
  <2>2. LoopLeft = 3 * Rounds(mem) + 2 /\ LoopLeft' = 3 * Rounds(mem) + 1
    BY <2>1 DEF LoopLeft, StageLeft
  <2>3. QED BY <1>2, <2>2
<1>6. QED
  BY <1>3, <1>4, <1>5 DEF PlanIsSent, SendFails, SprintStarts, ReportFails, EndIsReported

LEMMA DocumentIsMissingDescends ==
    ASSUME PlanInv, DocumentIsMissing
    PROVE  LoopLeft' <= LoopLeft
<1>1. Asked /\ AskedValidly /\ loop.step = Finalization
  BY DEF DocumentIsMissing, AskedValidly, AskedUsably
<1>2. Types /\ loop \in Loops /\ loop.stage = "asking"
  BY <1>1 DEF PlanInv, Types, Asked
<1>3. LoopLeft = 3 * Rounds(mem) + 4 /\ Rounds(mem) \in Nat
  BY <1>1, AskedLeft
<1>4. Completed \in Sprints /\ Rounds(Completed) = Rounds(mem) - 1
  BY <1>2, CompletedRounds
<1>5. Sound(Completed)
  BY <1>1, CompletedSound DEF Finalization, ArtifactSync
<1>6. PICK s \in {ArtifactSync, Finalization} :
         IF MayReopen(Completed, s)
         THEN Proceed(Reopened(Completed, s), loop) ELSE Ends(Completed, loop, "blocked")
  BY DEF DocumentIsMissing
<1>7. s \in Step
  BY DEF ArtifactSync, Finalization, Step
<1>8. CASE MayReopen(Completed, s)
  <2>1. Reopened(Completed, s) \in Sprints /\ Sound(Reopened(Completed, s))
    BY <1>2, <1>4, <1>5, <1>7, CopyTypes DEF Sound, Confirmed
  <2>2. LoopLeft' \in Nat /\ LoopLeft' <= 3 * Rounds(Reopened(Completed, s)) + 6
    BY <1>2, <1>6, <1>8, <2>1, ProceedLowers
  <2>3. Rounds(Reopened(Completed, s)) = Rounds(Completed) - 1
    BY <1>2, <1>4, <1>7, <1>8, ReopenedRounds
  <2>4. Rounds(Reopened(Completed, s)) \in Nat
    BY <2>1, RoundsTypes
  <2>5. QED BY <1>3, <1>4, <2>2, <2>3, <2>4
<1>9. CASE ~MayReopen(Completed, s)
  <2>1. LoopLeft' = 3 * Rounds(Completed) + 2
    BY <1>2, <1>4, <1>6, <1>9, EndsLowers
  <2>2. QED BY <1>3, <1>4, <2>1
<1>10. QED BY <1>8, <1>9

\* A report of the request the loop waits for brings the loop nearer, any other leaves it.
LEMMA ReportDescends ==
    ASSUME PlanInv, Report, loop.stage # "idle"
    PROVE  LoopLeft' <= LoopLeft
<1>1. /\ loop \in Loops /\ mem \in Sprints /\ req \in [Step -> Requests] /\ req' \in [Step -> Requests]
      /\ Rounds(mem) \in Nat
  <2>1. PlanInv'
    BY ReportPlans
  <2>2. QED BY <2>1, RoundsTypes DEF PlanInv, Types
<1>2. UNCHANGED <<mem, loop>>
  <2>1. CASE ResearchReports
    BY <2>1 DEF ResearchReports
  <2>2. CASE \E s \in Step : PlannerReports(s)
    BY <2>2 DEF PlannerReports
  <2>3. QED BY <2>1, <2>2 DEF Report
<1>3. \A s \in Step : Waits(req'[s]) <= Waits(req[s])
  <2>1. CASE ResearchReports
    <3>1. /\ req[Milestone].status = "open" /\ req[Milestone].research
          /\ \/ req' = [req EXCEPT ![Milestone].research = FALSE]
             \/ req' = [req EXCEPT ![Milestone].status = "blocked"]
      BY <2>1 DEF ResearchReports
    <3>2. Milestone \in Step
      BY DEF Milestone, Step
    <3>3. Waits(req[Milestone]) = 2 /\ Waits(req'[Milestone]) <= 1
      BY <1>1, <3>1, <3>2 DEF Waits, Requests
    <3>4. \A s \in Step \ {Milestone} : req'[s] = req[s]
      BY <1>1, <3>1
    <3>5. \A s \in Step : Waits(req[s]) \in 0..2 /\ Waits(req'[s]) \in 0..2
      BY DEF Waits
    <3>6. QED BY <3>3, <3>4, <3>5
  <2>2. ASSUME NEW s \in Step, PlannerReports(s)
        PROVE  \A t \in Step : Waits(req'[t]) <= Waits(req[t])
    <3>1. PICK b \in Backlogs, status \in Terminal, plan \in BOOLEAN, persisted \in BOOLEAN,
               titled \in BOOLEAN :
            /\ backlog' = b
            /\ req' = [req EXCEPT ![s] = [@ EXCEPT !.status = status, !.plan = plan,
                                            !.persisted = persisted, !.titled = titled]]
            /\ disk' = [disk EXCEPT !.queue = IF status = "completed" THEN Selected(b) ELSE @]
      BY <2>2, ZenonT(30) DEF PlannerReports
    <3>2. req'[s].status = status
      BY <1>1, <3>1 DEF Requests
    <3>3. Waits(req'[s]) = 0
      BY <3>2 DEF Waits, Terminal
    <3>4. \A t \in Step \ {s} : req'[t] = req[t]
      BY <1>1, <3>1
    <3>5. \A t \in Step : Waits(req[t]) \in 0..2
      BY DEF Waits
    <3>6. QED BY <3>3, <3>4, <3>5
  <2>3. QED BY <2>1, <2>2 DEF Report
<1>4. loop.step \in Step /\ Waits(req[loop.step]) \in 0..2 /\ Waits(req'[loop.step]) \in 0..2
  BY <1>1 DEF Loops, Waits
<1>5. StageLeft(loop, req') <= StageLeft(loop, req)
  BY <1>3, <1>4 DEF StageLeft
<1>6. StageLeft(loop, req') \in 1..6 /\ StageLeft(loop, req) \in 1..6
  BY <1>1, StageTypes
<1>7. /\ LoopLeft = 3 * Rounds(mem) + StageLeft(loop, req)
      /\ LoopLeft' = 3 * Rounds(mem) + StageLeft(loop, req')
  BY <1>2 DEF LoopLeft
<1>8. QED BY <1>1, <1>5, <1>6, <1>7

LEMMA StepDescends == ASSUME PlanInv, [Next]_vars PROVE [Descends]_vars
<1>1. CASE UNCHANGED vars
  BY <1>1
<1>2. LoopLeft \in Nat
  <2>1. Rounds(mem) \in Nat /\ StageLeft(loop, req) \in 1..6
    BY RoundsTypes, StageTypes DEF PlanInv, Types
  <2>2. QED BY <2>1 DEF LoopLeft
<1>3. LoopLeft' \in Nat
  <2>1. PlanInv'
    BY PlanInvStep
  <2>2. Rounds(mem') \in Nat /\ StageLeft(loop', req') \in 1..6
    BY <2>1, RoundsTypes, StageTypes DEF PlanInv, Types
  <2>3. QED BY <2>2 DEF LoopLeft
<1>4. CASE LoopStep /\ loop.stage # "idle"
  <2>1. ~EnterLoop
    BY <1>4 DEF EnterLoop
  <2>2. LoopLeft' < LoopLeft
    BY <1>4, <2>1, AnswersDescend, EndingsDescend DEF LoopStep
  <2>3. QED BY <1>2, <1>3, <2>2 DEF Descends
<1>5. ASSUME Next, ~LoopStep, loop.stage # "idle" PROVE LoopLeft' <= LoopLeft
  <2>1. CASE Report
    BY <1>5, <2>1, ReportDescends
  <2>2. CASE DocumentIsMissing
    BY <2>2, DocumentIsMissingDescends
  <2>3. CASE SendFails \/ ReportFails
    BY <1>2, <1>3, <2>3, EndingsDescend
  <2>4. CASE Crash
    <3>1. LoopLeft' = 0
      BY <2>4 DEF Crash, Returns, Idle, LoopLeft
    <3>2. QED BY <1>2, <3>1
  <2>5. CASE UNCHANGED <<mem, loop, req>>
    <3>1. LoopLeft' = LoopLeft
      BY <2>5 DEF LoopLeft
    <3>2. QED BY <1>2, <3>1
  <2>6. CASE Answer
    BY <2>5, <2>6 DEF Answer, AnswerIsApplied
  <2>7. CASE \E kind \in {"confirm", "change"} : UserAnswers(kind)
    BY <2>5, <2>7 DEF UserAnswers
  <2>8. CASE Stop \/ Restart
    BY <2>5, <2>8 DEF Stop, Restart
  <2>9. QED BY <1>5, <2>1, <2>2, <2>3, <2>4, <2>6, <2>7, <2>8 DEF Next
<1>6. CASE Next
  BY <1>4, <1>5, <1>6 DEF Descends
<1>7. QED BY <1>1, <1>6

\* A run of the initial phase is bounded (_run_initial_sprint_phase): from its entry it
\* takes at most 3 steps and reports for every step of the phase and every reopening of
\* one, whatever the planner reports and however often the process fails meanwhile.
\* This is what PlanningReturns rests on.
THEOREM PlanningDescends ==
    Spec => /\ [](LoopLeft \in Nat /\ LoopLeft <= 15 * MaxReopens + 21)
            /\ [][Descends]_vars
<1>1. PlanInv => LoopLeft \in Nat /\ LoopLeft <= 15 * MaxReopens + 21
  <2>1. ASSUME PlanInv
        PROVE  /\ Rounds(mem) \in Nat /\ Rounds(mem) <= 5 * MaxReopens + 5
               /\ StageLeft(loop, req) \in 1..6
    BY <2>1, RoundsTypes, StageTypes DEF PlanInv, Types
  <2>2. QED BY <2>1, PlanningAssumption DEF LoopLeft
<1>2. PlanInv /\ [Next]_vars => [Descends]_vars
  BY StepDescends
<1>3. QED BY <1>1, <1>2, PlanInvInit, PlanInvStep, PTL DEF Spec

=============================================================================
