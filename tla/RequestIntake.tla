--------------------------- MODULE RequestIntake ---------------------------
(***************************************************************************)
(* How the orchestrator takes in what users write: a message is a          *)
(* requirement of the running sprint, a new request, or a repeat of an     *)
(* open one, which is reused, retried or resumed with what it adds.  The   *)
(* handlers of several messages run at once, each across the awaits of the *)
(* intent parser, its own agent run and the reply; a planner answers the   *)
(* requests handed to it, and a verified document resumes those that wait  *)
(* for it.  A message and the request it creates have the same number.     *)
(***************************************************************************)
EXTENDS Naturals, FiniteSets

CONSTANTS
    Messages,   \* the messages users send
    TextOf,     \* what each asks for; all come from one author and channel
    Attached,   \* those that may bring an attachment
    Forwarded,  \* those another role's bot forwards by the internal relay
    Earlier,    \* those whose requests, from before, wait for a planning document
    MaxCrashes  \* bound of the model

\* Of the requests from before, too, no two say the same.
ASSUME IntakeAssumption ==
    /\ 0 \notin Messages /\ DOMAIN TextOf = Messages
    /\ Attached \subseteq Messages /\ Forwarded \subseteq Messages
    /\ Earlier \subseteq Messages /\ MaxCrashes \in Nat
    /\ \A q, r \in Earlier : TextOf[q] = TextOf[r] => q = r

VARIABLES
    phase,      \* where the handler of each message is
    serves,     \* the request whose run that handler awaits
    requests,   \* the request records
    due,        \* copies of the requests a verification has yet to resume
    \* history variables, read by the properties only:
    skipped,    \* retries that found the request's claim still held
    overtaken,  \* requests on which an older copy was written over a newer
    crashes

history == <<skipped, overtaken, crashes>>
vars == <<phase, serves, requests, due, history>>

Request == [status : {"none", "delegated", "blocked", "closed", "cancelled"},
            role : {"orchestrator", "planner"},
            waits : BOOLEAN,              \* blocked for want of a planning document
            inputs : SUBSET Messages]     \* the attachments it was given
Unmade == [status |-> "none", role |-> "orchestrator", waits |-> FALSE, inputs |-> {}]
FromBefore == [status |-> "blocked", role |-> "planner", waits |-> TRUE, inputs |-> {}]
Copy == [id : Messages, inputs : SUBSET Messages]

Exists(r) == requests[r].status # "none"
Ended(r) == requests[r].status \in {"closed", "cancelled"}
IsOpen(r) == Exists(r) /\ ~Ended(r)
Waiting(r) == requests[r].status = "blocked" /\ requests[r].waits
Running(r) == \E m \in Messages : phase[m] = "running" /\ serves[m] = r
\* _active_request_ids: the claim is held until the reply is out.
Claimed_Released(r) == Running(r)
Claimed(r) == \E m \in Messages : phase[m] \in {"running", "replying"} /\ serves[m] = r

TypeOK ==
    /\ phase \in [Messages -> {"sent", "arriving", "running", "replying", "done"}]
    /\ serves \in [Messages -> Messages \cup {0}]
    /\ requests \in [Messages -> Request]
    /\ due \in [Messages -> SUBSET Copy]
    /\ skipped \subseteq Messages /\ overtaken \subseteq Messages
    /\ crashes \in 0..MaxCrashes
    /\ \A r \in Messages : requests[r].waits => requests[r].status = "blocked"
    /\ \A m \in Messages : (serves[m] # 0) <=> (phase[m] \in {"running", "replying"})
    /\ \A m, n \in Messages : serves[m] = serves[n] /\ serves[m] # 0 => m = n

Init ==
    /\ phase = [m \in Messages |-> IF m \in Earlier THEN "done"
                                    ELSE IF m \in Forwarded THEN "sent" ELSE "arriving"]
    /\ serves = [m \in Messages |-> 0]
    /\ requests = [r \in Messages |-> IF r \in Earlier THEN FromBefore ELSE Unmade]
    /\ due = [r \in Messages |-> {}]
    /\ skipped = {} /\ overtaken = {} /\ crashes = 0

-----------------------------------------------------------------------------
(* A message arrives; in a sprint its handler awaits the intent parser     *)
(* first, and others overtake it.                                          *)

\* Another role's process read it, and passes it on with its requester.
Forward(m) ==
    /\ phase[m] = "sent"
    /\ phase' = [phase EXCEPT ![m] = "arriving"]
    /\ UNCHANGED <<serves, requests, due, history>>

\* A requirement of the sprint, which is no request and goes to its list.
Capture(m) ==
    /\ phase[m] = "arriving"
    /\ phase' = [phase EXCEPT ![m] = "done"]
    /\ UNCHANGED <<serves, requests, due, history>>

\* The fingerprints: by the original requester, whoever forwarded the message.
SameInput(r, m) == TextOf[r] = TextOf[m]
Duplicates_Delegated(m) ==
    {r \in Messages : requests[r].status = "delegated" /\ SameInput(r, m)}
Duplicates(m) == {r \in Messages : IsOpen(r) /\ SameInput(r, m)}

Attachments(m) == SUBSET (Attached \cap {m})

\* Saved as delegated to the orchestrator, and run unless its claim is held.
RunLocally(m, r, record) ==
    /\ requests' = [requests EXCEPT ![r] = record]
    /\ IF Claimed(r)
       THEN /\ phase' = [phase EXCEPT ![m] = "done"]
            /\ skipped' = skipped \cup {r}
            /\ UNCHANGED serves
       ELSE /\ phase' = [phase EXCEPT ![m] = "running"]
            /\ serves' = [serves EXCEPT ![m] = r]
            /\ UNCHANGED skipped

Delegated(inputs) ==
    [status |-> "delegated", role |-> "orchestrator", waits |-> FALSE, inputs |-> inputs]

\* A forwarded message brings its request's id, and replaces a record that ended.
Create(m) ==
    /\ phase[m] = "arriving" /\ Duplicates(m) = {}
    /\ \E inputs \in Attachments(m) : RunLocally(m, m, Delegated(inputs))
    /\ UNCHANGED <<due, overtaken, crashes>>

ShouldRetry(r) == requests[r].status = "blocked" /\ ~requests[r].waits

Retried_Fresh(r) == Delegated({})
Retried(r) == Delegated(requests[r].inputs)
Retry(m, r) ==
    /\ phase[m] = "arriving" /\ r \in Duplicates(m)
    /\ ShouldRetry(r)
    /\ RunLocally(m, r, Retried(r))
    /\ UNCHANGED <<due, overtaken, crashes>>

\* _resume_request_with_context: the planning_resume policy always picks planner.
Resumed_ByItsRole(r, inputs) ==
    [status |-> "delegated", role |-> requests[r].role, waits |-> FALSE, inputs |-> inputs]
Resumed(r, inputs) ==
    [status |-> "delegated", role |-> "planner", waits |-> FALSE, inputs |-> inputs]

\* It brings an attachment, or its text, which the fingerprint leaves out, is new.
Augment(m, r) ==
    /\ phase[m] = "arriving" /\ r \in Duplicates(m)
    /\ requests[r].status = "blocked"
    /\ \E new \in Attachments(m) :
          requests' = [requests EXCEPT ![r] = Resumed(r, @.inputs \cup new)]
    /\ phase' = [phase EXCEPT ![m] = "done"]
    /\ UNCHANGED <<serves, due, history>>

Reusable_Waiting(r) == Waiting(r)
Reusable(r) == requests[r].status = "delegated" \/ Waiting(r)
\* Still at work, or waiting for a document and the message brings nothing new.
Reuse(m, r) ==
    /\ phase[m] = "arriving" /\ r \in Duplicates(m) /\ Reusable(r)
    /\ phase' = [phase EXCEPT ![m] = "done"]
    /\ UNCHANGED <<serves, requests, due, history>>

-----------------------------------------------------------------------------
(* A role's result is applied.                                             *)

Blocked(r, waits) == [requests[r] EXCEPT !.status = "blocked", !.waits = waits]
\* Completed or failed, which no handler of a message tells apart.
Closed(r) == [requests[r] EXCEPT !.status = "closed", !.role = "orchestrator", !.waits = FALSE]

\* The requests a result that verified a document may name.
Named == SUBSET {q \in Messages : Exists(q)}

\* Those it resumes: the named ones that wait, or, if it names none, the only
\* one that waits (one that alone mentions the document is as good as named).
Matched_Idle(v, names) ==
    {r \in names \ {v} : Exists(r) /\ requests[r].status # "delegated"}
Matched(v, names) ==
    LET inferred == {r \in Messages \ {v} : Waiting(r)} IN
    IF names # {} THEN {r \in names \ {v} : Waiting(r)}
    ELSE IF Cardinality(inferred) = 1 THEN inferred ELSE {}

\* The first is resumed at once; its relay is awaited before each of the others,
\* whose records were all read by then.
Verifies(v, names) ==
    LET matched == Matched(v, names) IN
    IF matched = {}
    THEN /\ requests' = [requests EXCEPT ![v] = Closed(v)]
         /\ UNCHANGED due
    ELSE \E first \in matched :
         /\ requests' = [requests EXCEPT ![v] = Closed(v),
                                         ![first] = Resumed(first, @.inputs)]
         /\ due' = [due EXCEPT ![v] =
                       {[id |-> r, inputs |-> requests[r].inputs] : r \in matched \ {first}}]

Overwritten(r) == IF requests[r].status = "cancelled" THEN {r} ELSE {}

\* What any role's result makes of its request.
Applied(r) ==
    \/ /\ \E waits \in BOOLEAN : requests' = [requests EXCEPT ![r] = Blocked(r, waits)]
       /\ UNCHANGED due
    \/ \E names \in Named : Verifies(r, names)

\* _cancel_request_by_id writes "cancelled" over whatever the record says.
CancelsOther(r) ==
    /\ \E target \in Messages \ {r} :
          /\ Exists(target)
          /\ requests' = [requests EXCEPT ![r] = Closed(r), ![target].status = "cancelled",
                                          ![target].waits = FALSE]
    /\ UNCHANGED due

\* A registered action, or a command to the sprint, ends the request.
RunsAction(r) ==
    /\ requests' = [requests EXCEPT ![r] = Closed(r)]
    /\ UNCHANGED due

Controls(r) == CancelsOther(r) \/ RunsAction(r)

HandsOver(r) ==
    /\ requests' = [requests EXCEPT ![r] = Resumed(r, @.inputs)]
    /\ UNCHANGED due

\* The orchestrator's own run ends.  It applies the result to the record the run
\* was given, whatever was saved since, and then awaits the reply.
OrchestratorEnds(m) ==
    LET r == serves[m] IN
    /\ phase[m] = "running"
    /\ Applied(r) \/ Controls(r) \/ HandsOver(r)
    /\ phase' = [phase EXCEPT ![m] = "replying"]
    /\ overtaken' = overtaken \cup Overwritten(r)
    /\ UNCHANGED <<serves, skipped, crashes>>

\* The relay of the next copy is sent; the copy's record is saved first.
ResumeNext(v) ==
    \E copy \in due[v] :
        /\ requests' = [requests EXCEPT ![copy.id] = Resumed(copy.id, copy.inputs)]
        /\ due' = [due EXCEPT ![v] = @ \ {copy}]
        /\ overtaken' = IF Waiting(copy.id) /\ requests[copy.id].inputs = copy.inputs
                        THEN overtaken ELSE overtaken \cup {copy.id}
        /\ UNCHANGED <<phase, serves, skipped, crashes>>

Release(m) ==
    /\ phase[m] = "replying" /\ due[serves[m]] = {}
    /\ phase' = [phase EXCEPT ![m] = "done"]
    /\ serves' = [serves EXCEPT ![m] = 0]
    /\ UNCHANGED <<requests, due, history>>

\* The planner reports on a request it holds.
PlannerReports(r) ==
    /\ requests[r].status = "delegated" /\ requests[r].role = "planner"
    /\ Applied(r)
    /\ UNCHANGED <<phase, serves, history>>

-----------------------------------------------------------------------------
\* The orchestrator restarts.  Its handlers are gone; only a forwarded message
\* is read again, from the relay file that is archived when it was handled.
\* Some of the others have not been sent yet.
Crash ==
    /\ crashes < MaxCrashes
    /\ crashes' = crashes + 1
    /\ \E lost \in SUBSET (Messages \ Forwarded) :
          /\ \A m \in lost : phase[m] = "arriving"
          /\ phase' = [m \in Messages |->
                          IF m \in Forwarded /\ phase[m] \notin {"sent", "done"} THEN "arriving"
                          ELSE IF phase[m] \in {"running", "replying"} \/ m \in lost THEN "done"
                          ELSE phase[m]]
    /\ serves' = [m \in Messages |-> 0]
    /\ due' = [r \in Messages |-> {}]
    /\ UNCHANGED <<requests, skipped, overtaken>>

Handle(m) ==
    \/ Create(m)
    \/ \E r \in Messages : Retry(m, r) \/ Augment(m, r) \/ Reuse(m, r)

Next ==
    \/ \E m \in Messages :
          \/ Forward(m) \/ Capture(m) \/ Handle(m)
          \/ OrchestratorEnds(m) \/ ResumeNext(m) \/ Release(m) \/ PlannerReports(m)
    \/ Crash

\* Handlers that run go on, and agents end their runs.
Progress ==
    \E m \in Messages : Forward(m) \/ Handle(m) \/ OrchestratorEnds(m) \/ ResumeNext(m) \/ Release(m)
                        \/ PlannerReports(m)
Fairness == WF_vars(Progress)

Spec == Init /\ [][Next]_vars /\ Fairness

-----------------------------------------------------------------------------
(* Properties.                                                             *)

ReadTwice == IF crashes = 0 THEN {} ELSE Forwarded

\* However their handlers overtake each other, two messages that say the same
\* never have two open requests (handle_user_request looks for the duplicate
\* after its awaits), unless an older copy of a record came back.
OneOpenRequest ==
    \A q, r \in Messages \ overtaken :
        IsOpen(q) /\ IsOpen(r) /\ SameInput(q, r) => q = r

\* A request the orchestrator gave to itself is being run by it, and nobody else
\* is at work on a request it runs (_claim_request); a crash, a retry that
\* finds the claim still held and an older copy are the ways to break this.
OwnerIsAtWork ==
    \A r \in Messages :
        crashes = 0 /\ r \notin skipped \cup overtaken =>
            /\ requests[r].status = "delegated" /\ requests[r].role = "orchestrator"
                  => Running(r)
            /\ Running(r) => requests[r].role = "orchestrator"
                             /\ requests[r].status \in {"delegated", "cancelled"}

\* One request for a wish, in one pair of hands.
RequestsAreSingle == TypeOK /\ OneOpenRequest /\ OwnerIsAtWork

\* A request that ended is not opened again, neither by a message nor by a
\* document, but by the write of an older copy or a forward that is read twice.
EndedStaysEnded ==
    [][\A r \in Messages :
         Ended(r) /\ IsOpen(r)' => r \in overtaken' \cup ReadTwice]_vars

\* What a request was given with one message it still has when others have
\* retried it, resumed it and cancelled it, with the same two exceptions.
InputsAreKept ==
    [][\A r \in Messages \ (overtaken' \cup ReadTwice) :
         requests[r].inputs \subseteq requests'[r].inputs]_vars

\* Every message is taken, by a request, another's or the sprint, and no request
\* stays in anyone's hands: each ends, or is blocked and the user told, unless
\* its run was skipped or died with the process.  (Requests that older copies
\* bring back can verify and resume each other without end.)
EverythingIsSettled ==
    <>[](overtaken # {}
         \/ \A r \in Messages :
               /\ phase[r] = "done"
               /\ requests[r].status = "delegated" => r \in skipped \/ crashes > 0)
=============================================================================
