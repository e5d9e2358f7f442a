------------------------ MODULE RequestIntakeProofs ------------------------
(***************************************************************************)
(* Theorems about RequestIntake, for any messages, texts and crashes: a    *)
(* wish has one open request, in one pair of hands; what ended stays ended *)
(* and what was given is kept, unless an older copy is written back.       *)
(***************************************************************************)
EXTENDS RequestIntake, TLAPS

\* A request that was never made holds nothing, and what handlers serve and copies
\* name was made.
WhatIsServedExists ==
    /\ \A r \in Messages : ~Exists(r) => requests[r].inputs = {}
    /\ \A m \in Messages : serves[m] # 0 => Exists(serves[m])
    /\ \A v \in Messages : \A copy \in due[v] : Exists(copy.id)

\* A message that is still to be taken has no request yet, unless it is read twice.
FirstReadIsNew ==
    \A m \in Messages : phase[m] \in {"sent", "arriving"} /\ Exists(m) => m \in ReadTwice

\* What the orchestrator runs has not ended and gone to anyone else, through retries
\* that find the claim held and through crashes too: only a cancellation or an older
\* copy comes between.
RunIsItsOwn ==
    \A r \in Messages \ overtaken :
        Running(r) => requests[r].role = "orchestrator"
                      /\ requests[r].status \in {"delegated", "cancelled"}

IInv ==
    /\ TypeOK /\ OneOpenRequest /\ OwnerIsAtWork
    /\ WhatIsServedExists /\ FirstReadIsNew /\ RunIsItsOwn

-----------------------------------------------------------------------------
Copies == SUBSET Copy
WaitsWhenBlocked(record) == record.waits => record.status = "blocked"

\* What the types say of one request and one message.
LEMMA TypesOfOne ==
    ASSUME TypeOK, NEW r \in Messages
    PROVE  /\ requests[r] \in Request /\ WaitsWhenBlocked(requests[r])
           /\ requests[r].inputs \subseteq Messages
           /\ due[r] \subseteq Copy /\ serves[r] \in Messages \cup {0}
           /\ serves[r] # 0 <=> phase[r] \in {"running", "replying"}
BY DEF TypeOK, Request, WaitsWhenBlocked

\* The records that handlers write are records.
LEMMA RecordsAreMade ==
    ASSUME TypeOK, NEW r \in Messages, NEW inputs \in SUBSET Messages
    PROVE  /\ Delegated(inputs) \in Request /\ WaitsWhenBlocked(Delegated(inputs))
           /\ Resumed(r, inputs) \in Request /\ WaitsWhenBlocked(Resumed(r, inputs))
           /\ Closed(r) \in Request /\ WaitsWhenBlocked(Closed(r))
           /\ \A waits \in BOOLEAN :
                Blocked(r, waits) \in Request /\ WaitsWhenBlocked(Blocked(r, waits))
<1>1. /\ requests[r] \in Request /\ WaitsWhenBlocked(requests[r])
  BY TypesOfOne
<1>2. Delegated(inputs) \in Request /\ Resumed(r, inputs) \in Request
  BY DEF Delegated, Resumed, Request
<1>3. WaitsWhenBlocked(Delegated(inputs)) /\ WaitsWhenBlocked(Resumed(r, inputs))
  BY DEF Delegated, Resumed, WaitsWhenBlocked
<1>4. Closed(r) \in Request /\ WaitsWhenBlocked(Closed(r))
  BY <1>1 DEF Closed, Request, WaitsWhenBlocked
<1>5. ASSUME NEW waits \in BOOLEAN
      PROVE  Blocked(r, waits) \in Request /\ WaitsWhenBlocked(Blocked(r, waits))
  BY <1>1 DEF Blocked, Request, WaitsWhenBlocked
<1>6. QED BY <1>2, <1>3, <1>4, <1>5

\* A result resumes none but requests that wait, and not the one it is about.
LEMMA MatchedWait ==
    ASSUME NEW v \in Messages, NEW names \in SUBSET Messages, NEW r \in Matched(v, names)
    PROVE  r \in Messages \ {v} /\ Waiting(r)
<1> DEFINE inferred == {q \in Messages \ {v} : Waiting(q)}
<1>1. \/ Matched(v, names) = {q \in names \ {v} : Waiting(q)}
      \/ Matched(v, names) = inferred
      \/ Matched(v, names) = {}
  BY DEF Matched
<1>2. QED BY <1>1

\* What a role's result makes of its request, and of those that wait for a document.
LEMMA AppliedWrites ==
    ASSUME TypeOK, NEW v \in Messages, Exists(v), Applied(v)
    PROVE  /\ requests' \in [Messages -> Request]
           /\ \A q \in Messages : WaitsWhenBlocked(requests'[q]) /\ (Exists(q) => Exists(q)')
           /\ requests'[v].inputs = requests[v].inputs
           /\ requests'[v].status \in {"blocked", "closed"}
           /\ \A q \in Messages \ {v} :
                \/ requests'[q] = requests[q]
                \/ Waiting(q) /\ requests'[q] = Resumed(q, requests[q].inputs)
           /\ due' \in [Messages -> Copies]
           /\ \A q \in Messages \ {v} : due'[q] = due[q]
           /\ \A copy \in due'[v] : copy \in due[v] \/ Waiting(copy.id)
<1>1. requests \in [Messages -> Request] /\ due \in [Messages -> Copies]
  BY DEF TypeOK, Copies
<1>2. ASSUME NEW waits \in BOOLEAN, requests' = [requests EXCEPT ![v] = Blocked(v, waits)],
             UNCHANGED due
      PROVE  /\ requests' \in [Messages -> Request]
             /\ requests'[v] = Blocked(v, waits)
             /\ \A q \in Messages \ {v} : requests'[q] = requests[q]
             /\ \A q \in Messages : WaitsWhenBlocked(requests'[q])
  BY <1>1, <1>2, RecordsAreMade, TypesOfOne
<1>3. ASSUME NEW waits \in BOOLEAN
      PROVE  Blocked(v, waits).status = "blocked" /\ Blocked(v, waits).inputs = requests[v].inputs
  BY TypesOfOne DEF Blocked, Request
<1>4. Closed(v).status = "closed" /\ Closed(v).inputs = requests[v].inputs
  BY TypesOfOne DEF Closed, Request
<1>5. CASE \E waits \in BOOLEAN : requests' = [requests EXCEPT ![v] = Blocked(v, waits)]
                                  /\ UNCHANGED due
  BY <1>1, <1>2, <1>3, <1>5 DEF Exists
<1>6. ASSUME NEW names \in Named, Verifies(v, names), Matched(v, names) = {}
      PROVE  /\ requests' \in [Messages -> Request] /\ UNCHANGED due
             /\ requests'[v] = Closed(v)
             /\ \A q \in Messages \ {v} : requests'[q] = requests[q]
             /\ \A q \in Messages : WaitsWhenBlocked(requests'[q])
  BY <1>1, <1>6, RecordsAreMade, TypesOfOne DEF Verifies
<1>7. ASSUME NEW names \in Named, Verifies(v, names), Matched(v, names) # {}
      PROVE  /\ requests' \in [Messages -> Request]
             /\ requests'[v] = Closed(v)
             /\ \A q \in Messages \ {v} :
                  \/ requests'[q] = requests[q]
                  \/ Waiting(q) /\ requests'[q] = Resumed(q, requests[q].inputs)
             /\ \A q \in Messages : WaitsWhenBlocked(requests'[q])
             /\ due' \in [Messages -> Copies]
             /\ \A q \in Messages \ {v} : due'[q] = due[q]
             /\ \A copy \in due'[v] : Waiting(copy.id)
  <2>1. PICK first \in Matched(v, names) :
          /\ requests' = [requests EXCEPT ![v] = Closed(v),
                                          ![first] = Resumed(first, @.inputs)]
          /\ due' = [due EXCEPT ![v] = {[id |-> r, inputs |-> requests[r].inputs] :
                                           r \in Matched(v, names) \ {first}}]
    BY <1>7 DEF Verifies
  <2>2. first \in Messages \ {v} /\ Waiting(first)
    BY MatchedWait DEF Named
  <2>3. /\ requests'[v] = Closed(v)
        /\ requests'[first] = Resumed(first, requests[first].inputs)
        /\ \A q \in Messages \ {v, first} : requests'[q] = requests[q]
        /\ requests' \in [Messages -> Request]
    <3>1. Closed(v) \in Request /\ Resumed(first, requests[first].inputs) \in Request
      BY <2>2, RecordsAreMade, TypesOfOne
    <3>2. QED BY <1>1, <2>1, <2>2, <3>1
  <2>4. \A q \in Messages : WaitsWhenBlocked(requests'[q])
    BY <2>2, <2>3, RecordsAreMade, TypesOfOne
  <2>5. \A r \in Matched(v, names) :
           [id |-> r, inputs |-> requests[r].inputs] \in Copy /\ Waiting(r)
    BY MatchedWait, TypesOfOne DEF Copy, Named
  <2>6. /\ due' \in [Messages -> Copies]
        /\ \A q \in Messages \ {v} : due'[q] = due[q]
        /\ \A copy \in due'[v] : Waiting(copy.id)
    BY <1>1, <2>1, <2>5 DEF Copies
  <2>7. QED BY <2>2, <2>3, <2>4, <2>6
<1>8. \A q \in Messages : Resumed(q, requests[q].inputs).status = "delegated"
  BY DEF Resumed
<1>9. CASE \E names \in Named : Verifies(v, names)
  BY <1>1, <1>4, <1>6, <1>7, <1>8, <1>9 DEF Exists
<1>10. QED BY <1>5, <1>9 DEF Applied

-----------------------------------------------------------------------------
\* A run that begins, or is skipped, writes the one record it is about.
LEMMA LocalRunWrites ==
    ASSUME TypeOK, NEW m \in Messages, NEW r \in Messages, NEW inputs \in SUBSET Messages,
           phase[m] = "arriving", RunLocally(m, r, Delegated(inputs))
    PROVE  /\ requests' = [requests EXCEPT ![r] = Delegated(inputs)]
           /\ \/ /\ phase' = [phase EXCEPT ![m] = "done"] /\ UNCHANGED serves
                 /\ skipped' = skipped \cup {r} /\ Claimed(r)
              \/ /\ phase' = [phase EXCEPT ![m] = "running"]
                 /\ serves' = [serves EXCEPT ![m] = r]
                 /\ UNCHANGED skipped /\ ~Claimed(r)
BY DEF RunLocally

\* How a record may change: it stays, it is created for its own message, it is open
\* and keeps what it was given, it is cancelled, or an older copy is involved.
MayBecome(q) ==
    \/ requests'[q] = requests[q]
    \/ Create(q) /\ ~IsOpen(q)
    \/ IsOpen(q) /\ requests[q].inputs \subseteq requests'[q].inputs
    \/ Exists(q) /\ Ended(q)' /\ requests[q].inputs \subseteq requests'[q].inputs
    \/ Exists(q) /\ q \in overtaken'

AllMayBecome ==
    /\ requests' \in [Messages -> Request]
    /\ \A q \in Messages :
          WaitsWhenBlocked(requests'[q]) /\ (Exists(q)' \/ requests'[q] = requests[q]) /\ MayBecome(q)
    /\ overtaken \subseteq overtaken'

\* A step that writes one record, properly, leaves the others as they are.
LEMMA OneBecomes ==
    ASSUME TypeOK, NEW r \in Messages, NEW record \in Request, WaitsWhenBlocked(record),
           requests' = [requests EXCEPT ![r] = record], record.status # "none",
           overtaken \subseteq overtaken', MayBecome(r)
    PROVE  AllMayBecome
<1>1. requests \in [Messages -> Request]
  BY DEF TypeOK
<1>2. requests' \in [Messages -> Request] /\ requests'[r] = record
  BY <1>1
<1>3. \A q \in Messages \ {r} : requests'[q] = requests[q]
  BY <1>1
<1>4. ASSUME NEW q \in Messages
      PROVE  WaitsWhenBlocked(requests'[q]) /\ (Exists(q)' \/ requests'[q] = requests[q]) /\ MayBecome(q)
  <2>1. CASE q = r
    BY <1>2, <2>1 DEF Exists
  <2>2. CASE q # r
    BY <1>3, <2>2, TypesOfOne DEF Exists, MayBecome
  <2>3. QED BY <2>1, <2>2
<1>5. QED BY <1>2, <1>4 DEF AllMayBecome

\* So with a result that is applied, to a request that is open or overtaken.
LEMMA AppliedBecomes ==
    ASSUME TypeOK, NEW v \in Messages, Exists(v), Applied(v),
           overtaken \subseteq overtaken', IsOpen(v) \/ v \in overtaken'
    PROVE  AllMayBecome
<1>1. /\ requests' \in [Messages -> Request]
      /\ \A q \in Messages : WaitsWhenBlocked(requests'[q]) /\ (Exists(q) => Exists(q)')
      /\ requests'[v].inputs = requests[v].inputs
      /\ \A q \in Messages \ {v} :
            \/ requests'[q] = requests[q]
            \/ Waiting(q) /\ requests'[q] = Resumed(q, requests[q].inputs)
  BY AppliedWrites
<1>0. requests'[v].status \in {"blocked", "closed"}
  BY AppliedWrites
<1>2. MayBecome(v)
  BY <1>1 DEF MayBecome
<1>3. ASSUME NEW q \in Messages \ {v} PROVE MayBecome(q)
  <2>1. CASE requests'[q] = requests[q]
    BY <2>1 DEF MayBecome
  <2>2. CASE Waiting(q) /\ requests'[q] = Resumed(q, requests[q].inputs)
    <3>1. IsOpen(q)
      BY <2>2 DEF Waiting, IsOpen, Exists, Ended
    <3>2. requests'[q].inputs = requests[q].inputs
      BY <2>2 DEF Resumed
    <3>3. QED BY <3>1, <3>2 DEF MayBecome
  <2>3. QED BY <1>1, <2>1, <2>2
<1>4. ASSUME NEW q \in Messages PROVE Exists(q)' \/ requests'[q] = requests[q]
  BY <1>0, <1>1 DEF Exists, Waiting
<1>5. QED BY <1>1, <1>2, <1>3, <1>4 DEF AllMayBecome

\* What the orchestrator's run is about is open, cancelled or overtaken.
LEMMA ServedIsOpen ==
    ASSUME IInv, NEW m \in Messages, phase[m] = "running"
    PROVE  /\ serves[m] \in Messages /\ Exists(serves[m])
           /\ \/ serves[m] \in overtaken
              \/ requests[serves[m]].status = "cancelled"
              \/ requests[serves[m]].status = "delegated"
<1>1. /\ serves[m] \in Messages /\ Running(serves[m])
  BY TypesOfOne DEF IInv, Running
<1>2. WhatIsServedExists /\ RunIsItsOwn
  BY DEF IInv
<1>3. serves[m] # 0
  BY <1>1, IntakeAssumption
<1>4. QED BY <1>1, <1>2, <1>3 DEF WhatIsServedExists, RunIsItsOwn

\* Every step moves every record so.
LEMMA RecordsMove ==
    ASSUME IInv, [Next]_vars
    PROVE  AllMayBecome
<1>1. TypeOK /\ requests \in [Messages -> Request] /\ WhatIsServedExists
  BY DEF IInv, TypeOK
<1>2. ASSUME NEW m \in Messages, Create(m) PROVE AllMayBecome
  <2>1. PICK inputs \in Attachments(m) : RunLocally(m, m, Delegated(inputs))
    BY <1>2 DEF Create
  <2>2. inputs \in SUBSET Messages /\ UNCHANGED overtaken
    BY <1>2, <2>1, IntakeAssumption DEF Attachments, Create
  <2>3. requests' = [requests EXCEPT ![m] = Delegated(inputs)]
    BY <2>1 DEF RunLocally
  <2>4. ~IsOpen(m)
    BY <1>2 DEF Create, Duplicates, SameInput
  <2>5. Delegated(inputs).status # "none"
    BY DEF Delegated
  <2>6. QED BY <1>1, <1>2, <2>2, <2>3, <2>4, <2>5, OneBecomes, RecordsAreMade DEF MayBecome
<1>3. ASSUME NEW m \in Messages, NEW r \in Messages, Retry(m, r) PROVE AllMayBecome
  <2>1. requests' = [requests EXCEPT ![r] = Delegated(requests[r].inputs)] /\ UNCHANGED overtaken
    BY <1>3 DEF Retry, RunLocally, Retried
  <2>2. IsOpen(r)
    BY <1>3 DEF Retry, Duplicates
  <2>3. requests[r].inputs \in SUBSET Messages
    BY <1>1, TypesOfOne
  <2>4. Delegated(requests[r].inputs).status # "none"
    BY DEF Delegated
  <2>5. requests'[r].inputs = requests[r].inputs
    BY <1>1, <2>1 DEF Delegated
  <2>6. QED BY <1>1, <2>1, <2>2, <2>3, <2>4, <2>5, OneBecomes, RecordsAreMade DEF MayBecome
<1>4. ASSUME NEW m \in Messages, NEW r \in Messages, Augment(m, r) PROVE AllMayBecome
  <2>1. PICK new \in Attachments(m) :
          requests' = [requests EXCEPT ![r] = Resumed(r, requests[r].inputs \cup new)]
    BY <1>1, <1>4 DEF Augment
  <2>2. IsOpen(r) /\ UNCHANGED overtaken
    BY <1>4 DEF Augment, Duplicates, history
  <2>3. requests[r].inputs \cup new \in SUBSET Messages
    BY <1>1, TypesOfOne, IntakeAssumption DEF Attachments
  <2>4. Resumed(r, requests[r].inputs \cup new).status # "none"
    BY DEF Resumed
  <2>5. requests'[r].inputs = requests[r].inputs \cup new
    BY <1>1, <2>1 DEF Resumed
  <2>6. QED BY <1>1, <2>1, <2>2, <2>3, <2>4, <2>5, OneBecomes, RecordsAreMade DEF MayBecome
<1>5. ASSUME NEW m \in Messages, OrchestratorEnds(m) PROVE AllMayBecome
  <2> DEFINE r == serves[m]
  <2>1. /\ r \in Messages /\ Exists(r)
        /\ r \in overtaken \/ requests[r].status \in {"cancelled", "delegated"}
    BY <1>5, ServedIsOpen DEF OrchestratorEnds
  <2>2. overtaken' = overtaken \cup Overwritten(r)
    BY <1>5 DEF OrchestratorEnds
  <2>3. IsOpen(r) \/ r \in overtaken'
    BY <2>1, <2>2 DEF IsOpen, Exists, Ended, Overwritten
  <2>4. Closed(r).inputs = requests[r].inputs /\ Closed(r).status = "closed"
    BY <1>1, <2>1, TypesOfOne DEF Closed, Request
  <2>5. requests[r].inputs \in SUBSET Messages
    BY <1>1, <2>1, TypesOfOne
  <2>6. CASE Applied(r)
    BY <1>1, <2>1, <2>2, <2>3, <2>6, AppliedBecomes
  <2>7. CASE RunsAction(r)
    <3>1. requests' = [requests EXCEPT ![r] = Closed(r)]
      BY <2>7 DEF RunsAction
    <3>2. requests'[r] = Closed(r)
      BY <1>1, <2>1, <3>1
    <3>3. MayBecome(r)
      BY <2>1, <2>3, <2>4, <3>2 DEF MayBecome
    <3>4. QED BY <1>1, <2>1, <2>2, <2>4, <2>5, <3>1, <3>3, OneBecomes, RecordsAreMade
  <2>8. CASE HandsOver(r)
    <3>1. requests' = [requests EXCEPT ![r] = Resumed(r, requests[r].inputs)]
      BY <1>1, <2>1, <2>8 DEF HandsOver
    <3>2. requests'[r] = Resumed(r, requests[r].inputs)
      BY <1>1, <2>1, <3>1
    <3>3. MayBecome(r)
      BY <2>1, <2>3, <3>2 DEF MayBecome, Resumed
    <3>4. Resumed(r, requests[r].inputs).status # "none"
      BY DEF Resumed
    <3>5. QED BY <1>1, <2>1, <2>2, <2>5, <3>1, <3>3, <3>4, OneBecomes, RecordsAreMade
  <2>9. CASE CancelsOther(r)
    <3>1. PICK target \in Messages \ {r} :
            /\ Exists(target)
            /\ requests' = [requests EXCEPT ![r] = Closed(r), ![target].status = "cancelled",
                                            ![target].waits = FALSE]
      BY <2>9 DEF CancelsOther
    <3> DEFINE record == [requests[target] EXCEPT !.status = "cancelled", !.waits = FALSE]
    <3>2. /\ record \in Request /\ WaitsWhenBlocked(record) /\ record.status = "cancelled"
          /\ record.inputs = requests[target].inputs
      BY <1>1, TypesOfOne DEF Request, WaitsWhenBlocked
    <3>3. /\ requests' \in [Messages -> Request]
          /\ requests'[r] = Closed(r) /\ requests'[target] = record
          /\ \A q \in Messages \ {r, target} : requests'[q] = requests[q]
      <4>1. Closed(r) \in Request
        BY <1>1, <2>1, <2>5, RecordsAreMade
      <4>2. requests' = [[requests EXCEPT ![r] = Closed(r)] EXCEPT ![target] = record]
        BY <1>1, <2>1, <3>1
      <4>3. QED BY <1>1, <2>1, <3>2, <4>1, <4>2
    <3> HIDE DEF record
    <3>4. ASSUME NEW q \in Messages
          PROVE  WaitsWhenBlocked(requests'[q]) /\ (Exists(q)' \/ requests'[q] = requests[q]) /\ MayBecome(q)
      <4>1. CASE q = r
        BY <1>1, <2>1, <2>3, <2>4, <2>5, <3>3, <4>1, RecordsAreMade DEF MayBecome, Exists
      <4>2. CASE q = target
        BY <3>1, <3>2, <3>3, <4>2 DEF MayBecome, Exists, Ended
      <4>3. CASE q \notin {r, target}
        BY <1>1, <3>3, <4>3, TypesOfOne DEF MayBecome, Exists
      <4>4. QED BY <4>1, <4>2, <4>3
    <3>5. QED BY <2>2, <3>3, <3>4 DEF AllMayBecome
  <2>10. QED BY <1>5, <2>6, <2>7, <2>8, <2>9 DEF OrchestratorEnds, Controls
<1>6. ASSUME NEW v \in Messages, ResumeNext(v) PROVE AllMayBecome
  <2>1. PICK copy \in due[v] :
          /\ requests' = [requests EXCEPT ![copy.id] = Resumed(copy.id, copy.inputs)]
          /\ overtaken' = IF Waiting(copy.id) /\ requests[copy.id].inputs = copy.inputs
                          THEN overtaken ELSE overtaken \cup {copy.id}
    BY <1>6 DEF ResumeNext
  <2>2. copy.id \in Messages /\ copy.inputs \in SUBSET Messages
    BY <1>1, <2>1, TypesOfOne DEF Copy
  <2>3. requests'[copy.id] = Resumed(copy.id, copy.inputs)
    BY <1>1, <2>1, <2>2
  <2>4. MayBecome(copy.id)
    <3>1. CASE copy.id \in overtaken'
      BY <1>1, <2>1, <3>1 DEF MayBecome, WhatIsServedExists
    <3>2. CASE Waiting(copy.id) /\ requests[copy.id].inputs = copy.inputs
      BY <2>3, <3>2 DEF MayBecome, Waiting, IsOpen, Exists, Ended, Resumed
    <3>3. QED BY <2>1, <3>1, <3>2
  <2>5. Resumed(copy.id, copy.inputs).status # "none"
    BY DEF Resumed
  <2>6. QED BY <1>1, <2>1, <2>2, <2>4, <2>5, OneBecomes, RecordsAreMade
<1>7. ASSUME NEW r \in Messages, PlannerReports(r) PROVE AllMayBecome
  BY <1>1, <1>7, AppliedBecomes DEF PlannerReports, IsOpen, Exists, Ended, history
<1>8. CASE UNCHANGED <<requests, overtaken>>
  BY <1>1, <1>8, TypesOfOne DEF AllMayBecome, MayBecome, Exists
<1>9. ASSUME NEW m \in Messages, NEW r \in Messages,
             Forward(m) \/ Capture(m) \/ Release(m) \/ Reuse(m, r)
      PROVE  UNCHANGED <<requests, overtaken>>
  BY <1>9 DEF Forward, Capture, Release, Reuse, history
<1>10. Crash \/ UNCHANGED vars => UNCHANGED <<requests, overtaken>>
  BY DEF Crash, vars, history
<1>11. QED BY <1>2, <1>3, <1>4, <1>5, <1>6, <1>7, <1>8, <1>9, <1>10 DEF Next, Handle

-----------------------------------------------------------------------------
\* The handlers go on one at a time, but for a crash, that ends them all.
LEMMA HandlersMove ==
    ASSUME TypeOK, [Next]_vars
    PROVE  \/ UNCHANGED <<phase, serves>>
           \/ \E m \in Messages :
                \/ /\ phase[m] \in {"sent", "arriving"} /\ UNCHANGED serves
                   /\ \/ phase' = [phase EXCEPT ![m] = "arriving"] /\ Forward(m)
                      \/ phase' = [phase EXCEPT ![m] = "done"]
                \/ \E r \in Messages, inputs \in SUBSET Messages :
                     /\ phase[m] = "arriving" /\ ~Claimed(r)
                     /\ phase' = [phase EXCEPT ![m] = "running"]
                     /\ serves' = [serves EXCEPT ![m] = r]
                     /\ requests' = [requests EXCEPT ![r] = Delegated(inputs)]
                \/ /\ OrchestratorEnds(m) /\ phase[m] = "running" /\ UNCHANGED serves
                   /\ phase' = [phase EXCEPT ![m] = "replying"]
                \/ /\ phase[m] = "replying" /\ phase' = [phase EXCEPT ![m] = "done"]
                   /\ serves' = [serves EXCEPT ![m] = 0] /\ UNCHANGED requests
           \/ Crash
<1>1. ASSUME NEW m \in Messages, Create(m)
      PROVE  \E inputs \in SUBSET Messages :
               phase[m] = "arriving" /\ RunLocally(m, m, Delegated(inputs))
  BY <1>1, IntakeAssumption DEF Create, Attachments
<1>2. ASSUME NEW m \in Messages, NEW r \in Messages, Retry(m, r)
      PROVE  \E inputs \in SUBSET Messages :
               phase[m] = "arriving" /\ RunLocally(m, r, Delegated(inputs))
  BY <1>2, TypesOfOne DEF Retry, Retried
<1>3. ASSUME NEW m \in Messages, NEW r \in Messages, NEW inputs \in SUBSET Messages,
             phase[m] = "arriving", RunLocally(m, r, Delegated(inputs))
      PROVE  \/ phase' = [phase EXCEPT ![m] = "done"] /\ UNCHANGED serves
             \/ /\ phase' = [phase EXCEPT ![m] = "running"] /\ ~Claimed(r)
                /\ serves' = [serves EXCEPT ![m] = r]
                /\ requests' = [requests EXCEPT ![r] = Delegated(inputs)]
  BY <1>3, LocalRunWrites
<1>4. ASSUME NEW m \in Messages, NEW r \in Messages, Augment(m, r) \/ Reuse(m, r)
      PROVE  /\ phase[m] = "arriving" /\ UNCHANGED serves
             /\ phase' = [phase EXCEPT ![m] = "done"]
  BY <1>4 DEF Augment, Reuse
<1>5. ASSUME NEW m \in Messages, Forward(m) \/ Capture(m)
      PROVE  /\ phase[m] \in {"sent", "arriving"} /\ UNCHANGED serves
             /\ \/ phase' = [phase EXCEPT ![m] = "arriving"] /\ Forward(m)
                \/ phase' = [phase EXCEPT ![m] = "done"]
  BY <1>5 DEF Forward, Capture
<1>6. ASSUME NEW m \in Messages, OrchestratorEnds(m)
      PROVE  /\ phase[m] = "running" /\ UNCHANGED serves
             /\ phase' = [phase EXCEPT ![m] = "replying"]
  BY <1>6 DEF OrchestratorEnds
<1>7. ASSUME NEW m \in Messages, Release(m)
      PROVE  /\ phase[m] = "replying" /\ phase' = [phase EXCEPT ![m] = "done"]
             /\ serves' = [serves EXCEPT ![m] = 0] /\ UNCHANGED requests
  BY <1>7 DEF Release
<1>8. ASSUME NEW m \in Messages, ResumeNext(m) \/ PlannerReports(m)
      PROVE  UNCHANGED <<phase, serves>>
  BY <1>8 DEF ResumeNext, PlannerReports
<1>9. UNCHANGED vars => UNCHANGED <<phase, serves>>
  BY DEF vars
<1>10. ASSUME NEW m \in Messages, Handle(m)
       PROVE  \/ /\ phase[m] \in {"sent", "arriving"} /\ UNCHANGED serves
                 /\ phase' = [phase EXCEPT ![m] = "done"]
              \/ \E r \in Messages, inputs \in SUBSET Messages :
                     /\ phase[m] = "arriving" /\ ~Claimed(r)
                     /\ phase' = [phase EXCEPT ![m] = "running"]
                     /\ serves' = [serves EXCEPT ![m] = r]
                     /\ requests' = [requests EXCEPT ![r] = Delegated(inputs)]
  BY <1>1, <1>2, <1>3, <1>4, <1>10 DEF Handle
<1>11. QED BY <1>5, <1>6, <1>7, <1>8, <1>9, <1>10 DEF Next

\* The handlers keep their types; no two serve one request.
LEMMA HandlersTyped ==
    ASSUME TypeOK, [Next]_vars
    PROVE  /\ phase' \in [Messages -> {"sent", "arriving", "running", "replying", "done"}]
           /\ serves' \in [Messages -> Messages \cup {0}]
           /\ \A m \in Messages : (serves'[m] # 0) <=> (phase'[m] \in {"running", "replying"})
           /\ \A m, n \in Messages : serves'[m] = serves'[n] /\ serves'[m] # 0 => m = n
<1> DEFINE Goal ==
           /\ phase' \in [Messages -> {"sent", "arriving", "running", "replying", "done"}]
           /\ serves' \in [Messages -> Messages \cup {0}]
           /\ \A m \in Messages : (serves'[m] # 0) <=> (phase'[m] \in {"running", "replying"})
           /\ \A m, n \in Messages : serves'[m] = serves'[n] /\ serves'[m] # 0 => m = n
<1>1. /\ phase \in [Messages -> {"sent", "arriving", "running", "replying", "done"}]
      /\ serves \in [Messages -> Messages \cup {0}]
      /\ \A m \in Messages : (serves[m] # 0) <=> (phase[m] \in {"running", "replying"})
      /\ \A m, n \in Messages : serves[m] = serves[n] /\ serves[m] # 0 => m = n
      /\ 0 \notin Messages
  BY IntakeAssumption DEF TypeOK
<1>2. CASE UNCHANGED <<phase, serves>>
  BY <1>1, <1>2
<1>3. ASSUME NEW m \in Messages, phase[m] \in {"sent", "arriving"}, UNCHANGED serves,
             NEW to \in {"arriving", "done"}, phase' = [phase EXCEPT ![m] = to]
      PROVE  Goal
  BY <1>1, <1>3
<1>4. ASSUME NEW m \in Messages, NEW r \in Messages, phase[m] = "arriving", ~Claimed(r),
             phase' = [phase EXCEPT ![m] = "running"], serves' = [serves EXCEPT ![m] = r]
      PROVE  Goal
  <2>1. \A n \in Messages : serves[n] # r
    BY <1>1, <1>4 DEF Claimed
  <2>2. serves'[m] = r /\ \A n \in Messages \ {m} : serves'[n] = serves[n]
    BY <1>1, <1>4
  <2>3. \A n, k \in Messages : serves'[n] = serves'[k] /\ serves'[n] # 0 => n = k
    BY <1>1, <2>1, <2>2
  <2>4. QED BY <1>1, <1>4, <2>3
<1>5. ASSUME NEW m \in Messages, phase[m] = "running", UNCHANGED serves,
             phase' = [phase EXCEPT ![m] = "replying"]
      PROVE  Goal
  BY <1>1, <1>5
<1>6. ASSUME NEW m \in Messages, phase[m] = "replying", phase' = [phase EXCEPT ![m] = "done"],
             serves' = [serves EXCEPT ![m] = 0]
      PROVE  Goal
  BY <1>1, <1>6
<1>7. CASE Crash
  <2>1. serves' = [m \in Messages |-> 0]
    BY <1>7 DEF Crash
  <2>2. /\ phase' \in [Messages -> {"sent", "arriving", "running", "replying", "done"}]
        /\ \A m \in Messages : phase'[m] \in {"sent", "arriving", "done"}
    BY <1>1, <1>7 DEF Crash
  <2>3. QED BY <2>1, <2>2
<1>8. QED BY <1>2, <1>3, <1>4, <1>5, <1>6, <1>7, HandlersMove

\* The copies that are due are copies, of requests that were made.
LEMMA CopiesKept ==
    ASSUME IInv, [Next]_vars
    PROVE  /\ due' \in [Messages -> Copies]
           /\ \A v \in Messages : \A copy \in due'[v] : Exists(copy.id)
<1>1. /\ due \in [Messages -> Copies] /\ TypeOK
      /\ \A v \in Messages : \A copy \in due[v] : Exists(copy.id)
  BY DEF IInv, TypeOK, Copies, WhatIsServedExists
<1>2. ASSUME NEW v \in Messages, Exists(v), Applied(v)
      PROVE  /\ due' \in [Messages -> Copies]
             /\ \A u \in Messages : \A copy \in due'[u] : Exists(copy.id)
  <2>1. /\ due' \in [Messages -> Copies]
        /\ \A q \in Messages \ {v} : due'[q] = due[q]
        /\ \A copy \in due'[v] : copy \in due[v] \/ Waiting(copy.id)
    BY <1>1, <1>2, AppliedWrites
  <2>2. QED BY <1>1, <2>1 DEF Waiting, Exists
<1>3. CASE UNCHANGED due
  BY <1>1, <1>3
<1>4. ASSUME NEW m \in Messages, OrchestratorEnds(m)
      PROVE  UNCHANGED due \/ (serves[m] \in Messages /\ Exists(serves[m]) /\ Applied(serves[m]))
  BY <1>4, ServedIsOpen DEF OrchestratorEnds, Controls, CancelsOther, RunsAction, HandsOver
<1>5. ASSUME NEW v \in Messages, ResumeNext(v)
      PROVE  /\ due' \in [Messages -> Copies]
             /\ \A u \in Messages : \A copy \in due'[u] : Exists(copy.id)
  <2>1. PICK copy \in due[v] : due' = [due EXCEPT ![v] = due[v] \ {copy}]
    BY <1>1, <1>5 DEF ResumeNext
  <2>2. QED BY <1>1, <2>1 DEF Copies
<1>6. ASSUME NEW r \in Messages, PlannerReports(r) PROVE Exists(r) /\ Applied(r)
  BY <1>6 DEF PlannerReports, Exists
<1>7. CASE Crash
  <2>1. due' = [r \in Messages |-> {}]
    BY <1>7 DEF Crash
  <2>2. QED BY <2>1 DEF Copies
<1>8. ASSUME NEW m \in Messages, NEW r \in Messages,
             Forward(m) \/ Capture(m) \/ Create(m) \/ Retry(m, r) \/ Augment(m, r)
               \/ Reuse(m, r) \/ Release(m)
      PROVE  UNCHANGED due
  BY <1>8 DEF Forward, Capture, Create, Retry, Augment, Reuse, Release
<1>9. UNCHANGED vars => UNCHANGED due
  BY DEF vars
<1>10. QED BY <1>2, <1>3, <1>4, <1>5, <1>6, <1>7, <1>8, <1>9 DEF Next, Handle

\* The history variables keep their types, and a crash is not forgotten.
LEMMA HistoryTyped ==
    ASSUME IInv, [Next]_vars
    PROVE  /\ skipped' \subseteq Messages /\ overtaken' \subseteq Messages
           /\ crashes' \in 0..MaxCrashes
           /\ skipped \subseteq skipped' /\ (crashes' = crashes \/ Crash)
           /\ Crash => crashes' # 0
<1>1. /\ TypeOK /\ skipped \subseteq Messages /\ overtaken \subseteq Messages
      /\ crashes \in 0..MaxCrashes /\ MaxCrashes \in Nat
  BY IntakeAssumption DEF IInv, TypeOK
<1>2. ASSUME NEW m \in Messages, Create(m)
      PROVE  skipped' \in {skipped, skipped \cup {m}} /\ UNCHANGED <<overtaken, crashes>>
  BY <1>2 DEF Create, RunLocally
<1>3. ASSUME NEW m \in Messages, NEW r \in Messages, Retry(m, r)
      PROVE  skipped' \in {skipped, skipped \cup {r}} /\ UNCHANGED <<overtaken, crashes>>
  BY <1>3 DEF Retry, RunLocally
<1>4. ASSUME NEW m \in Messages, OrchestratorEnds(m)
      PROVE  overtaken' \subseteq Messages /\ UNCHANGED <<skipped, crashes>>
  BY <1>1, <1>4, ServedIsOpen DEF OrchestratorEnds, Overwritten
<1>5. ASSUME NEW v \in Messages, ResumeNext(v)
      PROVE  overtaken' \subseteq Messages /\ UNCHANGED <<skipped, crashes>>
  <2>1. PICK copy \in due[v] :
          overtaken' \in {overtaken, overtaken \cup {copy.id}} /\ UNCHANGED <<skipped, crashes>>
    BY <1>5 DEF ResumeNext
  <2>2. copy.id \in Messages
    BY <1>1, TypesOfOne DEF Copy
  <2>3. QED BY <1>1, <2>1, <2>2
<1>6. ASSUME NEW m \in Messages, NEW r \in Messages,
             Forward(m) \/ Capture(m) \/ Augment(m, r) \/ Reuse(m, r) \/ Release(m)
               \/ PlannerReports(r)
      PROVE  UNCHANGED <<skipped, overtaken, crashes>>
  BY <1>6 DEF Forward, Capture, Augment, Reuse, Release, PlannerReports, history
<1>7. Crash => /\ UNCHANGED <<skipped, overtaken>> /\ crashes' \in 0..MaxCrashes /\ crashes' # 0
  BY <1>1 DEF Crash
<1>8. UNCHANGED vars => UNCHANGED <<skipped, overtaken, crashes>>
  BY DEF vars, history
<1>9. QED BY <1>1, <1>2, <1>3, <1>4, <1>5, <1>6, <1>7, <1>8 DEF Next, Handle

\* What is served, or due, goes on existing.
LEMMA WhatIsServedStays ==
    ASSUME IInv, [Next]_vars
    PROVE  WhatIsServedExists'
<1>1. /\ TypeOK /\ WhatIsServedExists /\ AllMayBecome
  BY RecordsMove DEF IInv
<1>2. ASSUME NEW r \in Messages PROVE ~Exists(r)' => requests'[r].inputs = {}
  BY <1>1 DEF AllMayBecome, WhatIsServedExists, Exists
<1>3. \A r \in Messages : Exists(r) => Exists(r)'
  BY <1>1 DEF AllMayBecome, Exists
<1>4. ASSUME NEW m \in Messages, serves'[m] # 0 PROVE Exists(serves[m])'
  <2>1. CASE serves'[m] = serves[m]
    BY <1>1, <1>3, <1>4, <2>1, TypesOfOne DEF WhatIsServedExists
  <2>2. ASSUME NEW n \in Messages, NEW r \in Messages, NEW inputs \in SUBSET Messages,
               serves' = [serves EXCEPT ![n] = r],
               requests' = [requests EXCEPT ![r] = Delegated(inputs)]
        PROVE  Exists(serves[m])'
    <3>1. Exists(r)'
      BY <1>1, <2>2 DEF TypeOK, Delegated, Exists
    <3>2. CASE m = n
      BY <1>1, <2>2, <3>1, <3>2 DEF TypeOK
    <3>3. CASE m # n
      BY <1>1, <2>1, <2>2, <3>3 DEF TypeOK
    <3>4. QED BY <3>2, <3>3
  <2>3. ASSUME NEW n \in Messages, serves' = [serves EXCEPT ![n] = 0]
        PROVE  serves'[m] = serves[m]
    BY <1>1, <1>4, <2>3 DEF TypeOK
  <2>4. ~Crash
    BY <1>4 DEF Crash
  <2>5. QED BY <1>1, <2>1, <2>2, <2>3, <2>4, HandlersMove
<1>5. ASSUME NEW v \in Messages, NEW copy \in due'[v] PROVE Exists(copy.id)'
  <2>1. due'[v] \in SUBSET Copy /\ Exists(copy.id)
    BY CopiesKept DEF Copies
  <2>2. copy.id \in Messages
    BY <2>1 DEF Copy
  <2>3. QED BY <1>3, <2>1, <2>2
<1>6. QED BY <1>2, <1>4, <1>5 DEF WhatIsServedExists

\* Only a forwarded message is read again, and only after a crash.
LEMMA FirstReadStaysNew ==
    ASSUME IInv, [Next]_vars
    PROVE  FirstReadIsNew'
<1> SUFFICES ASSUME NEW m \in Messages, phase'[m] \in {"sent", "arriving"}, Exists(m)'
             PROVE  m \in ReadTwice'
  BY DEF FirstReadIsNew
<1>1. TypeOK /\ FirstReadIsNew /\ AllMayBecome
  BY RecordsMove DEF IInv
<1>2. CASE Crash
  <2>1. m \in Forwarded \/ (phase[m] \in {"sent", "arriving"} /\ UNCHANGED requests)
    BY <1>2 DEF Crash
  <2>2. crashes' # 0
    BY <1>2, HistoryTyped
  <2>3. m \in ReadTwice => m \in Forwarded
    BY DEF ReadTwice
  <2>4. m \in Forwarded
    BY <1>1, <2>1, <2>3 DEF FirstReadIsNew, Exists
  <2>5. QED BY <2>2, <2>4 DEF ReadTwice
<1>3. CASE ~Crash
  <2>1. ReadTwice' = ReadTwice
    BY <1>3, HistoryTyped DEF ReadTwice
  <2>2. phase[m] \in {"sent", "arriving"}
    BY <1>1, <1>3, HandlersMove DEF TypeOK
  <2>3. Exists(m)
    <3>1. CASE requests'[m] = requests[m]
      BY <3>1 DEF Exists
    <3>2. CASE Create(m)
      <4>1. phase'[m] \in {"done", "running"}
        BY <1>1, <3>2 DEF Create, RunLocally, TypeOK
      <4>2. QED BY <4>1
    <3>3. CASE IsOpen(m)
      BY <3>3 DEF IsOpen
    <3>4. QED BY <1>1, <3>1, <3>2, <3>3 DEF AllMayBecome, MayBecome
  <2>4. QED BY <1>1, <2>1, <2>2, <2>3 DEF FirstReadIsNew
<1>4. QED BY <1>2, <1>3

-----------------------------------------------------------------------------
\* What others do to a request that runs is to cancel it, or to ask for it anew.
LEMMA OthersLeaveRuns ==
    ASSUME IInv, [Next]_vars, NEW r \in Messages, r \notin overtaken', Running(r),
           \A m \in Messages : OrchestratorEnds(m) => serves[m] # r
    PROVE  /\ requests'[r].role = "orchestrator"
           /\ requests'[r].status \in {"delegated", "cancelled"}
<1> DEFINE Goal == /\ requests'[r].role = "orchestrator"
                   /\ requests'[r].status \in {"delegated", "cancelled"}
<1>1. /\ TypeOK /\ requests \in [Messages -> Request] /\ WhatIsServedExists
      /\ requests[r] \in Request
  BY TypesOfOne DEF IInv, TypeOK
<1>2. r \notin overtaken
  BY RecordsMove DEF AllMayBecome
<1>3. requests[r].role = "orchestrator" /\ requests[r].status \in {"delegated", "cancelled"}
  BY <1>2 DEF IInv, RunIsItsOwn
<1>4. CASE requests'[r] = requests[r]
  BY <1>3, <1>4
<1>5. ASSUME NEW m \in Messages, Create(m) PROVE Goal
  <2>1. PICK inputs \in Attachments(m) : requests' = [requests EXCEPT ![m] = Delegated(inputs)]
    BY <1>5 DEF Create, RunLocally
  <2>2. requests'[r] \in {requests[r], Delegated(inputs)}
    BY <1>1, <2>1
  <2>3. QED BY <1>3, <2>2 DEF Delegated
<1>6. ASSUME NEW m \in Messages, NEW q \in Messages, Retry(m, q) \/ Augment(m, q) PROVE Goal
  <2>1. requests[q].status = "blocked"
    BY <1>6 DEF Retry, Augment, ShouldRetry
  <2>2. requests'[r] = requests[r]
    BY <1>1, <1>3, <1>6, <2>1 DEF Retry, Augment, RunLocally
  <2>3. QED BY <1>4, <2>2
<1>7. ASSUME NEW q \in Messages, q # r, Exists(q), Applied(q) PROVE Goal
  <2>1. requests'[r] = requests[r] \/ Waiting(r)
    BY <1>1, <1>7, AppliedWrites
  <2>2. QED BY <1>3, <1>4, <2>1 DEF Waiting
<1>8. ASSUME NEW m \in Messages, OrchestratorEnds(m) PROVE Goal
  <2> DEFINE q == serves[m]
  <2>1. q \in Messages /\ Exists(q) /\ q # r
    BY <1>8, ServedIsOpen DEF OrchestratorEnds
  <2>2. CASE Applied(q)
    BY <1>7, <2>1, <2>2
  <2>3. CASE RunsAction(q) \/ HandsOver(q)
    <3>1. requests'[r] = requests[r]
      BY <1>1, <2>1, <2>3 DEF RunsAction, HandsOver
    <3>2. QED BY <1>4, <3>1
  <2>4. CASE CancelsOther(q)
    <3>1. PICK target \in Messages \ {q} :
            requests' = [requests EXCEPT ![q] = Closed(q), ![target].status = "cancelled",
                                         ![target].waits = FALSE]
      BY <2>4 DEF CancelsOther
    <3>2. CASE target # r
      <4>1. requests'[r] = requests[r]
        BY <1>1, <2>1, <3>1, <3>2
      <4>2. QED BY <1>4, <4>1
    <3>3. CASE target = r
      <4>1. requests'[r] = [requests[r] EXCEPT !.status = "cancelled", !.waits = FALSE]
        BY <1>1, <2>1, <3>1, <3>3
      <4>2. QED BY <1>1, <1>3, <4>1 DEF Request
    <3>4. QED BY <3>2, <3>3
  <2>5. QED BY <1>8, <2>2, <2>3, <2>4 DEF OrchestratorEnds, Controls
<1>9. ASSUME NEW v \in Messages, ResumeNext(v) PROVE Goal
  <2>1. PICK copy \in due[v] :
          /\ requests' = [requests EXCEPT ![copy.id] = Resumed(copy.id, copy.inputs)]
          /\ overtaken' = IF Waiting(copy.id) /\ requests[copy.id].inputs = copy.inputs
                          THEN overtaken ELSE overtaken \cup {copy.id}
    BY <1>9 DEF ResumeNext
  <2>2. copy.id # r
    BY <1>3, <2>1 DEF Waiting
  <2>3. requests'[r] = requests[r]
    BY <1>1, <2>1, <2>2
  <2>4. QED BY <1>4, <2>3
<1>10. ASSUME NEW q \in Messages, PlannerReports(q) PROVE Goal
  <2>1. Exists(q) /\ q # r /\ Applied(q)
    BY <1>3, <1>10 DEF PlannerReports, Exists
  <2>2. QED BY <1>7, <2>1
<1>11. ASSUME NEW m \in Messages, NEW q \in Messages,
              Forward(m) \/ Capture(m) \/ Release(m) \/ Reuse(m, q)
       PROVE  UNCHANGED requests
  BY <1>11 DEF Forward, Capture, Release, Reuse
<1>12. Crash \/ UNCHANGED vars => UNCHANGED requests
  BY DEF Crash, vars
<1>13. QED BY <1>4, <1>5, <1>6, <1>8, <1>9, <1>10, <1>11, <1>12 DEF Next, Handle

\* A run that is there after a step has begun with it, or goes on through it.
LEMMA RunsGoOn ==
    ASSUME IInv, [Next]_vars, NEW r \in Messages, Running(r)'
    PROVE  \/ \E inputs \in SUBSET Messages : requests'[r] = Delegated(inputs)
           \/ Running(r) /\ \A m \in Messages : OrchestratorEnds(m) => serves[m] # r
<1>1. /\ TypeOK /\ requests \in [Messages -> Request]
      /\ phase \in [Messages -> {"sent", "arriving", "running", "replying", "done"}]
      /\ serves \in [Messages -> Messages \cup {0}] /\ 0 \notin Messages
      /\ \A m, n \in Messages : serves[m] = serves[n] /\ serves[m] # 0 => m = n
  BY IntakeAssumption DEF IInv, TypeOK
<1>2. PICK n \in Messages : phase'[n] = "running" /\ serves'[n] = r
  BY DEF Running
<1>3. ~Crash
  BY <1>1, <1>2 DEF Crash
<1>4. CASE phase[n] = "running" /\ serves[n] = r
  <2>1. Running(r)
    BY <1>4 DEF Running
  <2>2. ASSUME NEW m \in Messages, OrchestratorEnds(m), serves[m] = r PROVE FALSE
    <3>1. m = n
      BY <1>1, <1>4, <2>2
    <3>2. QED BY <1>1, <1>2, <2>2, <3>1 DEF OrchestratorEnds
  <2>3. QED BY <2>1, <2>2
<1>5. CASE ~(phase[n] = "running" /\ serves[n] = r)
  <2>1. ASSUME NEW m \in Messages, NEW q \in Messages, NEW inputs \in SUBSET Messages,
               phase' = [phase EXCEPT ![m] = "running"], serves' = [serves EXCEPT ![m] = q],
               requests' = [requests EXCEPT ![q] = Delegated(inputs)]
        PROVE  requests'[r] = Delegated(inputs)
    <3>1. m = n
      BY <1>1, <1>2, <1>5, <2>1
    <3>2. q = r
      BY <1>1, <1>2, <2>1, <3>1
    <3>3. QED BY <1>1, <2>1, <3>2
  <2>2. ASSUME NEW m \in Messages, NEW to \in {"arriving", "replying", "done"}, UNCHANGED serves,
               phase' = [phase EXCEPT ![m] = to]
        PROVE  FALSE
    BY <1>1, <1>2, <1>5, <2>2
  <2>3. ASSUME NEW m \in Messages, phase' = [phase EXCEPT ![m] = "done"],
               serves' = [serves EXCEPT ![m] = 0]
        PROVE  FALSE
    BY <1>1, <1>2, <1>5, <2>3
  <2>4. CASE UNCHANGED <<phase, serves>>
    BY <1>2, <1>5, <2>4
  <2>5. QED BY <1>1, <1>3, <2>1, <2>2, <2>3, <2>4, HandlersMove
<1>6. QED BY <1>4, <1>5

\* A run stays the orchestrator's own.
LEMMA RunsStayItsOwn ==
    ASSUME IInv, [Next]_vars
    PROVE  RunIsItsOwn'
<1> SUFFICES ASSUME NEW r \in Messages, r \notin overtaken', Running(r)'
             PROVE  /\ requests'[r].role = "orchestrator"
                    /\ requests'[r].status \in {"delegated", "cancelled"}
  BY DEF RunIsItsOwn
<1>1. ASSUME NEW inputs \in SUBSET Messages, requests'[r] = Delegated(inputs)
      PROVE  /\ requests'[r].role = "orchestrator"
             /\ requests'[r].status \in {"delegated", "cancelled"}
  BY <1>1 DEF Delegated
<1>2. CASE Running(r) /\ \A m \in Messages : OrchestratorEnds(m) => serves[m] # r
  BY <1>2, OthersLeaveRuns
<1>3. QED BY <1>1, <1>2, RunsGoOn

\* A run lasts until it ends or the process does.
LEMMA RunsLast ==
    ASSUME IInv, [Next]_vars, NEW r \in Messages, Running(r), ~Crash,
           \A m \in Messages : OrchestratorEnds(m) => serves[m] # r
    PROVE  Running(r)'
<1>1. /\ TypeOK
      /\ phase \in [Messages -> {"sent", "arriving", "running", "replying", "done"}]
      /\ serves \in [Messages -> Messages \cup {0}]
  BY DEF IInv, TypeOK
<1>2. PICK n \in Messages : phase[n] = "running" /\ serves[n] = r
  BY DEF Running
<1>3. \A m \in Messages : OrchestratorEnds(m) => m # n
  BY <1>2
<1>4. phase'[n] = "running" /\ serves'[n] = r
  BY <1>1, <1>2, <1>3, HandlersMove
<1>5. QED BY <1>4 DEF Running

\* A request the orchestrator holds after a step it held before, or takes now to run
\* it; only a claim that is still held keeps it from doing so.
LEMMA HeldToRun ==
    ASSUME IInv, [Next]_vars, NEW r \in Messages, r \notin skipped' \cup overtaken',
           requests'[r].status = "delegated", requests'[r].role = "orchestrator"
    PROVE  \/ Running(r)'
           \/ /\ requests[r].status = "delegated" /\ requests[r].role = "orchestrator"
              /\ \A m \in Messages : OrchestratorEnds(m) => serves[m] # r
<1> DEFINE Held == requests[r].status = "delegated" /\ requests[r].role = "orchestrator"
<1> DEFINE Goal == Running(r)' \/ (Held /\ \A m \in Messages : OrchestratorEnds(m) => serves[m] # r)
<1>1. /\ TypeOK /\ requests \in [Messages -> Request] /\ WhatIsServedExists
      /\ phase \in [Messages -> {"sent", "arriving", "running", "replying", "done"}]
      /\ serves \in [Messages -> Messages \cup {0}]
      /\ requests[r] \in Request
  BY TypesOfOne DEF IInv, TypeOK
<1>2. ASSUME NEW m \in Messages, NEW q \in Messages, NEW inputs \in SUBSET Messages,
             phase[m] = "arriving", RunLocally(m, q, Delegated(inputs))
      PROVE  Running(r)' \/ Held
  <2>1. requests' = [requests EXCEPT ![q] = Delegated(inputs)]
    BY <1>2 DEF RunLocally
  <2>2. CASE q # r
    BY <1>1, <2>1, <2>2
  <2>3. CASE q = r
    <3>1. phase' = [phase EXCEPT ![m] = "running"] /\ serves' = [serves EXCEPT ![m] = r]
      BY <1>2, <2>3 DEF RunLocally
    <3>2. phase'[m] = "running" /\ serves'[m] = r
      BY <1>1, <3>1
    <3>3. QED BY <3>2 DEF Running
  <2>4. QED BY <2>2, <2>3
<1>3. ASSUME NEW m \in Messages, Create(m) PROVE Running(r)' \/ Held
  <2>1. PICK inputs \in Attachments(m) : RunLocally(m, m, Delegated(inputs))
    BY <1>3 DEF Create
  <2>2. inputs \in SUBSET Messages
    BY <2>1, IntakeAssumption DEF Attachments
  <2>3. QED BY <1>2, <1>3, <2>1, <2>2 DEF Create
<1>4. ASSUME NEW m \in Messages, NEW q \in Messages, Retry(m, q) PROVE Running(r)' \/ Held
  BY <1>1, <1>2, <1>4, TypesOfOne DEF Retry, Retried
<1>5. ASSUME NEW m \in Messages, NEW q \in Messages, Augment(m, q) PROVE Held
  <2>1. PICK inputs : requests' = [requests EXCEPT ![q] = Resumed(q, inputs)]
    BY <1>5 DEF Augment
  <2>2. requests'[r] \in {requests[r], Resumed(r, inputs)}
    BY <1>1, <2>1
  <2>3. Resumed(r, inputs).role = "planner"
    BY DEF Resumed
  <2>4. QED BY <2>2, <2>3
<1>6. ASSUME NEW q \in Messages, Exists(q), Applied(q) PROVE Held /\ q # r
  <2>1. q # r
    BY <1>1, <1>6, AppliedWrites
  <2>2. requests'[r] = requests[r] \/ requests'[r] = Resumed(r, requests[r].inputs)
    BY <1>1, <1>6, <2>1, AppliedWrites
  <2>3. Resumed(r, requests[r].inputs).role = "planner"
    BY DEF Resumed
  <2>4. QED BY <2>1, <2>2, <2>3
<1>7. ASSUME NEW m \in Messages, OrchestratorEnds(m) PROVE Held /\ serves[m] # r
  <2> DEFINE q == serves[m]
  <2>1. q \in Messages /\ Exists(q)
    BY <1>7, ServedIsOpen DEF OrchestratorEnds
  <2>2. CASE Applied(q)
    BY <1>6, <2>1, <2>2
  <2>3. ASSUME RunsAction(q) \/ HandsOver(q) PROVE Held /\ q # r
    <3>1. PICK record \in {Closed(q), Resumed(q, requests[q].inputs)} :
            requests' = [requests EXCEPT ![q] = record]
      BY <1>1, <2>1, <2>3 DEF RunsAction, HandsOver
    <3>2. Closed(q).status = "closed" /\ Resumed(q, requests[q].inputs).role = "planner"
      BY <1>1, <2>1, TypesOfOne DEF Closed, Resumed, Request
    <3>3. q # r
      BY <1>1, <2>1, <3>1, <3>2
    <3>4. requests'[r] = requests[r]
      BY <1>1, <2>1, <3>1, <3>3
    <3>5. QED BY <3>3, <3>4
  <2>4. ASSUME CancelsOther(q) PROVE Held /\ q # r
    <3>1. PICK target \in Messages \ {q} :
            requests' = [requests EXCEPT ![q] = Closed(q), ![target].status = "cancelled",
                                         ![target].waits = FALSE]
      BY <2>4 DEF CancelsOther
    <3>2. requests'[q] = Closed(q) /\ requests'[target].status = "cancelled"
      BY <1>1, <2>1, <3>1, TypesOfOne DEF Request
    <3>3. Closed(q).status = "closed"
      BY <1>1, <2>1, TypesOfOne DEF Closed, Request
    <3>4. q # r /\ target # r
      BY <3>2, <3>3
    <3>5. requests'[r] = requests[r]
      BY <1>1, <2>1, <3>1, <3>4
    <3>6. QED BY <3>4, <3>5
  <2>5. QED BY <1>7, <2>2, <2>3, <2>4, <1>6, <2>1 DEF OrchestratorEnds, Controls
<1>8. ASSUME NEW v \in Messages, ResumeNext(v) PROVE Held
  <2>1. PICK copy : requests' = [requests EXCEPT ![copy.id] = Resumed(copy.id, copy.inputs)]
    BY <1>8 DEF ResumeNext
  <2>2. requests'[r] = requests[r] \/ requests'[r] = Resumed(copy.id, copy.inputs)
    BY <1>1, <2>1
  <2>3. Resumed(copy.id, copy.inputs).role = "planner"
    BY DEF Resumed
  <2>4. QED BY <2>2, <2>3
<1>9. ASSUME NEW q \in Messages, PlannerReports(q) PROVE Held
  BY <1>6, <1>9 DEF PlannerReports, Exists
<1>10. ASSUME NEW m \in Messages, NEW q \in Messages,
              Forward(m) \/ Capture(m) \/ Release(m) \/ Reuse(m, q)
       PROVE  UNCHANGED requests
  BY <1>10 DEF Forward, Capture, Release, Reuse
<1>11. Crash \/ UNCHANGED vars => UNCHANGED requests
  BY DEF Crash, vars
<1>12. Running(r)' \/ Held
  BY <1>3, <1>4, <1>5, <1>7, <1>8, <1>9, <1>10, <1>11 DEF Next, Handle
<1>13. QED BY <1>7, <1>12

\* The orchestrator is at work on what it gave to itself, and nobody else is.
LEMMA OwnerStaysAtWork ==
    ASSUME IInv, [Next]_vars
    PROVE  OwnerIsAtWork'
<1> SUFFICES ASSUME NEW r \in Messages, crashes' = 0, r \notin skipped' \cup overtaken'
             PROVE  /\ requests'[r].status = "delegated" /\ requests'[r].role = "orchestrator"
                          => Running(r)'
                    /\ Running(r)' => requests'[r].role = "orchestrator"
                                      /\ requests'[r].status \in {"delegated", "cancelled"}
  BY DEF OwnerIsAtWork
<1>1. Running(r)' => requests'[r].role = "orchestrator"
                     /\ requests'[r].status \in {"delegated", "cancelled"}
  BY RunsStayItsOwn DEF RunIsItsOwn
<1>2. /\ ~Crash /\ crashes = 0 /\ r \notin skipped \cup overtaken
  BY HistoryTyped, RecordsMove DEF AllMayBecome
<1>3. requests[r].status = "delegated" /\ requests[r].role = "orchestrator" => Running(r)
  BY <1>2 DEF IInv, OwnerIsAtWork
<1>4. QED BY <1>1, <1>2, <1>3, HeldToRun, RunsLast

\* A request is opened, when no older copy is involved, only when none says the same.
LEMMA OneStaysOpen ==
    ASSUME IInv, [Next]_vars
    PROVE  OneOpenRequest'
<1>1. /\ TypeOK /\ requests \in [Messages -> Request] /\ OneOpenRequest /\ AllMayBecome
  BY RecordsMove DEF IInv, TypeOK
<1>2. ASSUME NEW q \in Messages \ overtaken', IsOpen(q)' PROVE IsOpen(q) \/ Create(q)
  BY <1>1, <1>2 DEF AllMayBecome, MayBecome, IsOpen, Exists, Ended
<1>3. ASSUME NEW q \in Messages, Create(q), NEW r \in Messages, r # q, IsOpen(r)',
             SameInput(q, r)
      PROVE  FALSE
  <2>1. PICK inputs : requests' = [requests EXCEPT ![q] = Delegated(inputs)]
    BY <1>3 DEF Create, RunLocally
  <2>2. requests'[r] = requests[r]
    BY <1>1, <1>3, <2>1
  <2>3. IsOpen(r)
    BY <1>3, <2>2 DEF IsOpen, Exists, Ended
  <2>4. r \in Duplicates(q)
    BY <1>3, <2>3 DEF Duplicates, SameInput
  <2>5. QED BY <1>3, <2>4 DEF Create
<1>4. ASSUME NEW q \in Messages \ overtaken', NEW r \in Messages \ overtaken',
             IsOpen(q)', IsOpen(r)', SameInput(q, r)
      PROVE  q = r
  <2>1. CASE IsOpen(q) /\ IsOpen(r)
    BY <1>1, <1>4, <2>1 DEF OneOpenRequest, AllMayBecome
  <2>2. CASE Create(q)
    BY <1>3, <1>4, <2>2
  <2>3. CASE Create(r)
    BY <1>3, <1>4, <2>3 DEF SameInput
  <2>4. QED BY <1>2, <1>4, <2>1, <2>2, <2>3
<1>5. QED BY <1>4 DEF OneOpenRequest, SameInput

-----------------------------------------------------------------------------
\* The invariant holds at first, and no step ends it.
LEMMA InvariantHolds == Spec => []IInv
<1>1. Init => IInv
  <2> SUFFICES ASSUME Init PROVE IInv
    OBVIOUS
  <2>1. Unmade \in Request /\ FromBefore \in Request /\ Unmade.status = "none"
        /\ ~Unmade.waits /\ Unmade.inputs = {} /\ FromBefore.status = "blocked"
        /\ FromBefore.role = "planner"
    BY DEF Unmade, FromBefore, Request
  <2>2. /\ requests \in [Messages -> Request]
        /\ \A r \in Messages : requests[r] = IF r \in Earlier THEN FromBefore ELSE Unmade
    BY <2>1 DEF Init
  <2>3. \A m \in Messages : serves[m] = 0 /\ due[m] = {}
    BY DEF Init
  <2>4. /\ phase \in [Messages -> {"sent", "arriving", "running", "replying", "done"}]
        /\ \A m \in Messages : phase[m] \in {"sent", "arriving", "done"}
        /\ \A m \in Earlier : phase[m] = "done"
    BY IntakeAssumption DEF Init
  <2>5. TypeOK
    <3>1. serves \in [Messages -> Messages \cup {0}] /\ due \in [Messages -> SUBSET Copy]
      BY DEF Init
    <3>2. skipped \subseteq Messages /\ overtaken \subseteq Messages /\ crashes \in 0..MaxCrashes
      BY IntakeAssumption DEF Init
    <3>3. \A r \in Messages : requests[r].waits => requests[r].status = "blocked"
      BY <2>1, <2>2
    <3>4. QED BY <2>2, <2>3, <2>4, <3>1, <3>2, <3>3 DEF TypeOK
  <2>6. OneOpenRequest
    BY <2>1, <2>2, IntakeAssumption DEF OneOpenRequest, IsOpen, Exists, Ended, SameInput
  <2>7. \A r \in Messages : ~Running(r)
    BY <2>4 DEF Running
  <2>8. OwnerIsAtWork /\ RunIsItsOwn
    BY <2>1, <2>2, <2>7 DEF OwnerIsAtWork, RunIsItsOwn
  <2>9. WhatIsServedExists
    BY <2>1, <2>2, <2>3 DEF WhatIsServedExists, Exists
  <2>10. FirstReadIsNew
    BY <2>1, <2>2, <2>4 DEF FirstReadIsNew, Exists
  <2>11. QED BY <2>5, <2>6, <2>8, <2>9, <2>10 DEF IInv
<1>2. IInv /\ [Next]_vars => IInv'
  <2> SUFFICES ASSUME IInv, [Next]_vars PROVE IInv'
    OBVIOUS
  <2>1. TypeOK
    BY DEF IInv
  <2>2. TypeOK'
    <3>1. /\ requests' \in [Messages -> Request]
          /\ \A r \in Messages : requests'[r].waits => requests'[r].status = "blocked"
      BY RecordsMove DEF AllMayBecome, WaitsWhenBlocked
    <3>2. QED BY <2>1, <3>1, HandlersTyped, CopiesKept, HistoryTyped DEF TypeOK, Copies
  <2>3. QED BY <2>2, OneStaysOpen, OwnerStaysAtWork, WhatIsServedStays, FirstReadStaysNew,
         RunsStayItsOwn DEF IInv
<1>3. QED BY <1>1, <1>2, PTL DEF Spec

\* However the handlers of messages overtake each other: what says the same has one
\* open request, and one agent is at work on it.
THEOREM RequestsStaySingle == Spec => []RequestsAreSingle
<1>1. IInv => RequestsAreSingle
  BY DEF IInv, RequestsAreSingle
<1>2. QED BY <1>1, InvariantHolds, PTL

\* A request that was not read before has nothing that its creation could lose.
LEMMA CreatesAnew ==
    ASSUME IInv, NEW q \in Messages, Create(q), q \notin ReadTwice
    PROVE  ~Exists(q) /\ requests[q].inputs = {}
<1>1. ~Exists(q)
  BY DEF IInv, FirstReadIsNew, Create
<1>2. QED BY <1>1 DEF IInv, WhatIsServedExists

\* Neither a message nor a document opens a request that ended: that takes an older
\* copy, or a forwarded message that is read twice.
THEOREM EndedRequestsStayEnded == Spec => EndedStaysEnded
<1>1. ASSUME IInv, [Next]_vars
      PROVE  [\A r \in Messages :
                Ended(r) /\ IsOpen(r)' => r \in overtaken' \cup ReadTwice]_vars
  <2>1. ASSUME NEW r \in Messages, Ended(r), IsOpen(r)'
        PROVE  r \in overtaken' \cup ReadTwice
    <3>1. MayBecome(r)
      BY <1>1, RecordsMove DEF AllMayBecome
    <3>2. Create(r) => r \in ReadTwice
      BY <1>1, <2>1, CreatesAnew DEF Ended, Exists
    <3>3. QED BY <2>1, <3>1, <3>2 DEF MayBecome, IsOpen, Ended, Exists
  <2>2. QED BY <2>1
<1>2. QED BY <1>1, InvariantHolds, PTL DEF Spec, EndedStaysEnded

\* A request keeps the attachments it was given, with the same two exceptions.
THEOREM InputsStay == Spec => InputsAreKept
<1>1. ASSUME IInv, [Next]_vars
      PROVE  [\A r \in Messages \ (overtaken' \cup ReadTwice) :
                requests[r].inputs \subseteq requests'[r].inputs]_vars
  <2>1. ASSUME NEW r \in Messages \ (overtaken' \cup ReadTwice)
        PROVE  requests[r].inputs \subseteq requests'[r].inputs
    <3>1. MayBecome(r)
      BY <1>1, RecordsMove DEF AllMayBecome
    <3>2. Create(r) => requests[r].inputs = {}
      BY <1>1, <2>1, CreatesAnew
    <3>3. QED BY <2>1, <3>1, <3>2 DEF MayBecome
  <2>2. QED BY <2>1
<1>2. QED BY <1>1, InvariantHolds, PTL DEF Spec, InputsAreKept

=============================================================================
