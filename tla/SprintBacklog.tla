--------------------------- MODULE SprintBacklog ---------------------------
(***************************************************************************)
(* The backlog and those who write it: the sprints, which select its items *)
(* and tell them what became of their todos on every load and save; the    *)
(* planner, a process of its own that merges items into it; the scheduler, *)
(* which has blocked items reviewed before it starts a sprint with the     *)
(* pending ones; and every reader of its counts, which repairs it first.   *)
(***************************************************************************)
EXTENDS Naturals, FiniteSets, FiniteSetsExt, Functions

CONSTANTS
    MaxItems,    \* how many items the backlog may come to hold
    Known,       \* the items it holds at first
    Journal,     \* those that are agents' insights, no work to do
    MaxStarts,   \* how many sprints start
    MaxMerges,   \* how many items the planner writes
    FaultKinds,  \* what may go wrong
    MaxFaults    \* and how often

ASSUME BacklogAssumption ==
    /\ Known \subseteq 1..MaxItems /\ Journal \subseteq 1..MaxItems
    /\ {MaxItems, MaxStarts, MaxMerges, MaxFaults} \subseteq Nat
    /\ FaultKinds \subseteq {"crash", "late", "failed", "restart", "day"}

VARIABLES
    items,     \* the backlog's records
    todos,     \* of each sprint, by item
    active,    \* the scheduler's active sprint, 0 for none
    manual,    \* the active sprint was planned, not filled by the scheduler
    started,   \* the sprints that started
    reviews,   \* the last review of each set of blocked items
    last,      \* the last review the scheduler remembers
    pollState, \* its poll: where it is and the blocked items it collected
    merge,     \* what the planner is merging
    merges,
    raced,     \* the planner wrote over a change it had not read
    mishaps

board == <<items, todos>>
sprintVars == <<active, manual, started>>
review == <<reviews, last>>
planner == <<merge, merges, raced>>
backlogVars == <<board, sprintVars, review, pollState, planner, mishaps>>

Items == 1..MaxItems
SprintNumbers == 1..MaxStarts
ItemStatus == {"none", "pending", "selected", "blocked", "done", "carried_over", "dropped"}
Item == [status : ItemStatus, selected : 0..MaxStarts,
         completed : 0..MaxStarts, planned : 0..MaxStarts]
TodoStatus == {"none", "queued", "running", "completed", "uncommitted", "blocked", "failed"}
Merge == [item : Items, read : Item, as : {"noted", "planned", "reopened"}, for : 0..MaxStarts]
Unread == [item |-> 0]
Unmade == [of |-> {}, status |-> "none"]
Terminal == {"completed", "blocked", "failed"}
Concluded == Terminal \cup {"old"}

BacklogTypeOK ==
    /\ items \in [Items -> Item]
    /\ todos \in [SprintNumbers -> [Items -> TodoStatus]]
    /\ active \in 0..started /\ started \in 0..MaxStarts /\ manual \in BOOLEAN
    /\ reviews \in [SUBSET Items -> {"none", "open", "qa"} \cup Concluded]
    /\ last \in [of : SUBSET Items, status : {"none", "queued"} \cup Terminal]
    /\ pollState \in [at : {"idle", "collected", "going"}, blocked : SUBSET Items]
    /\ merge \in Merge \cup {Unread} /\ merges \in 0..MaxMerges
    /\ raced \in BOOLEAN
    /\ mishaps \in [FaultKinds -> Nat]
    /\ \A i \in Items : items[i].status = "done" => items[i].completed # 0 \/ raced
    /\ \A s \in SprintNumbers : s > started => \A i \in Items : todos[s][i] = "none"

Fault(kind) ==
    /\ kind \in FaultKinds /\ FoldFunction(+, 0, mishaps) < MaxFaults
    /\ mishaps' = [mishaps EXCEPT ![kind] = @ + 1]
Never(kind) == kind \in FaultKinds => mishaps[kind] = 0

WithStatus(its, status) == {i \in Items : its[i].status = status}
Restless == {"queued", "running", "uncommitted"}

-----------------------------------------------------------------------------
\* What a todo makes of its item.
Applied_Retried(item, todo, s) ==
    CASE todo \in {"queued", "running", "uncommitted"} ->
           [item EXCEPT !.status = "selected", !.selected = s, !.completed = 0]
      [] todo = "completed" ->
           [item EXCEPT !.status = "done", !.selected = s, !.completed = s]
      [] todo = "blocked" -> [item EXCEPT !.status = "blocked", !.selected = 0, !.completed = 0]
      [] todo = "failed" -> [item EXCEPT !.status = "carried_over", !.selected = 0, !.completed = 0]
      [] OTHER -> item
Applied_Unnamed(item, todo, s) ==
    CASE todo \in {"queued", "running"} -> [item EXCEPT !.status = "selected", !.completed = 0]
      [] todo = "completed" -> [item EXCEPT !.status = "done"]
      [] todo \in {"blocked", "uncommitted"} -> [item EXCEPT !.status = "blocked"]
      [] todo = "failed" -> [item EXCEPT !.status = "carried_over"]
      [] OTHER -> item
Applied(item, todo, s) ==
    CASE todo \in {"queued", "running"} ->
           [item EXCEPT !.status = "selected", !.selected = s, !.completed = 0]
      [] todo = "completed" ->
           [item EXCEPT !.status = "done", !.selected = s, !.completed = s]
      [] todo \in {"blocked", "uncommitted"} ->
           [item EXCEPT !.status = "blocked", !.selected = 0, !.completed = 0]
      [] todo = "failed" ->
           [item EXCEPT !.status = "carried_over", !.selected = 0, !.completed = 0]
      [] OTHER -> item

\* A load or a save of a sprint tells the items what became of its todos.
Synced(its, ts, s) == [i \in Items |-> Applied(its[i], ts[s][i], s)]

\* An item some sprint's todo was blocked on is blocked.
BlockedOnce == {i \in Items : \E s \in SprintNumbers : todos[s][i] = "blocked"}
Repaired(its) ==
    [i \in Items |->
        IF i \in BlockedOnce /\ its[i].status \in {"pending", "selected"}
        THEN [its[i] EXCEPT !.status = "blocked", !.selected = 0] ELSE its[i]]

IsInsight(i) == i \in Journal
Dropped(its) ==
    [i \in Items |->
        IF IsInsight(i) /\ its[i].status \notin {"none", "dropped"}
        THEN [its[i] EXCEPT !.status = "dropped", !.selected = 0, !.completed = 0] ELSE its[i]]

Counted(its) == Repaired(Dropped(its))

\* Asking for the status of the backlog, or about a milestone, counts it.
Count ==
    /\ items' = Counted(items) /\ items' # items
    /\ UNCHANGED <<todos, sprintVars, review, pollState, planner, mishaps>>

-----------------------------------------------------------------------------
\* The poll of a scheduler without an active sprint.
Collect ==
    /\ pollState.at = "idle" /\ active = 0
    /\ pollState' = [at |-> "collected", blocked |-> WithStatus(items, "blocked")]
    /\ UNCHANGED <<board, sprintVars, review, planner, mishaps>>

IsOpen(c) == reviews[c] \in {"open", "qa"}

\* A review has nothing to decide when none of its items is blocked still.
StillBlocked(c) == \E i \in c : items[i].status = "blocked"

\* With no blocked item, reviews of what was blocked are completed.
Stale == {c \in SUBSET Items : IsOpen(c) /\ ~StillBlocked(c)}

Waits_AnyOpen ==
    /\ pollState.blocked # {} /\ reviews[pollState.blocked] # "none"
    /\ last' = [of |-> pollState.blocked, status |-> "queued"]
    /\ pollState' = [at |-> "idle", blocked |-> {}]
    /\ UNCHANGED reviews

NothingBlocked ==
    /\ pollState.blocked = {}
    /\ reviews' = [c \in SUBSET Items |-> IF c \in Stale THEN "completed" ELSE reviews[c]]
    /\ IF Stale = {} THEN last' = Unmade
       ELSE \E c \in Stale : last' = [of |-> c, status |-> "completed"]
    /\ pollState' = [pollState EXCEPT !.at = "going"]

\* An open review of the same items holds the sprint back.
Waits ==
    /\ pollState.blocked # {} /\ IsOpen(pollState.blocked)
    /\ last' = [of |-> pollState.blocked, status |-> "queued"]
    /\ pollState' = [at |-> "idle", blocked |-> {}]
    /\ UNCHANGED reviews

\* The one remembered, or found to have ended within a day, is not repeated.
Remembered_Any == last.status \in Terminal
Remembered == last.status \in Terminal /\ last.of = pollState.blocked

WasReviewed ==
    /\ pollState.blocked # {} /\ ~IsOpen(pollState.blocked)
    /\ \/ Remembered /\ UNCHANGED last
       \/ /\ ~Remembered /\ reviews[pollState.blocked] \in Terminal
          /\ last' = [of |-> pollState.blocked, status |-> reviews[pollState.blocked]]
    /\ pollState' = [pollState EXCEPT !.at = "going"]
    /\ UNCHANGED reviews

HasReviewed ==
    /\ pollState.blocked # {} /\ ~IsOpen(pollState.blocked) /\ ~Remembered
    /\ reviews[pollState.blocked] \notin Terminal
    /\ reviews' = [reviews EXCEPT ![pollState.blocked] = "open"]
    /\ last' = [of |-> pollState.blocked, status |-> "queued"]
    /\ pollState' = [at |-> "idle", blocked |-> {}]

\* More than a day passes between two polls.
DayPasses(c) ==
    /\ reviews[c] \in Terminal /\ Fault("day")
    /\ reviews' = [reviews EXCEPT ![c] = "old"]
    /\ UNCHANGED <<board, sprintVars, last, pollState, planner>>

Decide ==
    /\ pollState.at = "collected"
    /\ NothingBlocked \/ Waits \/ WasReviewed \/ HasReviewed
    /\ UNCHANGED <<board, sprintVars, planner, mishaps>>

-----------------------------------------------------------------------------
\* A role's report on a review: whoever it is from, nothing blocked ends it.
Ends(c, status) == reviews' = [reviews EXCEPT ![c] = status]

PlannerReports(c, status) ==
    /\ reviews[c] = "open"
    /\ IF StillBlocked(c)
       THEN /\ last' = [of |-> c, status |-> status]
            /\ \/ Ends(c, status)
               \/ status = "completed" /\ Ends(c, "qa")
       ELSE Ends(c, "completed") /\ last' = [of |-> c, status |-> "completed"]
    /\ UNCHANGED <<board, sprintVars, pollState, planner, mishaps>>

QaPasses(c) ==
    /\ reviews[c] = "qa"
    /\ Ends(c, "completed")
    /\ IF StillBlocked(c) THEN UNCHANGED last
       ELSE last' = [of |-> c, status |-> "completed"]
    /\ UNCHANGED <<board, sprintVars, pollState, planner, mishaps>>

-----------------------------------------------------------------------------
\* The scheduler's sprint takes every pending item, after a repair.
Selected(its, s) ==
    [i \in Items |->
        IF its[i].status = "pending" THEN [its[i] EXCEPT !.status = "selected", !.selected = s]
        ELSE its[i]]

Starts(s, planned) ==
    /\ active = 0 /\ started < MaxStarts
    /\ s = started + 1
    /\ active' = s /\ started' = s /\ manual' = planned

Start ==
    /\ pollState.at = "going"
    /\ pollState' = [at |-> "idle", blocked |-> {}]
    /\ LET offered == Counted(items) IN
       IF WithStatus(offered, "pending") = {} \/ active # 0 \/ started = MaxStarts
       THEN items' = offered /\ UNCHANGED <<todos, sprintVars, mishaps>>
       ELSE \E s \in SprintNumbers :
              /\ Starts(s, FALSE)
              /\ items' = Selected(offered, s)
              /\ \/ /\ todos' = [todos EXCEPT ![s] =
                          [i \in Items |-> IF offered[i].status = "pending" THEN "queued" ELSE "none"]]
                    /\ UNCHANGED mishaps
                 \/ Fault("crash") /\ UNCHANGED todos
    /\ UNCHANGED <<review, planner>>

\* A sprint of the user's or of a goal's starts without items.
StartPlanned ==
    /\ \E s \in SprintNumbers : Starts(s, TRUE)
    /\ UNCHANGED <<board, review, pollState, planner, mishaps>>

\* It takes the pending items planned for it, and drops the queued todos of
\* items that are its no longer.
Mine(s) == {i \in Items : items[i].status \in {"pending", "selected"} /\ s \in {items[i].planned, items[i].selected}}

Queue ==
    /\ active # 0 /\ manual
    /\ todos' = [todos EXCEPT ![active] =
          [i \in Items |->
              CASE i \in Mine(active) -> IF todos[active][i] = "none" THEN "queued" ELSE todos[active][i]
                [] i \notin Mine(active) /\ todos[active][i] = "queued" -> "none"
                [] OTHER -> todos[active][i]]]
    /\ items' = Synced([i \in Items |->
          IF i \in Mine(active) /\ items[i].status = "pending"
          THEN [items[i] EXCEPT !.status = "selected", !.selected = active] ELSE items[i]], todos', active)
    /\ board' # board
    /\ UNCHANGED <<sprintVars, review, pollState, planner, mishaps>>

\* A load of a sprint, of one that has ended when a role's report is late.
Load(s) ==
    /\ IF s = active THEN UNCHANGED mishaps ELSE Fault("late")
    /\ items' = Synced(items, todos, s) /\ items' # items
    /\ UNCHANGED <<todos, sprintVars, review, pollState, planner>>

TodoBegins(i) ==
    /\ active # 0 /\ todos[active][i] = "queued"
    /\ todos' = [todos EXCEPT ![active][i] = "running"]
    /\ items' = Synced(items, todos', active)
    /\ UNCHANGED <<sprintVars, review, pollState, planner, mishaps>>

\* A failed todo leaves a new item to carry it over.
Fresh == WithStatus(items, "none") \ Journal
CarryOver(its, status) ==
    IF status = "failed"
    THEN [its EXCEPT ![Min(Fresh)] = [@ EXCEPT !.status = "pending"]] ELSE its

\* The item is saved first; the sprint is saved after a report to the user.
TodoEnds(i, status) ==
    /\ active # 0 /\ todos[active][i] \in {"running", "uncommitted"}
    /\ status = "failed" => Fresh # {}
    /\ LET ended == [todos EXCEPT ![active][i] = status] IN
       /\ items' = CarryOver(Synced(items, ended, active), status)
       /\ \/ todos' = ended /\ UNCHANGED mishaps
          \/ Fault("crash") /\ UNCHANGED todos
    /\ UNCHANGED <<sprintVars, review, pollState, planner>>

\* A restart queues the blocked todo again and selects its item, unless done.
Restart(i) ==
    /\ active # 0 /\ todos[active][i] = "blocked"
    /\ Fault("restart")
    /\ todos' = [todos EXCEPT ![active][i] = "queued"]
    /\ items' = Synced(items, todos', active)
    /\ UNCHANGED <<sprintVars, review, pollState, planner>>

\* An exception ends a sprint whose todos have not ended.
SprintEnds ==
    /\ active # 0
    /\ IF \E i \in Items : todos[active][i] \in Restless THEN Fault("failed") ELSE UNCHANGED mishaps
    /\ active' = 0
    /\ UNCHANGED <<board, manual, started, review, pollState, planner>>

-----------------------------------------------------------------------------
\* The planner's merge changes what its payload names, in what it had read.
Merged_Defaults(m) ==
    [m.read EXCEPT !.status = "pending", !.selected = 0, !.completed = 0, !.planned = m.for]
Merged(m) ==
    CASE m.read.status = "none" \/ m.as = "reopened" -> [m.read EXCEPT !.status = "pending", !.planned = m.for]
      [] m.as = "planned" /\ m.read.status # "none" -> [m.read EXCEPT !.planned = m.for]
      [] OTHER -> m.read

MergeReads(i, as) ==
    /\ merge = Unread /\ merges < MaxMerges
    /\ merge' = [item |-> i, read |-> items[i], as |-> as,
                 for |-> IF as = "planned" THEN active ELSE items[i].planned]
    /\ merges' = merges + 1
    /\ UNCHANGED <<board, sprintVars, review, pollState, raced, mishaps>>

MergeWrites ==
    /\ merge # Unread
    /\ items' = [items EXCEPT ![merge.item] = Merged(merge)]
    /\ raced' = (raced \/ items[merge.item] # merge.read)
    /\ merge' = Unread
    /\ UNCHANGED <<todos, sprintVars, review, pollState, merges, mishaps>>

-----------------------------------------------------------------------------
BacklogInit ==
    /\ items = [i \in Items |-> [status |-> IF i \in Known THEN "pending" ELSE "none",
                                 selected |-> 0, completed |-> 0, planned |-> 0]]
    /\ todos = [s \in SprintNumbers |-> [i \in Items |-> "none"]]
    /\ active = 0 /\ started = 0 /\ manual = FALSE
    /\ reviews = [c \in SUBSET Items |-> "none"] /\ last = Unmade
    /\ pollState = [at |-> "idle", blocked |-> {}]
    /\ merge = Unread /\ merges = 0 /\ raced = FALSE
    /\ mishaps = [k \in FaultKinds |-> 0]

Reviewed ==
    \E c \in SUBSET Items : (\E status \in Terminal : PlannerReports(c, status)) \/ QaPasses(c)
Works ==
    \/ \E i \in Items : TodoBegins(i) \/ \E status \in {"completed", "blocked", "failed"} : TodoEnds(i, status)
    \/ SprintEnds
Merges == MergeWrites \/ \E i \in Items, as \in {"noted", "planned", "reopened"} : MergeReads(i, as)

BacklogNext ==
    \/ Collect \/ Decide \/ Start \/ Reviewed
    \/ StartPlanned \/ Queue \/ Works \/ Count
    \/ \E i \in Items : TodoEnds(i, "uncommitted") \/ Restart(i)
    \/ \E s \in 1..started : Load(s)
    \/ \E c \in SUBSET Items : DayPasses(c)
    \/ Merges

\* The scheduler polls, the relay brings the answers to reviews, and
\* sprints run.
BacklogFairness ==
    /\ WF_backlogVars(Collect) /\ WF_backlogVars(Decide) /\ WF_backlogVars(Start)
    /\ WF_backlogVars(Reviewed) /\ WF_backlogVars(Works)

BacklogSpec == BacklogInit /\ [][BacklogNext]_backlogVars /\ BacklogFairness

-----------------------------------------------------------------------------
Undisturbed == ~raced /\ Never("crash") /\ Never("late")

\* An item that is selected names the sprint that has it in work: a queued or
\* running todo of that sprint is for it.
SelectedIsWorked ==
    Undisturbed =>
        \A i \in WithStatus(items, "selected") :
            /\ items[i].selected # 0
            /\ todos[items[i].selected][i] \in {"queued", "running"}

\* ... and every item is what a merge, a sprint or the planner made of it.
BacklogIsWorked == BacklogTypeOK /\ SelectedIsWorked

\* What a sprint did stays done in the backlog, unless the planner reopens it
\* by name.
DoneStaysDone ==
    [][\A i \in WithStatus(items, "done") \ Journal :
          \/ items'[i].status = "done"
          \/ merge # Unread /\ merge.item = i /\ (merge.as = "reopened" \/ raced')
          \/ ~Undisturbed']_backlogVars

\* Whoever blocks an item, it comes before the planner, or is blocked no more.
BlockedIsReviewed ==
    \A i \in Items :
        items[i].status = "blocked" ~>
            \/ items[i].status # "blocked"
            \/ \E c \in SUBSET Items : i \in c /\ reviews[c] # "none"

\* A pending item is taken or put aside, as long as sprints may start: no
\* review holds the scheduler back for good.
PendingIsTaken ==
    \A i \in Items :
        items[i].status = "pending" ~> (items[i].status # "pending" \/ started = MaxStarts)

\* A blocked item the planner reopened is offered to the next sprint: no one
\* blocks a pending item that no sprint has in work.
ReopenedIsOffered ==
    [][\A i \in WithStatus(items, "pending") :
          items'[i].status = "blocked" =>
              (\E s \in SprintNumbers : todos[s][i] \in Restless) \/ ~Undisturbed']_backlogVars
=============================================================================
