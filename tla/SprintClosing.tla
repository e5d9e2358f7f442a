--------------------------- MODULE SprintClosing ---------------------------
(***************************************************************************)
(* The end of a sprint: its report is archived, its record saved, its goal *)
(* told, its documents published as comments of a GitHub issue, the user   *)
(* told and the scheduler freed.  The orchestrator may stop at any step,   *)
(* and a sprint whose planning did not finish is restarted and ends again. *)
(***************************************************************************)
EXTENDS Naturals, Sequences, SequencesExt, Functions

CONSTANTS
    Sections,    \* the sections and parts of documents that become comments
    Marker,      \* the marker of each, which two of them may share
    Docs,        \* the sections published when the sprint ends the nth time
    Endings,     \* how it may end
    PageSize,    \* how many comments one query returns
    FaultKinds,  \* what may go wrong
    MaxFaults    \* and how often

ASSUME ClosingAssumption ==
    /\ DOMAIN Marker = Sections /\ Docs \in Seq(Seq(Sections))
    /\ \A n \in DOMAIN Docs : IsInjective(Docs[n])
    /\ Endings \subseteq {"completed", "failed", "blocked", "unplanned"}
    /\ {PageSize, MaxFaults} \subseteq Nat
    /\ FaultKinds \subseteq {"gh", "unacked", "lag", "send", "crash", "torn", "closed"}

VARIABLES
    step,      \* of the orchestrator's loop
    ends,      \* how often the sprint ended
    mem,       \* the loop's copy of the sprint's record
    file,      \* the record
    history,   \* what the sprint history and its index say
    goal,      \* the outcome the goal's record has
    active,    \* the scheduler's active sprint is this one
    issues,    \* on GitHub: each is open or not, has comments and an index
    target,    \* the issue being published, 0 for none
    seen,      \* the place of the comment of each marker the query returned
    next,      \* the next section to publish
    sent,      \* the reports to the user: of which end, naming which issue
    mishaps

closing == <<step, ends, mem>>
records == <<file, history, goal, active, sent>>
github == <<issues, target, seen, next>>
closingVars == <<closing, records, github, mishaps>>

Status == {"running"} \cup Endings
Publishing == {"finding", "creating", "commenting"}
Record == [status : Status, issue : 0..Len(issues), publish : {"", "published", "failed"}]

ClosingTypeOK ==
    /\ step \in Publishing \cup {"running", "drafted", "archived", "saved",
                                 "reporting", "clearing", "ended", "down"}
    /\ ends \in 0..Len(Docs)
    /\ mem \in Record /\ file \in Record
    /\ history \in [status : Status, issue : 0..Len(issues)]
    /\ goal \in Status /\ active \in BOOLEAN
    /\ \A i \in DOMAIN issues : issues[i].index \in 0..Len(Docs) /\ issues[i].open \in BOOLEAN
    /\ target \in 0..Len(issues) /\ next \in Nat
    /\ step = "commenting" => target # 0
    /\ \A r \in sent : r.end \in 1..Len(Docs) /\ r.issue \in 0..Len(issues)
    /\ mishaps \in [FaultKinds -> Nat]

Mishap(kind) ==
    /\ kind \in FaultKinds /\ FoldFunction(+, 0, mishaps) < MaxFaults
    /\ mishaps' = [mishaps EXCEPT ![kind] = @ + 1]
Never(kind) == kind \in FaultKinds => mishaps[kind] = 0

Go(from, to) == step = from /\ step' = to

-----------------------------------------------------------------------------
\* The sprint ends; the planner drafts the report, or nobody does.
End(status) ==
    /\ Go("running", "drafted")
    /\ ends < Len(Docs) /\ ends' = ends + 1
    /\ mem' = [mem EXCEPT !.status = status]
    /\ UNCHANGED <<records, github, mishaps>>

Told(record) == [status |-> record.status, issue |-> record.issue]

Archived ==
    /\ Go("drafted", "archived")
    /\ history' = Told(mem)
    /\ UNCHANGED <<ends, mem, file, goal, active, sent, github, mishaps>>

\* A save refreshes the history of a sprint that has ended.
Saved_Alone(record) == file' = record /\ UNCHANGED history
Saved(record) ==
    /\ file' = record
    /\ history' = IF record.status = "running" THEN history ELSE Told(record)

SaveEnd ==
    /\ Go("archived", "saved")
    /\ Saved(mem)
    /\ UNCHANGED <<ends, mem, goal, active, sent, github, mishaps>>

TellGoal ==
    /\ Go("saved", "finding")
    /\ goal' = mem.status
    /\ UNCHANGED <<ends, mem, file, history, active, sent, github, mishaps>>

-----------------------------------------------------------------------------
\* The issue is the first the search returns whose body has the sprint's
\* marker, open or closed; a recent one may not be found yet.
FirstIssue(from) ==
    IF \E i \in from : TRUE THEN CHOOSE i \in from : \A j \in from : i <= j ELSE 0
Found_Open(lag) == FirstIssue({i \in DOMAIN issues : ~lag /\ issues[i].open})
Found(lag) == FirstIssue({i \in DOMAIN issues : ~lag})

\* The first page of comments; the last with a marker counts.
Place(comments) ==
    LET page == 1..(IF Len(comments) < PageSize THEN Len(comments) ELSE PageSize) IN
    [k \in {comments[i].marker : i \in page} |->
        CHOOSE i \in page :
            comments[i].marker = k /\ \A j \in page : comments[j].marker = k => j <= i]

\* Its body is written without the index of its comments.
Find ==
    /\ step = "finding"
    /\ \E lag \in BOOLEAN :
         /\ IF lag THEN issues # << >> /\ Mishap("lag") ELSE UNCHANGED mishaps
         /\ target' = Found(lag)
    /\ IF target' = 0
       THEN step' = "creating" /\ UNCHANGED <<issues, seen>>
       ELSE /\ step' = "commenting"
            /\ issues' = [issues EXCEPT ![target'].index = 0]
            /\ seen' = Place(issues[target'].comments)
    /\ next' = 1
    /\ UNCHANGED <<ends, mem, records>>

NewIssue == [open |-> TRUE, index |-> 0, comments |-> << >>]

Create_Unchecked ==
    /\ Go("creating", "commenting")
    /\ issues' = Append(issues, NewIssue)
    /\ target' = 0
    /\ seen' = << >>
    /\ UNCHANGED <<ends, mem, records, next, mishaps>>

Create ==
    /\ Go("creating", "commenting")
    /\ issues' = Append(issues, NewIssue)
    /\ target' = Len(issues) + 1
    /\ seen' = << >>
    /\ UNCHANGED <<ends, mem, records, next, mishaps>>

Upserted_New(comments, s) == Append(comments, [marker |-> Marker[s], section |-> s, end |-> ends])

Upserted(comments, s) ==
    LET comment == [marker |-> Marker[s], section |-> s, end |-> ends] IN
    IF Marker[s] \in DOMAIN seen
    THEN [comments EXCEPT ![seen[Marker[s]]] = comment]
    ELSE Append(comments, comment)

Upsert ==
    /\ step = "commenting" /\ next <= Len(Docs[ends])
    /\ issues' = [issues EXCEPT ![target].comments = Upserted(@, Docs[ends][next])]
    /\ next' = next + 1
    /\ UNCHANGED <<closing, records, target, seen, mishaps>>

\* The index of the comments is written, then the outcome saved.
Published ==
    /\ step = "commenting" /\ next > Len(Docs[ends])
    /\ step' = "reporting"
    /\ issues' = [issues EXCEPT ![target].index = ends]
    /\ mem' = [mem EXCEPT !.issue = target, !.publish = "published"]
    /\ Saved(mem')
    /\ UNCHANGED <<ends, goal, active, sent, target, seen, next, mishaps>>

Effect ==
    CASE step = "creating" -> Append(issues, NewIssue)
      [] step = "commenting" /\ next <= Len(Docs[ends]) ->
            [issues EXCEPT ![target].comments = Upserted(@, Docs[ends][next])]
      [] OTHER -> issues

PublishFails_Kept ==
    /\ step \in Publishing /\ step' = "reporting"
    /\ \/ Mishap("gh") /\ UNCHANGED issues
       \/ Mishap("unacked") /\ issues' = Effect
    /\ mem' = [mem EXCEPT !.publish = "failed"]
    /\ Saved(mem')
    /\ UNCHANGED <<ends, goal, active, sent, target, seen, next>>

\* A gh command fails, maybe after its effect: the end goes on without.
PublishFails ==
    /\ step \in Publishing /\ step' = "reporting"
    /\ \/ Mishap("gh") /\ UNCHANGED issues
       \/ Mishap("unacked") /\ issues' = Effect
    /\ mem' = [mem EXCEPT !.issue = 0, !.publish = "failed"]
    /\ Saved(mem')
    /\ UNCHANGED <<ends, goal, active, sent, target, seen, next>>

UserCloses ==
    /\ Mishap("closed")
    /\ \E i \in DOMAIN issues : issues[i].open /\ issues' = [issues EXCEPT ![i].open = FALSE]
    /\ UNCHANGED <<closing, records, target, seen, next>>

-----------------------------------------------------------------------------
\* A report that cannot be sent is logged.
Report ==
    /\ Go("reporting", "clearing")
    /\ \/ sent' = sent \cup {[end |-> ends, issue |-> mem.issue]} /\ UNCHANGED mishaps
       \/ Mishap("send") /\ UNCHANGED sent
    /\ UNCHANGED <<ends, mem, file, history, goal, active, github>>

\* One that completed, or blocked before its work began, is let go.
StaysActive(status) == status \notin {"completed", "unplanned"}

Clear ==
    /\ Go("clearing", "ended")
    /\ active' = StaysActive(mem.status)
    /\ UNCHANGED <<ends, mem, file, history, goal, sent, github, mishaps>>

-----------------------------------------------------------------------------
\* A stop in the middle of a save leaves the history ahead of the record.
ProcessDies ==
    /\ step # "down" /\ step' = "down"
    /\ \/ Mishap("crash") /\ UNCHANGED history
       \/ /\ step \in Publishing /\ Mishap("torn")
          /\ \E issue \in {0, target} : history' = [Told(mem) EXCEPT !.issue = issue]
    /\ UNCHANGED <<ends, mem, file, goal, active, sent, github>>

\* A restarted orchestrator goes by the record of its active sprint, and goes
\* on with one that has not ended or whose planning did not finish.
Resumes == active /\ file.status \in {"running", "unplanned"}

Resume_Blind ==
    /\ step = "down"
    /\ mem' = file
    /\ step' = IF Resumes THEN "running" ELSE "ended"
    /\ UNCHANGED <<ends, records, github, mishaps>>

Resume ==
    /\ step = "down"
    /\ mem' = file
    /\ step' = IF Resumes THEN "running" ELSE "ended"
    /\ active' = (active /\ (Resumes \/ StaysActive(file.status)))
    /\ UNCHANGED <<ends, file, history, goal, sent, github, mishaps>>

RestartSprint ==
    /\ Go("ended", "running")
    /\ file.status = "unplanned" /\ ends < Len(Docs)
    /\ mem' = file
    /\ active' = TRUE
    /\ UNCHANGED <<ends, file, history, goal, sent, github, mishaps>>

-----------------------------------------------------------------------------
ClosingInit ==
    /\ step = "running" /\ ends = 0
    /\ mem = [status |-> "running", issue |-> 0, publish |-> ""]
    /\ file = mem
    /\ history = Told(mem)
    /\ goal = "running"
    /\ active = TRUE
    /\ issues = << >> /\ target = 0 /\ seen = << >> /\ next = 1
    /\ sent = {}
    /\ mishaps = [kind \in FaultKinds |-> 0]

Closing ==
    \/ Archived \/ SaveEnd \/ TellGoal
    \/ Find \/ Create \/ Upsert \/ Published
    \/ Report \/ Clear \/ Resume

ClosingNext ==
    \/ Closing \/ PublishFails \/ UserCloses \/ ProcessDies \/ RestartSprint
    \/ \E status \in Endings : End(status)

\* Once a sprint ends its loop goes on, and a stopped orchestrator is started.
ClosingSpec == ClosingInit /\ [][ClosingNext]_closingVars /\ WF_closingVars(Closing)

-----------------------------------------------------------------------------
\* However often the sprint ends or stops half-way, and whatever users do to
\* its issue, it has one, if the search returns it (github_issue_publisher.py
\* _find_existing_issue).
OneIssue == Never("lag") => Len(issues) <= 1

\* What a successful publication leaves: the newest comment with the marker of
\* a section is that section as it was at the sprint's end, unless another ever had
\* the same marker; and it is the only one, if the comments fit on one page
\* (github_issue_publisher.py _comments_by_marker, _upsert_comment).
IssueIsCurrent ==
    step = "reporting" /\ mem.publish = "published" =>
        LET comments == issues[mem.issue].comments IN
        \A s \in ToSet(Docs[ends]) :
            LET own == {i \in DOMAIN comments : comments[i].marker = Marker[s]} IN
            (\A t \in Sections : Marker[t] = Marker[s] => t = s) =>
                /\ \E i \in own : /\ comments[i].end = ends /\ comments[i].section = s
                                  /\ \A j \in own : j <= i
                /\ Len(comments) <= PageSize => \A i, j \in own : i = j

\* A report names no issue that is not about its end of the sprint
\* (team_service.py _record_sprint_issue_publish_failure,
\* _complete_terminal_sprint).
ReportNamesIssue ==
    step = "clearing" =>
        \A r \in sent : r.end = ends /\ r.issue # 0 => issues[r.issue].index = ends

\* A sprint's end is published once, as it was.
PublishedOnce == ClosingTypeOK /\ OneIssue /\ IssueIsCurrent /\ ReportNamesIssue

\* Wherever the orchestrator stopped, the history has the outcome of the
\* record; unless it stopped inside a save they name the same issue, and
\* unless it stopped at all the goal was told (lifecycle.py
\* save_sprint_state_with_sync, team_service.py _complete_terminal_sprint).
RecordsAgree ==
    step = "ended" =>
        /\ history.status = file.status
        /\ Never("torn") => history.issue = file.issue
        /\ Never("torn") /\ Never("crash") => goal = file.status

\* An end that began is finished, without the issue or the report if need be,
\* and the scheduler keeps the sprint only if it may still go on
\* (lifecycle.py finish_scheduler_after_sprint, resume_active_sprint).
EndIsFinished ==
    []<>(step = "running" \/ (step = "ended" /\ active = StaysActive(file.status)))

=============================================================================
