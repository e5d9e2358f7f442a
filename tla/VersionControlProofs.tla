------------------------ MODULE VersionControlProofs ------------------------
(***************************************************************************)
(* Theorems about VersionControl, for all files, requests and bounds: what *)
(* a task or the sprint did is in the history when it counts as done, the  *)
(* helper's commit is narrow, and an uncommitted task comes nearer to be   *)
(* settled.  And about SprintClosing: a sprint's records agree when it has *)
(* ended, its end is published once, and an end that began comes nearer.   *)
(***************************************************************************)
EXTENDS VersionControl, SprintClosing, SequenceTheorems, WellFoundedInduction, TLAPS

\* A file is committed after it is staged, and staged after it is edited, so a
\* file whose content is committed has nothing else staged.
ContentsAreOrdered ==
    \A f \in Files :
        /\ worktree[f].head <= worktree[f].index
        /\ worktree[f].index <= worktree[f].work
        /\ worktree[f].work <= Len(authors)

\* One task at a time is unsettled, and none is once the closeout began.
OneIsUnsettled ==
    /\ \A q, r \in Requests :
          status[q] \in Unsettled /\ status[r] \in Unsettled => q = r
    /\ closeout # "" => \A r \in Requests : status[r] \notin Unsettled

\* The helper serves the uncommitted task or the closeout.
HelperServesOne ==
    /\ git.step # "idle" => git.job \in Jobs
    /\ git.step = "idle" => git = NoGit
    /\ git.job \in Requests => status[git.job] = "uncommitted"
    /\ git.job = Sprint => closeout = "requested"
    /\ git.step = "answer" <=> git.outcome # ""

BaselineIsFirst ==
    closeout # "" \/ (\E r \in Requests : status[r] # "queued") => baseline[Sprint].captured

\* An edit of some task, whichever it was.
MadeByTask(f) == worktree[f].work # 0 /\ authors[worktree[f].work] \in Requests

\* Nothing of a task's is left behind by a helper that has got so far: it is to be
\* added, then staged, then committed.
NothingIsMissed ==
    git.job \in Jobs => \A f \in Files \ baseline[git.job].dirty : MadeByTask(f) =>
        /\ git.step = "add" => f \in git.paths \/ worktree[f].head = worktree[f].work
        /\ git.step = "commit" => worktree[f].index = worktree[f].work
        /\ git.step = "answer" /\ git.outcome # "failed" => worktree[f].head = worktree[f].work

PathsAreOwned == git.step = "add" => git.paths \cap baseline[git.job].dirty = {}

IInv ==
    /\ TypeOK /\ ContentsAreOrdered
    /\ OneIsUnsettled /\ HelperServesOne /\ BaselineIsFirst
    /\ NothingIsMissed /\ PathsAreOwned
    /\ DoneIsInHistory /\ ClosedLeavesNothing

-----------------------------------------------------------------------------
\* An edit gives its file the highest number there is, under its author's name,
\* and leaves everything else that was written as it was.
LEMMA EditMakes ==
    ASSUME TypeOK, ContentsAreOrdered,
           NEW who \in Requests \cup {User}, NEW f \in Files, Edit(who, f)
    PROVE  /\ authors' \in Seq(Requests \cup {User})
           /\ Len(authors') = Len(authors) + 1 /\ Len(authors') + faults <= MaxEvents
           /\ authors'[Len(authors) + 1] = who
           /\ \A i \in 1..Len(authors) : authors'[i] = authors[i]
           /\ worktree' \in
                [Files -> [work : 0..MaxEvents, index : 0..MaxEvents, head : 0..MaxEvents]]
           /\ worktree'[f].work = Len(authors) + 1
           /\ worktree'[f].index = worktree[f].index /\ worktree'[f].head = worktree[f].head
           /\ \A g \in Files \ {f} : worktree'[g] = worktree[g]
<1>1. Len(authors) \in Nat /\ faults \in Nat /\ MaxEvents \in Nat
  BY VersionControlAssumption DEF TypeOK
<1>2. Len(authors) + 1 \in 0..MaxEvents
  BY <1>1 DEF Edit
<1>3. authors' = Append(authors, who)
  BY DEF Edit
<1>4. /\ authors' \in Seq(Requests \cup {User})
      /\ Len(authors') = Len(authors) + 1
      /\ authors'[Len(authors) + 1] = who
      /\ \A i \in 1..Len(authors) : authors'[i] = authors[i]
  BY <1>3, AppendProperties DEF TypeOK
<1>5. Len(authors') + faults <= MaxEvents
  BY <1>1, <1>4 DEF Edit
<1>6. worktree' = [worktree EXCEPT ![f].work = Len(authors) + 1]
  BY DEF Edit
<1>7. /\ worktree' \in
            [Files -> [work : 0..MaxEvents, index : 0..MaxEvents, head : 0..MaxEvents]]
      /\ worktree'[f].work = Len(authors) + 1
      /\ worktree'[f].index = worktree[f].index /\ worktree'[f].head = worktree[f].head
      /\ \A g \in Files \ {f} : worktree'[g] = worktree[g]
  BY <1>2, <1>6 DEF TypeOK
<1>8. QED BY <1>4, <1>5, <1>7

\* What the worktree of the next state is, under the actions that write into it.
LEMMA ContentsMove ==
    ASSUME TypeOK
    PROVE  /\ \A f \in Files : UserStages(f) =>
                /\ worktree'[f] = [worktree[f] EXCEPT !.index = worktree[f].work]
                /\ \A g \in Files \ {f} : worktree'[g] = worktree[g]
           /\ UserCommits \/ (Committed /\ Committable) =>
                \A g \in Files : worktree'[g] = [worktree[g] EXCEPT !.head = worktree[g].index]
           /\ Committed /\ ~Committable => UNCHANGED worktree
           /\ Resolved => \A g \in Files :
                worktree'[g] = IF g \in unmerged
                               THEN [work |-> worktree[g].head, index |-> worktree[g].head,
                                     head |-> worktree[g].head]
                               ELSE worktree[g]
           /\ Added => \A g \in Files :
                worktree'[g] = IF g \in git.paths
                               THEN [worktree[g] EXCEPT !.index = worktree[g].work]
                               ELSE worktree[g]
<1>1. \A f \in Files : UserStages(f) =>
                /\ worktree'[f] = [worktree[f] EXCEPT !.index = worktree[f].work]
                /\ \A g \in Files \ {f} : worktree'[g] = worktree[g]
  BY DEF TypeOK, UserStages
<1>2. UserCommits \/ (Committed /\ Committable) =>
        \A g \in Files : worktree'[g] = [worktree[g] EXCEPT !.head = worktree[g].index]
  BY DEF UserCommits, Committed, HeadIsIndex
<1>3. Committed /\ ~Committable => UNCHANGED worktree
  BY DEF Committed
<1>4. Resolved => \A g \in Files :
                worktree'[g] = IF g \in unmerged
                               THEN [work |-> worktree[g].head, index |-> worktree[g].head,
                                     head |-> worktree[g].head]
                               ELSE worktree[g]
  BY DEF Resolved
<1>5. Added => \A g \in Files :
                worktree'[g] = IF g \in git.paths
                               THEN [worktree[g] EXCEPT !.index = worktree[g].work]
                               ELSE worktree[g]
  BY DEF Added
<1>6. QED BY <1>1, <1>2, <1>3, <1>4, <1>5

\* The actions that write no file.
Writeless == UNCHANGED <<worktree, unmerged, authors>>

\* Those that end in none of the others' hands: what every step is.
LEMMA StepCases ==
    ASSUME [Next]_vars
    PROVE  \/ \E f \in Files : UserEdits(f) \/ UserStages(f)
           \/ UserCommits \/ Resolved \/ Added \/ Committed
           \/ \E r \in Requests, f \in Files : RoleWrites(r, f) \/ RoleMerges(r, f)
           \/ Writeless
<1>1. \A r \in Requests : TaskBegins(r) \/ TaskIsBlocked(r) \/ TaskCompletes(r) \/ Retry(r)
          \/ TaskIsAnswered(r) => Writeless
  BY DEF TaskBegins, TaskIsBlocked, TaskCompletes, Retry, TaskIsAnswered, Writeless
<1>2. SprintBegins \/ Inspected \/ CloseoutIsAnswered \/ CommandFails \/ AnswerIsLost
          \/ Crash \/ CloseoutBegins => Writeless
  BY DEF SprintBegins, Inspected, CloseoutIsAnswered, CommandFails, AnswerIsLost, Crash,
    CloseoutBegins, Writeless
<1>3. UNCHANGED vars => Writeless
  BY DEF vars, Writeless
<1>4. QED BY <1>1, <1>2, <1>3 DEF Next, Controller

-----------------------------------------------------------------------------
\* Every step keeps the order of a file's contents, and their types.
LEMMA OrderKept ==
    ASSUME IInv, [Next]_vars
    PROVE  /\ ContentsAreOrdered'
           /\ worktree' \in
                [Files -> [work : 0..MaxEvents, index : 0..MaxEvents, head : 0..MaxEvents]]
           /\ unmerged' \subseteq Files
           /\ authors' \in Seq(Requests \cup {User}) /\ Len(authors') <= MaxEvents
<1> DEFINE Contents == [work : 0..MaxEvents, index : 0..MaxEvents, head : 0..MaxEvents]
<1> DEFINE Goal == /\ ContentsAreOrdered' /\ worktree' \in [Files -> Contents]
                   /\ unmerged' \subseteq Files
                   /\ authors' \in Seq(Requests \cup {User}) /\ Len(authors') <= MaxEvents
<1>0. /\ TypeOK /\ ContentsAreOrdered /\ MaxEvents \in Nat /\ faults \in Nat
      /\ Len(authors) \in Nat /\ authors \in Seq(Requests \cup {User}) /\ Len(authors) <= MaxEvents
      /\ unmerged \subseteq Files /\ worktree \in [Files -> Contents]
  BY VersionControlAssumption DEF TypeOK, IInv
<1>n. \A g \in Files : /\ worktree[g] \in Contents /\ worktree[g].work \in Nat
                       /\ worktree[g].index \in Nat /\ worktree[g].head \in Nat
  BY <1>0
<1>e. ASSUME NEW who \in Requests \cup {User}, NEW f \in Files, Edit(who, f)
      PROVE  /\ ContentsAreOrdered' /\ worktree' \in [Files -> Contents]
             /\ authors' \in Seq(Requests \cup {User}) /\ Len(authors') <= MaxEvents
  <2>1. /\ authors' \in Seq(Requests \cup {User})
        /\ Len(authors') = Len(authors) + 1 /\ Len(authors') + faults <= MaxEvents
        /\ worktree' \in [Files -> Contents]
        /\ worktree'[f].work = Len(authors) + 1
        /\ worktree'[f].index = worktree[f].index /\ worktree'[f].head = worktree[f].head
        /\ \A g \in Files \ {f} : worktree'[g] = worktree[g]
    BY <1>0, <1>e, EditMakes
  <2>2. Len(authors') <= MaxEvents
    BY <1>0, <2>1
  <2>3. ASSUME NEW g \in Files
        PROVE  /\ worktree'[g].head <= worktree'[g].index
               /\ worktree'[g].index <= worktree'[g].work
               /\ worktree'[g].work <= Len(authors')
    <3>1. CASE g = f
      BY <1>0, <1>n, <2>1, <3>1 DEF ContentsAreOrdered
    <3>2. CASE g # f
      <4>1. worktree'[g] = worktree[g] BY <2>1, <3>2
      <4>2. QED BY <1>0, <1>n, <2>1, <4>1 DEF ContentsAreOrdered
    <3>3. QED BY <3>1, <3>2
  <2>4. QED BY <2>1, <2>2, <2>3 DEF ContentsAreOrdered
<1>m. ASSUME NEW g \in Files, UNCHANGED authors,
             \/ worktree'[g] = worktree[g]
             \/ worktree'[g] = [worktree[g] EXCEPT !.index = worktree[g].work]
             \/ worktree'[g] = [worktree[g] EXCEPT !.head = worktree[g].index]
             \/ worktree'[g] = [work |-> worktree[g].head, index |-> worktree[g].head,
                                head |-> worktree[g].head]
      PROVE  /\ worktree'[g].head <= worktree'[g].index
             /\ worktree'[g].index <= worktree'[g].work
             /\ worktree'[g].work <= Len(authors')
  BY <1>0, <1>n, <1>m DEF ContentsAreOrdered
<1>1. ASSUME NEW f \in Files, UserEdits(f) PROVE Goal
  BY <1>0, <1>1, <1>e DEF UserEdits
<1>2. ASSUME NEW f \in Files, UserStages(f) PROVE Goal
  <2>1. UNCHANGED authors /\ unmerged' \subseteq Files /\ worktree' \in [Files -> Contents]
    BY <1>0, <1>2 DEF UserStages
  <2>2. /\ worktree'[f] = [worktree[f] EXCEPT !.index = worktree[f].work]
        /\ \A g \in Files \ {f} : worktree'[g] = worktree[g]
    BY <1>0, <1>2, ContentsMove
  <2>3. ContentsAreOrdered'
    BY <1>m, <2>1, <2>2 DEF ContentsAreOrdered
  <2>4. QED BY <1>0, <2>1, <2>3
<1>3. CASE UserCommits \/ (Committed /\ Committable)
  <2>1. UNCHANGED <<authors, unmerged>> /\ worktree' \in [Files -> Contents]
    BY <1>0, <1>3 DEF UserCommits, Committed, HeadIsIndex
  <2>2. \A g \in Files : worktree'[g] = [worktree[g] EXCEPT !.head = worktree[g].index]
    BY <1>0, <1>3, ContentsMove
  <2>3. ContentsAreOrdered'
    BY <1>m, <2>1, <2>2 DEF ContentsAreOrdered
  <2>4. QED BY <1>0, <2>1, <2>3
<1>4. CASE Committed /\ ~Committable
  BY <1>0, <1>4 DEF Committed, ContentsAreOrdered
<1>5. CASE Resolved
  <2>1. UNCHANGED authors /\ unmerged' \subseteq Files /\ worktree' \in [Files -> Contents]
    BY <1>0, <1>5 DEF Resolved
  <2>2. \A g \in Files : \/ worktree'[g] = worktree[g]
                         \/ worktree'[g] = [work |-> worktree[g].head, index |-> worktree[g].head,
                                            head |-> worktree[g].head]
    BY <1>0, <1>5, ContentsMove
  <2>3. ContentsAreOrdered'
    BY <1>m, <2>1, <2>2 DEF ContentsAreOrdered
  <2>4. QED BY <1>0, <2>1, <2>3
<1>6. CASE Added
  <2>1. UNCHANGED authors /\ unmerged' \subseteq Files /\ worktree' \in [Files -> Contents]
    BY <1>0, <1>6 DEF Added
  <2>2. \A g \in Files : \/ worktree'[g] = worktree[g]
                         \/ worktree'[g] = [worktree[g] EXCEPT !.index = worktree[g].work]
    BY <1>0, <1>6, ContentsMove
  <2>3. ContentsAreOrdered'
    BY <1>m, <2>1, <2>2 DEF ContentsAreOrdered
  <2>4. QED BY <1>0, <2>1, <2>3
<1>7. ASSUME NEW r \in Requests, NEW f \in Files, RoleWrites(r, f) \/ RoleMerges(r, f)
      PROVE  Goal
  BY <1>0, <1>7, <1>e DEF RoleWrites, RoleMerges
<1>8. CASE Writeless
  BY <1>0, <1>8 DEF Writeless, ContentsAreOrdered
<1>9. QED BY <1>1, <1>2, <1>3, <1>4, <1>5, <1>6, <1>7, <1>8, StepCases

-----------------------------------------------------------------------------
\* The statuses, the closeout, the baselines and the log stay what they can be.
LEMMA RecordsTyped ==
    ASSUME IInv, [Next]_vars
    PROVE  /\ log' \subseteq {"sprint", "other"}
           /\ baseline' \in [Jobs -> [dirty : SUBSET Files, captured : BOOLEAN]]
           /\ status' \in [Requests -> RequestStatuses]
           /\ closeout' \in CloseoutStatuses
<1>1. /\ log \subseteq {"sprint", "other"}
      /\ baseline \in [Jobs -> [dirty : SUBSET Files, captured : BOOLEAN]]
      /\ status \in [Requests -> RequestStatuses]
      /\ closeout \in CloseoutStatuses /\ unmerged \subseteq Files
      /\ git.outcome \in Outcomes
  BY DEF IInv, TypeOK
<1>2. log' \subseteq {"sprint", "other"}
  BY <1>1 DEF Next, Controller, vars, UserEdits, UserStages, UserCommits, SprintBegins, RoleWrites,
    RoleMerges, TaskBegins, TaskIsBlocked, TaskCompletes, Retry, Inspected, Resolved, Added,
    Committed, TaskIsAnswered, CloseoutIsAnswered, CommandFails, AnswerIsLost, Crash, CloseoutBegins
<1>3. baseline' \in [Jobs -> [dirty : SUBSET Files, captured : BOOLEAN]]
  <2>1. Captured \in [dirty : SUBSET Files, captured : BOOLEAN]
    BY <1>1 DEF Captured, Dirty
  <2>2. CASE SprintBegins
    BY <1>1, <2>1, <2>2 DEF SprintBegins, Jobs
  <2>3. ASSUME NEW r \in Requests, TaskBegins(r)
        PROVE  baseline' \in [Jobs -> [dirty : SUBSET Files, captured : BOOLEAN]]
    BY <1>1, <2>1, <2>3 DEF TaskBegins, Jobs
  <2>4. CASE UNCHANGED baseline
    BY <1>1, <2>4
  <2>5. SprintBegins \/ (\E r \in Requests : TaskBegins(r)) \/ UNCHANGED baseline
    BY DEF Next, Controller, vars, UserEdits, UserStages, UserCommits, RoleWrites,
      RoleMerges, TaskIsBlocked, TaskCompletes, Retry, Inspected, Resolved, Added,
      Committed, TaskIsAnswered, CloseoutIsAnswered, CommandFails, AnswerIsLost, Crash,
      CloseoutBegins
  <2>6. QED BY <2>2, <2>3, <2>4, <2>5
<1>4. status' \in [Requests -> RequestStatuses]
  <2>1. ASSUME NEW r \in Requests,
               TaskBegins(r) \/ TaskIsBlocked(r) \/ TaskCompletes(r) \/ Retry(r)
                 \/ TaskIsAnswered(r)
        PROVE  status' \in [Requests -> RequestStatuses]
    <3>1. PICK s \in RequestStatuses : status' = [status EXCEPT ![r] = s]
      BY <1>1, <2>1 DEF TaskBegins, TaskIsBlocked, TaskCompletes, Retry, Enforce,
        TaskIsAnswered, Outcomes, RequestStatuses, HelperServesOne, IInv
    <3>2. QED BY <1>1, <3>1
  <2>2. CASE UNCHANGED status
    BY <1>1, <2>2
  <2>3. \/ UNCHANGED status
        \/ \E r \in Requests : TaskBegins(r) \/ TaskIsBlocked(r) \/ TaskCompletes(r)
             \/ Retry(r) \/ TaskIsAnswered(r)
    BY DEF Next, Controller, vars, UserEdits, UserStages, UserCommits, SprintBegins, RoleWrites,
      RoleMerges, Inspected, Resolved, Added, Committed, CloseoutIsAnswered, CommandFails,
      AnswerIsLost, Crash, CloseoutBegins
  <2>4. QED BY <2>1, <2>2, <2>3
<1>5. closeout' \in CloseoutStatuses
  <2>1. Inspection \in CloseoutStatuses
    BY DEF Inspection, CloseoutStatuses
  <2>2. QED BY <1>1, <2>1 DEF Next, Controller, vars, UserEdits, UserStages, UserCommits,
         SprintBegins, RoleWrites, RoleMerges, TaskBegins, TaskIsBlocked, TaskCompletes, Retry,
         Inspected, Resolved, Added, Committed, TaskIsAnswered, CloseoutIsAnswered, CommandFails,
         AnswerIsLost, Crash, CloseoutBegins, CloseoutStatuses
<1>6. QED BY <1>2, <1>3, <1>4, <1>5

\* So does the count of faults.
LEMMA FaultsTyped ==
    ASSUME IInv, [Next]_vars
    PROVE  faults' \in 0..MaxEvents
<1>1. faults \in 0..MaxEvents /\ MaxEvents \in Nat /\ Len(authors) \in Nat
  BY VersionControlAssumption DEF IInv, TypeOK
<1>2. CASE Fault
  BY <1>1, <1>2 DEF Fault
<1>3. Fault \/ UNCHANGED faults
  BY DEF Next, Controller, vars, UserEdits, UserStages, UserCommits, SprintBegins, RoleWrites,
    RoleMerges, TaskBegins, TaskIsBlocked, TaskCompletes, Retry, Inspected, Resolved, Added,
    Committed, TaskIsAnswered, CloseoutIsAnswered, CommandFails, AnswerIsLost, Crash, CloseoutBegins
<1>4. QED BY <1>1, <1>2, <1>3

\* What a job owns are paths of the worktree, none of them in its baseline.
LEMMA OwnedAreFiles ==
    ASSUME TypeOK, NEW job
    PROVE  /\ Owned(job) \subseteq Files /\ Owned(job) \cap baseline[job].dirty = {}
           /\ {f \in Files \ unmerged : Modified(f)} \ baseline[job].dirty \subseteq Files
BY DEF TypeOK, Owned, Dirty

\* The helper stays what it can be, and what it is to add is what its job owns.
LEMMA HelperTyped ==
    ASSUME IInv, [Next]_vars
    PROVE  /\ git' \in [job : Jobs \cup {"none"}, step : Steps, paths : SUBSET Files,
                        outcome : Outcomes]
           /\ (git'.step = "answer" <=> git'.outcome # "")
           /\ git'.step # "idle" => git'.job \in Jobs
           /\ git'.step = "idle" => git' = NoGit
<1> DEFINE Helpers == [job : Jobs \cup {"none"}, step : Steps, paths : SUBSET Files,
                       outcome : Outcomes]
<1> DEFINE Goal == /\ git' \in Helpers
                   /\ (git'.step = "answer" <=> git'.outcome # "")
                   /\ git'.step # "idle" => git'.job \in Jobs
                   /\ git'.step = "idle" => git' = NoGit
<1>1. /\ git \in Helpers /\ NoGit \in Helpers
      /\ (git.step = "answer" <=> git.outcome # "")
      /\ git.step # "idle" => git.job \in Jobs
      /\ git.step = "idle" => git = NoGit
  BY DEF IInv, TypeOK, HelperServesOne, NoGit, Steps, Outcomes
<1>2. ASSUME NEW o \in Outcomes \ {""}, git.step # "idle", Answer(o) PROVE Goal
  BY <1>1, <1>2 DEF Answer, Steps
<1>3. ASSUME NEW job \in Jobs, Asked(job) PROVE Goal
  BY <1>1, <1>3 DEF Asked, NoGit, Steps, Outcomes
<1>4. CASE git' = NoGit
  BY <1>1, <1>4 DEF NoGit
<1>5. CASE UNCHANGED git
  BY <1>1, <1>5
<1>6. ASSUME NEW paths \in SUBSET Files, git.step \in {"inspect", "resolve"},
             git' = [git EXCEPT !.step = "add", !.paths = paths]
      PROVE  Goal
  BY <1>1, <1>6 DEF Steps
<1>7. ASSUME NEW then \in {"resolve", "commit"}, git.step \in {"inspect", "add"},
             git' = [git EXCEPT !.step = then]
      PROVE  Goal
  BY <1>1, <1>7 DEF Steps
<1>8. CASE Inspected
  BY <1>2, <1>6, <1>7, <1>8, OwnedAreFiles DEF Inspected, Outcomes, IInv
<1>9. CASE Resolved
  BY <1>2, <1>6, <1>9, OwnedAreFiles DEF Resolved, Outcomes, IInv
<1>10. CASE Added
  BY <1>7, <1>10 DEF Added
<1>11. CASE Committed \/ CommandFails \/ AnswerIsLost
  BY <1>2, <1>11 DEF Committed, CommandFails, AnswerIsLost, Outcomes
<1>12. ASSUME NEW r \in Requests, TaskCompletes(r) \/ Retry(r) PROVE Goal
  BY <1>3, <1>4, <1>12 DEF TaskCompletes, Retry, Enforce, Jobs
<1>13. CASE CloseoutBegins
  BY <1>3, <1>5, <1>13 DEF CloseoutBegins, Jobs
<1>14. QED BY <1>4, <1>5, <1>8, <1>9, <1>10, <1>11, <1>12, <1>13
       DEF Next, Controller, vars, UserEdits, UserStages, UserCommits, SprintBegins, RoleWrites,
         RoleMerges, TaskBegins, TaskIsBlocked, TaskIsAnswered, CloseoutIsAnswered, Crash

-----------------------------------------------------------------------------
\* One task at a time stays unsettled: it alone may change its status, and the
\* next begins, and the closeout, only when none is.
LEMMA OneStaysUnsettled ==
    ASSUME IInv, [Next]_vars
    PROVE  OneIsUnsettled'
<1>1. /\ status \in [Requests -> RequestStatuses] /\ OneIsUnsettled
      /\ git.job \in Requests => status[git.job] = "uncommitted"
  BY DEF IInv, TypeOK, HelperServesOne
<1>2. ASSUME NEW r \in Requests, TaskBegins(r) PROVE OneIsUnsettled'
  BY <1>1, <1>2 DEF TaskBegins, OneIsUnsettled, Unsettled
<1>3. ASSUME NEW r \in Requests, status[r] \in Unsettled, UNCHANGED closeout,
             NEW s \in RequestStatuses, status' = [status EXCEPT ![r] = s]
      PROVE  OneIsUnsettled'
  BY <1>1, <1>3 DEF OneIsUnsettled, Unsettled
<1>4. ASSUME NEW r \in Requests,
             TaskIsBlocked(r) \/ TaskCompletes(r) \/ Retry(r) \/ TaskIsAnswered(r)
      PROVE  OneIsUnsettled'
  <2>1. status[r] \in Unsettled /\ UNCHANGED closeout
    BY <1>1, <1>4 DEF TaskIsBlocked, TaskCompletes, Retry, TaskIsAnswered, Unsettled
  <2>2. PICK s \in RequestStatuses : status' = [status EXCEPT ![r] = s]
    BY <1>4 DEF TaskIsBlocked, TaskCompletes, Retry, Enforce, TaskIsAnswered, IInv, TypeOK,
      HelperServesOne, Outcomes, RequestStatuses
  <2>3. QED BY <1>3, <2>1, <2>2
<1>5. CASE CloseoutBegins
  BY <1>1, <1>5 DEF CloseoutBegins, OneIsUnsettled
<1>6. CASE UNCHANGED status /\ closeout' \in {"", closeout}
  BY <1>1, <1>6 DEF OneIsUnsettled
<1>7. CASE CloseoutIsAnswered
  <2>1. closeout = "requested" /\ UNCHANGED status
    BY <1>7 DEF CloseoutIsAnswered, IInv, HelperServesOne
  <2>2. QED BY <1>1, <2>1 DEF OneIsUnsettled
<1>8. QED BY <1>2, <1>4, <1>5, <1>6, <1>7
       DEF Next, Controller, vars, UserEdits, UserStages, UserCommits, SprintBegins, RoleWrites,
         RoleMerges, Inspected, Resolved, Added, Committed, CommandFails, AnswerIsLost, Crash

\* A helper at rest serves no job.
LEMMA IdleServesNone == NoGit.job = "none" /\ NoGit.step = "idle"
BY DEF NoGit

\* A helper that is asked serves who asked it, and begins to inspect.
LEMMA AskedInspects ==
    ASSUME NEW job, Asked(job)
    PROVE  git'.job = job /\ git'.step = "inspect"
BY DEF Asked, NoGit

\* No request is the sprint, the user or none.
LEMMA NamesDiffer ==
    Sprint \notin Requests /\ User \notin Requests /\ "none" \notin Requests /\ "none" # Sprint
BY VersionControlAssumption DEF Sprint

\* The helper goes on serving the task or the closeout that waits for it.
LEMMA HelperKeepsServing ==
    ASSUME IInv, [Next]_vars
    PROVE  HelperServesOne'
<1> DEFINE Goal == /\ git'.job \in Requests => status'[git'.job] = "uncommitted"
                   /\ git'.job = Sprint => closeout' = "requested"
<1>1. /\ status \in [Requests -> RequestStatuses] /\ OneIsUnsettled /\ Sprint \notin Requests
      /\ "none" \notin Requests /\ "none" # Sprint
      /\ git.job \in Requests => status[git.job] = "uncommitted"
      /\ git.job = Sprint => closeout = "requested"
      /\ git.step # "idle" => git.job \in Jobs
      /\ git.step = "idle" => git.job = "none"
      /\ git \in [job : Jobs \cup {"none"}, step : Steps, paths : SUBSET Files,
                  outcome : Outcomes]
  <2>1. TypeOK /\ OneIsUnsettled /\ HelperServesOne
    BY DEF IInv
  <2>2. git.step = "idle" => git.job = "none"
    BY <2>1, IdleServesNone DEF HelperServesOne
  <2>3. QED BY <2>1, <2>2, NamesDiffer DEF TypeOK, HelperServesOne
<1> SUFFICES Goal
  BY HelperTyped DEF HelperServesOne
<1>2. ASSUME NEW r \in Requests, TaskBegins(r) \/ TaskIsBlocked(r) PROVE Goal
  BY <1>1, <1>2 DEF TaskBegins, TaskIsBlocked
<1>3. ASSUME NEW r \in Requests, TaskCompletes(r) \/ Retry(r) PROVE Goal
  <2>1. CASE git' = NoGit
    BY <1>1, <2>1 DEF NoGit
  <2>2. CASE Asked(r) /\ status' = [status EXCEPT ![r] = "uncommitted"]
    BY <1>1, <2>2 DEF Asked, NoGit
  <2>3. QED BY <1>3, <2>1, <2>2 DEF TaskCompletes, Retry, Enforce
<1>4. CASE git' = NoGit
  BY <1>1, <1>4 DEF NoGit
<1>5. CASE git'.job = git.job /\ UNCHANGED <<status, closeout>>
  BY <1>1, <1>5
<1>6. CASE Inspected \/ Resolved \/ Added \/ Committed \/ CommandFails \/ AnswerIsLost
  <2>1. git'.job = git.job /\ UNCHANGED <<status, closeout>>
    BY <1>1, <1>6 DEF Inspected, Resolved, Added, Committed, CommandFails, AnswerIsLost, Answer
  <2>2. QED BY <1>5, <2>1
<1>7. CASE CloseoutBegins
  <2>1. git.job \notin Requests /\ git.job # Sprint
    BY <1>1, <1>7 DEF CloseoutBegins, Unsettled
  <2>2. CASE Asked(Sprint) /\ closeout' = "requested"
    BY <1>1, <2>2 DEF Asked, NoGit
  <2>3. CASE UNCHANGED git
    BY <2>1, <2>3
  <2>4. QED BY <1>7, <2>2, <2>3 DEF CloseoutBegins
<1>8. QED BY <1>2, <1>3, <1>4, <1>5, <1>6, <1>7
       DEF Next, Controller, vars, UserEdits, UserStages, UserCommits, SprintBegins, RoleWrites,
         RoleMerges, TaskIsAnswered, CloseoutIsAnswered, Crash

\* The sprint's baseline stays the first.
LEMMA BaselineStaysFirst ==
    ASSUME IInv, [Next]_vars
    PROVE  BaselineIsFirst'
<1>1. /\ BaselineIsFirst /\ status \in [Requests -> RequestStatuses] /\ Sprint \in Jobs
      /\ Sprint \notin Requests
      /\ baseline \in [Jobs -> [dirty : SUBSET Files, captured : BOOLEAN]]
      /\ git.job \in Requests => status[git.job] = "uncommitted"
      /\ git.job = Sprint => closeout = "requested"
  BY VersionControlAssumption DEF IInv, TypeOK, HelperServesOne, Jobs
<1>2. CASE baseline[Sprint].captured
  <2>1. baseline'[Sprint].captured
    BY <1>1, <1>2 DEF Captured, Next, Controller, vars, UserEdits, UserStages, UserCommits,
      SprintBegins, RoleWrites, RoleMerges, TaskBegins, TaskIsBlocked, TaskCompletes, Retry,
      Inspected, Resolved, Added, Committed, TaskIsAnswered, CloseoutIsAnswered, CommandFails,
      AnswerIsLost, Crash, CloseoutBegins
  <2>2. QED BY <2>1 DEF BaselineIsFirst
<1>3. CASE ~baseline[Sprint].captured
  <2>1. closeout = "" /\ \A r \in Requests : status[r] = "queued"
    BY <1>1, <1>3 DEF BaselineIsFirst
  <2>2. closeout' = "" /\ UNCHANGED status
    BY <1>1, <1>3, <2>1 DEF Next, Controller, vars, UserEdits, UserStages, UserCommits,
      SprintBegins, RoleWrites, RoleMerges, TaskBegins, TaskIsBlocked, TaskCompletes, Retry,
      Inspected, Resolved, Added, Committed, TaskIsAnswered, CloseoutIsAnswered, CommandFails,
      AnswerIsLost, Crash, CloseoutBegins
  <2>3. QED BY <2>1, <2>2 DEF BaselineIsFirst
<1>4. QED BY <1>2, <1>3

\* While the helper serves a job, its baseline stays as it was taken.
LEMMA BaselineStands ==
    ASSUME IInv, [Next]_vars, NEW j \in Jobs,
           j = Sprint => closeout # "", j \in Requests => status[j] # "queued"
    PROVE  baseline'[j] = baseline[j]
<1>1. /\ baseline \in [Jobs -> [dirty : SUBSET Files, captured : BOOLEAN]] /\ Sprint \notin Requests
      /\ closeout # "" => baseline[Sprint].captured
  BY VersionControlAssumption DEF IInv, TypeOK, BaselineIsFirst
<1>2. CASE SprintBegins
  BY <1>1, <1>2 DEF SprintBegins
<1>3. ASSUME NEW r \in Requests, TaskBegins(r) PROVE baseline'[j] = baseline[j]
  BY <1>1, <1>3 DEF TaskBegins
<1>4. CASE UNCHANGED baseline
  BY <1>4
<1>5. QED BY <1>2, <1>3, <1>4 DEF Next, Controller, vars, UserEdits, UserStages, UserCommits,
         RoleWrites, RoleMerges, TaskIsBlocked, TaskCompletes, Retry, Inspected, Resolved, Added,
         Committed, TaskIsAnswered, CloseoutIsAnswered, CommandFails, AnswerIsLost, Crash,
         CloseoutBegins

\* The job of the helper is one whose baseline stands.
LEMMA JobHasBaseline ==
    ASSUME IInv, [Next]_vars, git.job \in Jobs
    PROVE  baseline'[git.job] = baseline[git.job]
BY BaselineStands DEF IInv, HelperServesOne

\* The paths the helper is to add stay outside the baseline of its job.
LEMMA PathsStayOwned ==
    ASSUME IInv, [Next]_vars
    PROVE  PathsAreOwned'
<1>1. /\ PathsAreOwned
      /\ git.step # "idle" => git.job \in Jobs
      /\ git \in [job : Jobs \cup {"none"}, step : Steps, paths : SUBSET Files,
                  outcome : Outcomes]
  BY DEF IInv, HelperServesOne, TypeOK
<1>2. CASE git'.step # "add"
  BY <1>2 DEF PathsAreOwned
<1>3. CASE UNCHANGED git
  <2>1. CASE git.step # "add"
    BY <1>3, <2>1 DEF PathsAreOwned
  <2>2. CASE git.step = "add"
    <3>1. git.job \in Jobs /\ git.paths \cap baseline[git.job].dirty = {}
      BY <1>1, <2>2 DEF PathsAreOwned
    <3>2. baseline'[git.job] = baseline[git.job]
      BY <3>1, JobHasBaseline
    <3>3. QED BY <1>3, <3>1, <3>2 DEF PathsAreOwned
  <2>3. QED BY <2>1, <2>2
<1>4. ASSUME NEW paths \in SUBSET Files, git.step # "idle", UNCHANGED baseline,
             paths \cap baseline[git.job].dirty = {},
             git' = [git EXCEPT !.step = "add", !.paths = paths]
      PROVE  PathsAreOwned'
  BY <1>1, <1>4 DEF PathsAreOwned
<1>5. ASSUME NEW o \in Outcomes, Answer(o) PROVE PathsAreOwned'
  BY <1>1, <1>2, <1>5 DEF Answer
<1>6. ASSUME NEW then \in {"resolve", "commit"}, git' = [git EXCEPT !.step = then]
      PROVE  PathsAreOwned'
  BY <1>1, <1>2, <1>6
<1>7. ASSUME NEW job \in Jobs, git' = NoGit \/ Asked(job) PROVE PathsAreOwned'
  <2>1. git'.step # "add"
    BY <1>7, IdleServesNone, AskedInspects
  <2>2. QED BY <1>2, <2>1
<1>8. CASE Inspected
  BY <1>4, <1>5, <1>6, <1>8, OwnedAreFiles DEF Inspected, Outcomes, IInv
<1>9. CASE Resolved
  <2> DEFINE left == {f \in Files \ unmerged : Modified(f)} \ baseline[git.job].dirty
  <2>1. /\ git.step # "idle" /\ UNCHANGED baseline
        /\ Answer("no_changes") \/ git' = [git EXCEPT !.step = "add", !.paths = left]
    BY <1>9 DEF Resolved
  <2>2. left \in SUBSET Files /\ left \cap baseline[git.job].dirty = {}
    OBVIOUS
  <2> HIDE DEF left
  <2>3. QED BY <1>4, <1>5, <2>1, <2>2 DEF Outcomes
<1>10. CASE Added
  BY <1>6, <1>10 DEF Added
<1>11. CASE Committed \/ CommandFails \/ AnswerIsLost
  BY <1>5, <1>11 DEF Committed, CommandFails, AnswerIsLost, Outcomes
<1>12. ASSUME NEW r \in Requests, TaskCompletes(r) \/ Retry(r) PROVE PathsAreOwned'
  BY <1>7, <1>12 DEF TaskCompletes, Retry, Enforce, Jobs
<1>13. CASE CloseoutBegins
  BY <1>3, <1>7, <1>13 DEF CloseoutBegins, Jobs
<1>14. CASE git' = NoGit
  BY <1>7, <1>14 DEF Jobs
<1>15. QED BY <1>3, <1>8, <1>9, <1>10, <1>11, <1>12, <1>13, <1>14
       DEF Next, Controller, vars, UserEdits, UserStages, UserCommits, SprintBegins, RoleWrites,
         RoleMerges, TaskBegins, TaskIsBlocked, TaskIsAnswered, CloseoutIsAnswered, Crash

-----------------------------------------------------------------------------
\* What a task wrote and is there after a step was there before it, no further
\* from being committed than it is now, unless the task runs and has just written
\* it, or a conflict has just been settled.
LEMMA WorkIsOld ==
    ASSUME IInv, [Next]_vars, NEW f \in Files, NEW who \in Requests, MadeBy(who, f)'
    PROVE  \/ worktree'[f].index = worktree'[f].work /\ worktree'[f].head = worktree'[f].work
           \/ status[who] = "running" /\ UNCHANGED <<status, closeout, git, baseline>>
           \/ /\ MadeBy(who, f)
              /\ worktree[f].head = worktree[f].work => worktree'[f].head = worktree'[f].work
              /\ worktree[f].index = worktree[f].work => worktree'[f].index = worktree'[f].work
<1> DEFINE Older == /\ MadeBy(who, f)
                    /\ worktree[f].head = worktree[f].work =>
                         worktree'[f].head = worktree'[f].work
                    /\ worktree[f].index = worktree[f].work =>
                         worktree'[f].index = worktree'[f].work
<1> DEFINE Fresh == status[who] = "running" /\ UNCHANGED <<status, closeout, git, baseline>>
<1>1. /\ TypeOK /\ ContentsAreOrdered /\ Len(authors) \in Nat
      /\ worktree[f].work \in Nat /\ worktree[f].index \in Nat /\ worktree[f].head \in Nat
      /\ worktree[f].head <= worktree[f].index /\ worktree[f].index <= worktree[f].work
      /\ worktree[f].work <= Len(authors)
      /\ worktree[f] \in [work : 0..MaxEvents, index : 0..MaxEvents, head : 0..MaxEvents]
  BY VersionControlAssumption DEF IInv, TypeOK, ContentsAreOrdered
<1>2. CASE worktree'[f] = worktree[f] /\ UNCHANGED authors
  <2>1. MadeBy(who, f)
    BY <1>2 DEF MadeBy
  <2>2. QED BY <1>2, <2>1
<1>3. ASSUME NEW w \in Requests \cup {User}, NEW g \in Files, Edit(w, g)
      PROVE  Older \/ (w = who /\ g = f)
  <2>1. /\ Len(authors') = Len(authors) + 1
        /\ authors'[Len(authors) + 1] = w
        /\ \A i \in 1..Len(authors) : authors'[i] = authors[i]
        /\ worktree'[g].work = Len(authors) + 1
        /\ \A h \in Files \ {g} : worktree'[h] = worktree[h]
    BY <1>1, <1>3, EditMakes
  <2>2. CASE f = g
    BY <2>1, <2>2 DEF MadeBy
  <2>3. CASE f # g
    <3>1. worktree'[f] = worktree[f]
      BY <2>1, <2>3
    <3>2. worktree[f].work \in 1..Len(authors)
      BY <1>1, <3>1 DEF MadeBy
    <3>3. MadeBy(who, f)
      BY <2>1, <3>1, <3>2 DEF MadeBy
    <3>4. QED BY <3>1, <3>3
  <2>4. QED BY <2>2, <2>3
<1>4. ASSUME NEW g \in Files, UserEdits(g) PROVE Older
  BY <1>3, <1>4, NamesDiffer DEF UserEdits
<1>5. ASSUME NEW g \in Files, UserStages(g) PROVE Older
  <2>1. UNCHANGED authors
    BY <1>5 DEF UserStages
  <2>2. worktree'[f] = worktree[f] \/ worktree'[f] = [worktree[f] EXCEPT !.index = worktree[f].work]
    BY <1>1, <1>5, ContentsMove
  <2>3. QED BY <1>1, <2>1, <2>2 DEF MadeBy
<1>6. CASE UserCommits \/ (Committed /\ Committable)
  <2>1. UNCHANGED authors
    BY <1>6 DEF UserCommits, Committed
  <2>2. worktree'[f] = [worktree[f] EXCEPT !.head = worktree[f].index]
    BY <1>1, <1>6, ContentsMove
  <2>3. QED BY <1>1, <2>1, <2>2 DEF MadeBy
<1>7. CASE Committed /\ ~Committable
  BY <1>2, <1>7 DEF Committed
<1>8. CASE Resolved
  <2>1. UNCHANGED authors
    BY <1>8 DEF Resolved
  <2>2. \/ worktree'[f] = worktree[f]
        \/ worktree'[f] = [work |-> worktree[f].head, index |-> worktree[f].head,
                           head |-> worktree[f].head]
    BY <1>1, <1>8, ContentsMove
  <2>3. QED BY <1>2, <2>1, <2>2
<1>9. CASE Added
  <2>1. UNCHANGED authors
    BY <1>9 DEF Added
  <2>2. worktree'[f] = worktree[f] \/ worktree'[f] = [worktree[f] EXCEPT !.index = worktree[f].work]
    BY <1>1, <1>9, ContentsMove
  <2>3. QED BY <1>1, <2>1, <2>2 DEF MadeBy
<1>10. ASSUME NEW r \in Requests, NEW g \in Files, RoleWrites(r, g) \/ RoleMerges(r, g)
       PROVE  Older \/ Fresh
  BY <1>3, <1>10 DEF RoleWrites, RoleMerges
<1>11. CASE Writeless
  BY <1>2, <1>11 DEF Writeless
<1>12. QED BY <1>4, <1>5, <1>6, <1>7, <1>8, <1>9, <1>10, <1>11, StepCases

\* Nobody's task runs while the helper serves a job, or once the closeout began.
LEMMA NoneRuns ==
    ASSUME IInv, git.job \in Jobs \/ closeout # "", NEW r \in Requests
    PROVE  status[r] # "running"
<1>1. /\ OneIsUnsettled /\ status \in [Requests -> RequestStatuses]
      /\ git.job \in Requests => status[git.job] = "uncommitted"
      /\ git.job = Sprint => closeout = "requested"
  BY DEF IInv, TypeOK, HelperServesOne
<1>2. QED BY <1>1 DEF OneIsUnsettled, Unsettled, Jobs

\* A file that a job does not own, and that was clean at its baseline, is
\* committed as it is.
LEMMA UnownedIsCommitted ==
    ASSUME IInv, NEW job, NEW f \in Files \ baseline[job].dirty, f \notin Owned(job)
    PROVE  worktree[f].index = worktree[f].work /\ worktree[f].head = worktree[f].work
BY DEF Owned, Dirty, Modified

-----------------------------------------------------------------------------
\* No step of the helper misses what is to be committed, and no step of others
\* makes it miss anything.
LEMMA NothingBecomesMissed ==
    ASSUME IInv, [Next]_vars
    PROVE  NothingIsMissed'
<1> SUFFICES ASSUME git'.job \in Jobs, NEW f \in Files, f \notin baseline'[git'.job].dirty,
                    MadeByTask(f)'
             PROVE  /\ git'.step = "add" =>
                         f \in git'.paths \/ worktree'[f].head = worktree'[f].work
                    /\ git'.step = "commit" => worktree'[f].index = worktree'[f].work
                    /\ git'.step = "answer" /\ git'.outcome # "failed" =>
                         worktree'[f].head = worktree'[f].work
  BY DEF NothingIsMissed
<1>1. PICK who \in Requests : MadeBy(who, f)'
  BY DEF MadeBy, MadeByTask
<1>2. /\ git \in [job : Jobs \cup {"none"}, step : Steps, paths : SUBSET Files,
                  outcome : Outcomes]
      /\ git.step # "idle" => git.job \in Jobs
      /\ NothingIsMissed
      /\ worktree[f].work \in Nat /\ worktree[f].index \in Nat /\ worktree[f].head \in Nat
      /\ worktree[f].head <= worktree[f].index /\ worktree[f].index <= worktree[f].work
  <2>1. TypeOK /\ HelperServesOne /\ NothingIsMissed /\ ContentsAreOrdered
    BY DEF IInv
  <2>2. /\ worktree[f].work \in Nat /\ worktree[f].index \in Nat /\ worktree[f].head \in Nat
        /\ worktree[f].head <= worktree[f].index /\ worktree[f].index <= worktree[f].work
    BY <2>1, VersionControlAssumption DEF TypeOK, ContentsAreOrdered
  <2>3. QED BY <2>1, <2>2 DEF TypeOK, HelperServesOne
<1> DEFINE Settled == /\ worktree'[f].index = worktree'[f].work
                      /\ worktree'[f].head = worktree'[f].work
<1> DEFINE Older == /\ MadeByTask(f)
                    /\ worktree[f].head = worktree[f].work =>
                         worktree'[f].head = worktree'[f].work
                    /\ worktree[f].index = worktree[f].work =>
                         worktree'[f].index = worktree'[f].work
<1>3. git.job \in Jobs => Settled \/ Older
  BY <1>1, WorkIsOld, NoneRuns DEF MadeBy, MadeByTask
<1>4. git.job \in Jobs => baseline'[git.job] = baseline[git.job]
  BY JobHasBaseline
<1>5. CASE \/ git'.step \notin {"add", "commit", "answer"}
           \/ git'.step = "answer" /\ git'.outcome = "failed"
  BY <1>5
<1>6. CASE UNCHANGED git
  BY <1>2, <1>3, <1>4, <1>6 DEF NothingIsMissed
<1>7. CASE Inspected
  <2>1. git.job \in Jobs /\ git'.job = git.job /\ UNCHANGED worktree
    BY <1>2, <1>7 DEF Inspected, Answer
  <2>2. \/ f \in Owned(git.job)
        \/ worktree[f].index = worktree[f].work /\ worktree[f].head = worktree[f].work
    BY <1>4, <2>1, UnownedIsCommitted
  <2>3. \/ Owned(git.job) = {}
        \/ git'.step = "add" /\ git'.paths = Owned(git.job)
        \/ git'.step = "resolve"
    BY <1>2, <1>7 DEF Inspected
  <2>4. QED BY <1>2, <2>1, <2>2, <2>3
<1>8. CASE Resolved
  <2> DEFINE left == {g \in Files \ unmerged : Modified(g)} \ baseline[git.job].dirty
  <2>1. git.job \in Jobs /\ git'.job = git.job
    BY <1>2, <1>8 DEF Resolved, Answer
  <2>2. \/ left = {} /\ git'.step = "answer"
        \/ git'.step = "add" /\ git'.paths = left
    BY <1>2, <1>8 DEF Resolved, Answer
  <2>3. f \notin left => worktree'[f].head = worktree'[f].work
    <3>1. CASE f \in unmerged
      <4>1. TypeOK BY DEF IInv
      <4>2. worktree'[f] = [work |-> worktree[f].head, index |-> worktree[f].head,
                            head |-> worktree[f].head]
        BY <1>8, <3>1, <4>1, ContentsMove
      <4>3. QED BY <4>2
    <3>2. CASE f \notin unmerged
      <4>1. TypeOK BY DEF IInv
      <4>2. worktree'[f] = worktree[f]
        BY <1>8, <3>2, <4>1, ContentsMove
      <4>3. f \notin left => ~Modified(f)
        BY <1>4, <2>1, <3>2
      <4>4. QED BY <4>2, <4>3 DEF Modified
    <3>3. QED BY <3>1, <3>2
  <2> HIDE DEF left
  <2>4. QED BY <2>2, <2>3
<1>9. CASE Added
  <2>1. /\ git.job \in Jobs /\ git'.job = git.job /\ git.step = "add" /\ git'.step = "commit"
        /\ UNCHANGED authors
    BY <1>2, <1>9 DEF Added
  <2>2. TypeOK BY DEF IInv
  <2>3. worktree'[f] = IF f \in git.paths
                       THEN [worktree[f] EXCEPT !.index = worktree[f].work] ELSE worktree[f]
    BY <1>9, <2>2, ContentsMove
  <2>4. worktree[f] \in [work : 0..MaxEvents, index : 0..MaxEvents, head : 0..MaxEvents]
    BY <2>2 DEF TypeOK
  <2>5. CASE f \in git.paths
    BY <2>1, <2>3, <2>4, <2>5
  <2>6. CASE f \notin git.paths
    <3>1. worktree'[f] = worktree[f] /\ MadeByTask(f)
      BY <2>1, <2>3, <2>6 DEF MadeByTask
    <3>2. worktree[f].head = worktree[f].work
      BY <1>2, <1>4, <2>1, <2>6, <3>1 DEF NothingIsMissed
    <3>3. QED BY <1>2, <2>1, <3>1, <3>2
  <2>7. QED BY <2>5, <2>6
<1>10. CASE Committed
  <2>1. CASE ~Committable
    <3>1. git'.step = "answer" /\ git'.outcome = "failed"
      BY <1>2, <1>10, <2>1 DEF Committed, Answer
    <3>2. QED BY <3>1
  <2>2. CASE Committable
    <3>1. /\ git.job \in Jobs /\ git'.job = git.job /\ git.step = "commit" /\ git'.step = "answer"
          /\ UNCHANGED authors
      BY <1>2, <1>10, <2>2 DEF Committed, Answer
    <3>2. TypeOK BY DEF IInv
    <3>3. worktree'[f] = [worktree[f] EXCEPT !.head = worktree[f].index]
      BY <1>10, <2>2, <3>2, ContentsMove
    <3>4. worktree[f] \in [work : 0..MaxEvents, index : 0..MaxEvents, head : 0..MaxEvents]
      BY <3>2 DEF TypeOK
    <3>5. worktree'[f].work = worktree[f].work /\ worktree'[f].head = worktree[f].index
      BY <3>3, <3>4
    <3>6. MadeByTask(f)
      BY <3>1, <3>5 DEF MadeByTask
    <3>7. worktree[f].index = worktree[f].work
      BY <1>2, <1>4, <3>1, <3>6 DEF NothingIsMissed
    <3>8. QED BY <3>1, <3>5, <3>7
  <2>3. QED BY <2>1, <2>2
<1>11. CASE CommandFails \/ AnswerIsLost
  <2>1. git'.step = "answer" /\ git'.outcome = "failed"
    BY <1>2, <1>11 DEF CommandFails, AnswerIsLost, Answer
  <2>2. QED BY <2>1
<1>12. CASE git' = NoGit
  BY <1>5, <1>12, IdleServesNone
<1>13. ASSUME NEW job, Asked(job) PROVE git'.step = "inspect"
  BY <1>13, AskedInspects
<1>14. ASSUME NEW r \in Requests, TaskCompletes(r) \/ Retry(r) PROVE git' = NoGit \/ Asked(r)
  BY <1>14 DEF TaskCompletes, Retry, Enforce
<1>15. CASE CloseoutBegins
  BY <1>5, <1>6, <1>13, <1>15 DEF CloseoutBegins
<1>16. QED BY <1>5, <1>6, <1>7, <1>8, <1>9, <1>10, <1>11, <1>12, <1>13, <1>14, <1>15
       DEF Next, Controller, vars, UserEdits, UserStages, UserCommits, SprintBegins, RoleWrites,
         RoleMerges, TaskBegins, TaskIsBlocked, TaskIsAnswered, CloseoutIsAnswered, Crash

-----------------------------------------------------------------------------
\* A task that becomes done owns nothing that is not committed.
LEMMA DoneStaysInHistory ==
    ASSUME IInv, [Next]_vars
    PROVE  DoneIsInHistory'
<1> DEFINE Done == {"committed", "completed"}
<1> SUFFICES ASSUME NEW r \in Requests, NEW f \in Files, status'[r] \in Done,
                    f \notin baseline'[r].dirty, MadeBy(r, f)'
             PROVE  worktree'[f].head = worktree'[f].work
  BY DEF DoneIsInHistory
<1>1. /\ status \in [Requests -> RequestStatuses] /\ DoneIsInHistory /\ r \in Jobs /\ r # Sprint
      /\ git.job = r => status[r] = "uncommitted"
      /\ NothingIsMissed
  BY NamesDiffer DEF IInv, TypeOK, HelperServesOne, Jobs
<1>2. status[r] # "queued"
  <2>1. ASSUME NEW q \in Requests, status[r] = "queued",
               TaskBegins(q) \/ TaskIsBlocked(q) \/ TaskCompletes(q) \/ Retry(q)
                 \/ TaskIsAnswered(q)
        PROVE  status'[r] \notin Done
    <3>1. CASE q = r
      BY <1>1, <2>1, <3>1 DEF TaskBegins, TaskIsBlocked, TaskCompletes, Retry, TaskIsAnswered
    <3>2. CASE q # r
      <4>1. status'[r] = status[r]
        BY <1>1, <2>1, <3>2 DEF TaskBegins, TaskIsBlocked, TaskCompletes, Retry, Enforce,
          TaskIsAnswered
      <4>2. QED BY <2>1, <4>1
    <3>3. QED BY <3>1, <3>2
  <2>2. CASE UNCHANGED status
    BY <2>2
  <2>3. \/ UNCHANGED status
        \/ \E q \in Requests : TaskBegins(q) \/ TaskIsBlocked(q) \/ TaskCompletes(q)
             \/ Retry(q) \/ TaskIsAnswered(q)
    BY DEF Next, Controller, vars, UserEdits, UserStages, UserCommits, SprintBegins, RoleWrites,
      RoleMerges, Inspected, Resolved, Added, Committed, CloseoutIsAnswered, CommandFails,
      AnswerIsLost, Crash, CloseoutBegins
  <2>4. QED BY <2>1, <2>2, <2>3
<1>3. baseline'[r] = baseline[r]
  BY <1>1, <1>2, BaselineStands
<1>4. CASE status[r] \in Done
  <2>1. MadeBy(r, f) => worktree[f].head = worktree[f].work
    BY <1>1, <1>3, <1>4 DEF DoneIsInHistory
  <2>2. QED BY <1>4, <2>1, WorkIsOld
<1>5. ASSUME TaskCompletes(r) \/ Retry(r) PROVE worktree'[f].head = worktree'[f].work
  <2>1. UNCHANGED worktree
    BY <1>5 DEF TaskCompletes, Retry
  <2>2. Owned(r) = {}
    BY <1>1, <1>5 DEF TaskCompletes, Retry, Enforce
  <2>3. QED BY <1>3, <2>1, <2>2, UnownedIsCommitted
<1>6. ASSUME TaskIsAnswered(r) PROVE worktree'[f].head = worktree'[f].work
  <2>1. UNCHANGED <<worktree, authors>> /\ git.job = r /\ git.step = "answer"
    BY <1>6 DEF TaskIsAnswered
  <2>2. git.outcome # "failed"
    BY <1>1, <1>6 DEF TaskIsAnswered
  <2>3. MadeByTask(f)
    BY <2>1 DEF MadeBy, MadeByTask
  <2>4. QED BY <1>1, <1>3, <2>1, <2>2, <2>3 DEF NothingIsMissed
<1>7. CASE status[r] \notin Done
  <2>1. TaskCompletes(r) \/ Retry(r) \/ TaskIsAnswered(r)
    BY <1>1, <1>7 DEF Next, Controller, vars, UserEdits, UserStages, UserCommits, SprintBegins,
      RoleWrites, RoleMerges, TaskBegins, TaskIsBlocked, TaskCompletes, Retry, Enforce, Inspected,
      Resolved, Added, Committed, TaskIsAnswered, CloseoutIsAnswered, CommandFails, AnswerIsLost,
      Crash, CloseoutBegins
  <2>2. QED BY <1>5, <1>6, <2>1
<1>8. QED BY <1>4, <1>7

\* A closeout that ends well has looked for what the sprint owns, and found nothing.
LEMMA ClosedStaysClean ==
    ASSUME IInv, [Next]_vars
    PROVE  ClosedLeavesNothing'
<1> DEFINE Clean == {"verified", "no_new_commits", "warning_missing_sprint_tag"}
<1> SUFFICES ASSUME closeout' \in Clean, NEW r \in Requests, NEW f \in Files,
                    f \notin baseline'[Sprint].dirty, MadeBy(r, f)'
             PROVE  worktree'[f].head = worktree'[f].work
  BY DEF ClosedLeavesNothing
<1>1. /\ ClosedLeavesNothing /\ Sprint \in Jobs /\ Sprint \notin Requests
      /\ git.job = Sprint => closeout = "requested"
  BY NamesDiffer DEF IInv, HelperServesOne, Jobs
<1>2. CASE closeout \in Clean
  <2>1. status[r] # "running" /\ baseline'[Sprint] = baseline[Sprint]
    BY <1>1, <1>2, NoneRuns, BaselineStands
  <2>2. MadeBy(r, f) => worktree[f].head = worktree[f].work
    BY <1>1, <1>2, <2>1 DEF ClosedLeavesNothing
  <2>3. QED BY <2>1, <2>2, WorkIsOld
<1>3. CASE closeout \notin Clean
  <2>1. CloseoutBegins \/ CloseoutIsAnswered
    BY <1>3 DEF Next, Controller, vars, UserEdits, UserStages, UserCommits, SprintBegins,
      RoleWrites, RoleMerges, TaskBegins, TaskIsBlocked, TaskCompletes, Retry, Inspected,
      Resolved, Added, Committed, TaskIsAnswered, CommandFails, AnswerIsLost, Crash
  <2>2. closeout' = Inspection /\ UNCHANGED <<worktree, baseline>>
    BY <2>1 DEF CloseoutBegins, CloseoutIsAnswered
  <2>3. Owned(Sprint) # {} => Inspection = "pending_changes"
    BY DEF Inspection
  <2>4. Owned(Sprint) = {}
    BY <2>2, <2>3
  <2>5. QED BY <2>2, <2>4, UnownedIsCommitted
<1>4. QED BY <1>2, <1>3

-----------------------------------------------------------------------------
\* The invariant holds at first, and no step ends it.
LEMMA InvariantHolds == Spec => []IInv
<1>1. Init => IInv
  <2> SUFFICES ASSUME Init PROVE IInv
    OBVIOUS
  <2>1. TypeOK
    <3>1. /\ worktree \in
                [Files -> [work : 0..MaxEvents, index : 0..MaxEvents, head : 0..MaxEvents]]
          /\ unmerged \subseteq Files /\ log \subseteq {"sprint", "other"} /\ faults \in 0..MaxEvents
      <4>1. 0 \in 0..MaxEvents
        BY VersionControlAssumption
      <4>2. QED BY <4>1 DEF Init
    <3>2. authors \in Seq(Requests \cup {User}) /\ Len(authors) <= MaxEvents
      <4>1. authors = << >> /\ Len(<< >>) = 0
        BY EmptySeq DEF Init
      <4>2. QED BY <4>1, EmptySeq, VersionControlAssumption
    <3>3. baseline \in [Jobs -> [dirty : SUBSET Files, captured : BOOLEAN]]
      BY DEF Init, Uncaptured
    <3>4. status \in [Requests -> RequestStatuses] /\ closeout \in CloseoutStatuses
      BY DEF Init, RequestStatuses, CloseoutStatuses
    <3>5. git \in [job : Jobs \cup {"none"}, step : Steps, paths : SUBSET Files,
                   outcome : Outcomes]
      BY DEF Init, NoGit, Steps, Outcomes
    <3>6. QED BY <3>1, <3>2, <3>3, <3>4, <3>5 DEF TypeOK
  <2>2. ContentsAreOrdered
    <3>1. authors \in Seq(Requests \cup {User}) /\ authors = << >>
      BY <2>1 DEF Init, TypeOK
    <3>2. \A f \in Files : worktree[f].work = 0 /\ worktree[f].index = 0 /\ worktree[f].head = 0
      BY DEF Init
    <3>3. Len(authors) = 0
      BY <3>1, EmptySeq, Zenon
    <3>4. \A n \in {0} : n <= n
      OBVIOUS
    <3>5. QED BY <3>2, <3>3, <3>4, Zenon DEF ContentsAreOrdered
  <2>3. OneIsUnsettled /\ BaselineIsFirst /\ DoneIsInHistory /\ ClosedLeavesNothing
    BY DEF Init, OneIsUnsettled, Unsettled, BaselineIsFirst, DoneIsInHistory, ClosedLeavesNothing
  <2>4. git = NoGit /\ git.outcome = ""
    BY DEF Init, NoGit
  <2>5. HelperServesOne
    BY <2>4, IdleServesNone, NamesDiffer DEF HelperServesOne
  <2>6. NothingIsMissed /\ PathsAreOwned
    BY <2>4, IdleServesNone DEF NothingIsMissed, PathsAreOwned
  <2>7. QED BY <2>1, <2>2, <2>3, <2>5, <2>6 DEF IInv
<1>2. IInv /\ [Next]_vars => IInv'
  <2> SUFFICES ASSUME IInv, [Next]_vars PROVE IInv'
    OBVIOUS
  <2>1. TypeOK'
    BY OrderKept, RecordsTyped, FaultsTyped, HelperTyped DEF TypeOK
  <2>2. QED BY <2>1, OrderKept, OneStaysUnsettled, HelperKeepsServing, BaselineStaysFirst,
         NothingBecomesMissed, PathsStayOwned, DoneStaysInHistory, ClosedStaysClean DEF IInv
<1>3. QED BY <1>1, <1>2, PTL DEF Spec

\* Whatever the user does in the worktree, and whatever commands fail: a task that
\* is reported done has what it wrote in the history, and a closeout that finds
\* nothing wrong left no change of any task behind.
THEOREM NothingIsEverLeft == Spec => []NothingIsLeft
<1>1. IInv => NothingIsLeft
  BY DEF IInv, NothingIsLeft
<1>2. QED BY <1>1, InvariantHolds, PTL

\* What lay dirty when a job's baseline was taken is neither staged by the helper
\* nor committed by it unless it was staged before.
THEOREM CommitsAreNarrow == Spec => CommitIsNarrow
<1>1. ASSUME IInv, [Next]_vars
      PROVE  [Added \/ Committed =>
                \A f \in baseline[git.job].dirty :
                    /\ worktree'[f].index = worktree[f].index
                    /\ worktree'[f].head \in {worktree[f].head, worktree[f].index}]_vars
  <2> SUFFICES ASSUME Added \/ Committed, NEW f \in baseline[git.job].dirty
               PROVE  /\ worktree'[f].index = worktree[f].index
                      /\ worktree'[f].head \in {worktree[f].head, worktree[f].index}
    OBVIOUS
  <2>1. TypeOK /\ PathsAreOwned /\ HelperServesOne
    BY <1>1 DEF IInv
  <2>2. f \in Files
    BY <2>1 DEF Added, Committed, TypeOK, HelperServesOne
  <2>3. worktree[f] \in [work : 0..MaxEvents, index : 0..MaxEvents, head : 0..MaxEvents]
    BY <2>1, <2>2 DEF TypeOK
  <2>4. CASE Added
    <3>1. f \notin git.paths
      BY <2>1, <2>4 DEF Added, PathsAreOwned
    <3>2. worktree'[f] = worktree[f]
      BY <2>1, <2>2, <2>4, <3>1, ContentsMove
    <3>3. QED BY <3>2
  <2>5. CASE Committed
    <3>1. \/ worktree'[f] = [worktree[f] EXCEPT !.head = worktree[f].index]
          \/ worktree'[f] = worktree[f]
      BY <2>1, <2>2, <2>5, ContentsMove
    <3>2. QED BY <2>3, <3>1
  <2>6. QED BY <2>4, <2>5
<1>2. QED BY <1>1, InvariantHolds, PTL DEF Spec, CommitIsNarrow

-----------------------------------------------------------------------------
(* An uncommitted task is settled *)

\* Edits and faults together keep to the bound, and the helper stages and commits only
\* when no conflict is left, which git refuses.
EventsAreBounded == Len(authors) + faults <= MaxEvents
ConflictsAreGone == git.step \in {"add", "commit"} => unmerged = {}

EventsLeft == MaxEvents - (Len(authors) + faults)
Unstaged == {f \in Files : worktree[f].work # worktree[f].index}
Staged == {f \in Files : worktree[f].index # worktree[f].head}

\* How far the helper is from an answer that settles the task.  It has to begin anew
\* when the user commits before it what it was about to.
HelperLeft ==
    CASE git.step = "add"     -> IF \E f \in git.paths : Modified(f) THEN 3 ELSE 9
      [] git.step = "commit"  -> IF Committable THEN 2 ELSE 8
      [] git.step = "answer"  -> IF git.outcome = "failed" THEN 7 ELSE 1
      [] git.step = "inspect" -> 5
      [] git.step = "resolve" -> 4
      [] OTHER                -> 6

\* There is less left: of what may happen, else of what is to be staged, else of what is
\* to be committed, else of what the helper has to do.
Nearer ==
    \/ EventsLeft' < EventsLeft
    \/ /\ EventsLeft' = EventsLeft
       /\ \/ Unstaged' \subseteq Unstaged /\ Unstaged' # Unstaged
          \/ Unstaged' = Unstaged /\ Staged' \subseteq Staged /\ Staged' # Staged
          \/ Unstaged' = Unstaged /\ Staged' = Staged /\ HelperLeft' < HelperLeft

Settles(r) ==
    status[r] = "uncommitted" =>
        \/ status'[r] \in {"committed", "completed"}
        \/ status'[r] = status[r] /\ Nearer

\* Edits and faults use up what may happen; nothing else changes it.
LEMMA EventsShrink ==
    ASSUME TypeOK, ContentsAreOrdered, EventsAreBounded,
           \/ Fault /\ UNCHANGED authors
           \/ UNCHANGED faults /\ \E who \in Requests \cup {User}, f \in Files : Edit(who, f)
    PROVE  EventsAreBounded' /\ EventsLeft' < EventsLeft
<1>1. Len(authors) \in Nat /\ faults \in Nat /\ MaxEvents \in Nat
  BY VersionControlAssumption DEF TypeOK
<1>2. CASE Fault /\ UNCHANGED authors
  BY <1>1, <1>2 DEF Fault, EventsAreBounded, EventsLeft
<1>3. ASSUME UNCHANGED faults, NEW who \in Requests \cup {User}, NEW f \in Files, Edit(who, f)
      PROVE  EventsAreBounded' /\ EventsLeft' < EventsLeft
  <2>1. Len(authors') = Len(authors) + 1 /\ Len(authors) + faults < MaxEvents
    BY <1>3, EditMakes DEF Edit
  <2>2. QED BY <1>1, <1>3, <2>1 DEF EventsAreBounded, EventsLeft
<1>4. QED BY <1>2, <1>3

\* The steps that make no edit and are no fault.
Eventless ==
    \/ \E f \in Files : UserStages(f)
    \/ UserCommits \/ SprintBegins
    \/ \E q \in Requests : TaskBegins(q) \/ TaskIsBlocked(q) \/ TaskCompletes(q) \/ Retry(q)
    \/ Controller
    \/ CloseoutBegins /\ UNCHANGED faults

LEMMA StepIsEvent ==
    ASSUME TypeOK, ContentsAreOrdered, EventsAreBounded, Next
    PROVE  /\ EventsAreBounded'
           /\ \/ EventsLeft' < EventsLeft /\ (UNCHANGED status \/ CloseoutBegins)
              \/ EventsLeft' = EventsLeft /\ Eventless
<1>1. CASE \/ \E f \in Files : UserEdits(f)
           \/ \E q \in Requests, f \in Files : RoleWrites(q, f) \/ RoleMerges(q, f)
  <2>1. UNCHANGED <<status, faults>>
    BY <1>1 DEF UserEdits, RoleWrites, RoleMerges
  <2>2. \E who \in Requests \cup {User}, f \in Files : Edit(who, f)
    BY <1>1 DEF UserEdits, RoleWrites, RoleMerges
  <2>3. QED BY <2>1, <2>2, EventsShrink
<1>2. CASE CommandFails \/ AnswerIsLost \/ Crash
  <2>1. UNCHANGED <<status, authors>> /\ Fault
    BY <1>2 DEF CommandFails, AnswerIsLost, Crash
  <2>2. QED BY <2>1, EventsShrink
<1>3. CASE CloseoutBegins /\ Fault
  BY <1>3, EventsShrink DEF CloseoutBegins
<1>4. CASE Eventless
  <2>1. UNCHANGED <<authors, faults>>
    <3>1. CASE (\E f \in Files : UserStages(f)) \/ UserCommits \/ SprintBegins
      BY <3>1 DEF UserStages, UserCommits, SprintBegins
    <3>2. CASE \E q \in Requests : TaskBegins(q) \/ TaskIsBlocked(q) \/ TaskCompletes(q) \/ Retry(q)
      BY <3>2 DEF TaskBegins, TaskIsBlocked, TaskCompletes, Retry
    <3>3. CASE Controller
      BY <3>3 DEF Controller, Inspected, Resolved, Added, Committed, TaskIsAnswered,
         CloseoutIsAnswered
    <3>4. CASE CloseoutBegins /\ UNCHANGED faults
      BY <3>4 DEF CloseoutBegins
    <3>5. QED BY <1>4, <3>1, <3>2, <3>3, <3>4 DEF Eventless
  <2>2. EventsAreBounded' /\ EventsLeft' = EventsLeft
    BY <2>1 DEF EventsAreBounded, EventsLeft
  <2>3. QED BY <1>4, <2>2
<1>5. CloseoutBegins => Fault \/ UNCHANGED faults
  BY DEF CloseoutBegins
<1>6. QED BY <1>1, <1>2, <1>3, <1>4, <1>5 DEF Next, Eventless

\* A merge adds conflicts only while its task runs, when the helper serves nobody.
LEMMA ConflictsStayGone ==
    ASSUME IInv, ConflictsAreGone, [Next]_vars
    PROVE  ConflictsAreGone'
<1>1. HelperServesOne /\ OneIsUnsettled
  BY DEF IInv
<1>2. CASE UNCHANGED git /\ unmerged' \subseteq unmerged
  BY <1>2 DEF ConflictsAreGone
<1>3. CASE git'.step \notin {"add", "commit"}
  BY <1>3 DEF ConflictsAreGone
<1>4. ASSUME NEW q \in Requests, NEW f \in Files, RoleMerges(q, f) PROVE ConflictsAreGone'
  <2>1. status[q] = "running" /\ UNCHANGED git
    BY <1>4 DEF RoleMerges
  <2>2. git.job \notin Jobs
    BY <1>1, <2>1 DEF HelperServesOne, OneIsUnsettled, Unsettled, Jobs
  <2>3. git.step = "idle"
    BY <1>1, <2>2 DEF HelperServesOne
  <2>4. QED BY <2>1, <2>3 DEF ConflictsAreGone
<1>5. CASE (\E f \in Files : UserEdits(f) \/ UserStages(f)) \/ UserCommits \/ SprintBegins
  BY <1>2, <1>5 DEF UserEdits, UserStages, UserCommits, SprintBegins
<1>6. CASE \/ \E q \in Requests, f \in Files : RoleWrites(q, f)
           \/ \E q \in Requests : TaskBegins(q) \/ TaskIsBlocked(q)
  BY <1>2, <1>6 DEF RoleWrites, TaskBegins, TaskIsBlocked
<1>7. git \in [job : Jobs \cup {"none"}, step : Steps, paths : SUBSET Files, outcome : Outcomes]
  BY DEF IInv, TypeOK
<1>8. \A o \in Outcomes : Answer(o) => git'.step = "answer"
  BY <1>7 DEF Answer
<1>9. \A job \in Jobs : Asked(job) => git'.step = "inspect"
  BY DEF Asked, NoGit
<1>10. NoGit.step = "idle"
  BY DEF NoGit
<1>11. CASE \E q \in Requests : TaskCompletes(q) \/ Retry(q) \/ TaskIsAnswered(q)
  BY <1>3, <1>9, <1>10, <1>11 DEF TaskCompletes, Retry, TaskIsAnswered, Enforce, Jobs
<1>12. CASE CommandFails \/ AnswerIsLost \/ Committed
  BY <1>3, <1>8, <1>12 DEF CommandFails, AnswerIsLost, Committed, Outcomes
<1>13. CASE CloseoutIsAnswered \/ Crash
  BY <1>3, <1>10, <1>13 DEF CloseoutIsAnswered, Crash
<1>14. CASE CloseoutBegins
  BY <1>2, <1>3, <1>9, <1>14 DEF CloseoutBegins, Jobs
<1>15. CASE Inspected
  <2>1. UNCHANGED unmerged
    BY <1>15 DEF Inspected
  <2>2. git'.step \in {"answer", "resolve"} \/ unmerged = {}
    BY <1>7, <1>8, <1>15 DEF Inspected, Outcomes
  <2>3. QED BY <2>1, <2>2 DEF ConflictsAreGone
<1>16. CASE Resolved
  BY <1>16 DEF Resolved, ConflictsAreGone
<1>17. CASE Added
  BY <1>17 DEF Added, ConflictsAreGone
<1>18. CASE UNCHANGED vars
  BY <1>2, <1>18 DEF vars
<1>19. QED
  BY <1>4, <1>5, <1>6, <1>11, <1>12, <1>13, <1>14, <1>15, <1>16, <1>17, <1>18
     DEF Next, Controller

\* What the user stages or commits, whether or not the helper was about to.
LEMMA UserIsNearer ==
    ASSUME TypeOK, EventsLeft' = EventsLeft,
           (\E f \in Files : UserStages(f)) \/ UserCommits \/ (Committed /\ Committable)
    PROVE  UNCHANGED status /\ Nearer
<1>1. \A g \in Files :
        worktree[g] \in [work : 0..MaxEvents, index : 0..MaxEvents, head : 0..MaxEvents]
  BY DEF TypeOK
<1>2. ASSUME NEW f \in Files, UserStages(f) PROVE UNCHANGED status /\ Nearer
  <2>1. f \in Unstaged /\ UNCHANGED status
    BY <1>2 DEF UserStages, Unstaged
  <2>2. worktree'[f].work = worktree'[f].index /\ \A g \in Files \ {f} : worktree'[g] = worktree[g]
    <3>1. /\ worktree'[f] = [worktree[f] EXCEPT !.index = worktree[f].work]
          /\ \A g \in Files \ {f} : worktree'[g] = worktree[g]
      BY <1>2, ContentsMove
    <3>2. QED BY <1>1, <3>1
  <2>3. Unstaged' = Unstaged \ {f}
    BY <2>2 DEF Unstaged
  <2>4. QED BY <2>1, <2>3 DEF Nearer
<1>3. CASE UserCommits \/ (Committed /\ Committable)
  <2>1. Committable /\ UNCHANGED status
    BY <1>3 DEF UserCommits, Committed
  <2>2. \A g \in Files : worktree'[g] = [worktree[g] EXCEPT !.head = worktree[g].index]
    BY <1>3, ContentsMove
  <2>3. \A g \in Files : /\ worktree'[g].work = worktree[g].work
                         /\ worktree'[g].index = worktree[g].index
                         /\ worktree'[g].head = worktree[g].index
    BY <1>1, <2>2
  <2>4. Unstaged' = Unstaged /\ Staged' = {}
    BY <2>3 DEF Unstaged, Staged
  <2>5. Staged # {}
    BY <2>1 DEF Committable, Staged
  <2>6. QED BY <2>1, <2>4, <2>5 DEF Nearer
<1>4. QED BY <1>2, <1>3

\* The commands of the helper.
LEMMA HelperIsNearer ==
    ASSUME TypeOK, HelperServesOne, ContentsAreOrdered, ConflictsAreGone,
           EventsLeft' = EventsLeft, Inspected \/ Resolved \/ Added \/ Committed
    PROVE  UNCHANGED status /\ Nearer
<1>1. /\ git \in [job : Jobs \cup {"none"}, step : Steps, paths : SUBSET Files, outcome : Outcomes]
      /\ \A g \in Files :
           /\ worktree[g] \in [work : 0..MaxEvents, index : 0..MaxEvents, head : 0..MaxEvents]
           /\ worktree[g].head \in Nat /\ worktree[g].index \in Nat /\ worktree[g].work \in Nat
  BY DEF TypeOK
<1>2. UNCHANGED status
  BY DEF Inspected, Resolved, Added, Committed
<1>3. \A o \in Outcomes : Answer(o) => git'.step = "answer" /\ git'.outcome = o
  BY <1>1 DEF Answer
<1>4. ASSUME UNCHANGED worktree, HelperLeft' < HelperLeft PROVE Nearer
  BY <1>4 DEF Nearer, Unstaged, Staged
<1>5. CASE Inspected
  <2>1. git.step = "inspect" /\ UNCHANGED <<worktree, unmerged>> /\ HelperLeft = 5
    BY <1>5 DEF Inspected, HelperLeft
  <2>2. \/ git'.step = "answer" /\ git'.outcome = "no_changes"
        \/ git'.step = "add" /\ git'.paths = Owned(git.job) /\ unmerged = {} /\ Owned(git.job) # {}
        \/ git'.step = "resolve"
    BY <1>1, <1>3, <1>5 DEF Inspected, Outcomes
  <2>3. CASE git'.step = "add" /\ git'.paths = Owned(git.job) /\ unmerged = {} /\ Owned(git.job) # {}
    <3>1. PICK f \in git'.paths : Modified(f)
      BY <2>3 DEF Owned, Dirty
    <3>2. \E g \in git'.paths : Modified(g)'
      BY <2>1, <3>1 DEF Modified
    <3>3. HelperLeft' = 3
      BY <2>3, <3>2 DEF HelperLeft
    <3>4. QED BY <1>2, <1>4, <2>1, <3>3
  <2>4. CASE \/ git'.step = "answer" /\ git'.outcome = "no_changes"
             \/ git'.step = "resolve"
    <3>1. HelperLeft' \in {1, 4}
      BY <2>4 DEF HelperLeft
    <3>2. QED BY <1>2, <1>4, <2>1, <3>1
  <2>5. QED BY <2>2, <2>3, <2>4
<1>6. CASE Resolved
  <2>1. git.step = "resolve" /\ HelperLeft = 4
    BY <1>6 DEF Resolved, HelperLeft
  <2>2. \A g \in Files :
          \/ worktree'[g] = worktree[g]
          \/ worktree'[g].work = worktree'[g].index /\ worktree'[g].index = worktree'[g].head
    <3>1. \A g \in Files :
            worktree'[g] = IF g \in unmerged
                           THEN [work |-> worktree[g].head, index |-> worktree[g].head,
                                 head |-> worktree[g].head]
                           ELSE worktree[g]
      BY <1>6, ContentsMove
    <3>2. ASSUME NEW g \in Files, g \in unmerged
          PROVE  worktree'[g].work = worktree'[g].index /\ worktree'[g].index = worktree'[g].head
      <4>1. PICK head : head = worktree[g].head
        OBVIOUS
      <4>2. worktree'[g] = [work |-> head, index |-> head, head |-> head]
        BY <3>1, <3>2, <4>1
      <4>3. QED BY <4>2
    <3>3. ASSUME NEW g \in Files, g \notin unmerged PROVE worktree'[g] = worktree[g]
      BY <3>1, <3>3
    <3>4. QED BY <3>2, <3>3
  <2>3. Unstaged' \subseteq Unstaged /\ Staged' \subseteq Staged
    BY <2>2 DEF Unstaged, Staged
  <2>4. PICK left : left = {f \in Files \ unmerged : Modified(f)} \ baseline[git.job].dirty
    OBVIOUS
  <2>5. \/ git'.step = "answer" /\ git'.outcome = "no_changes"
        \/ git'.step = "add" /\ git'.paths = left /\ left # {}
    BY <1>1, <1>3, <1>6, <2>4 DEF Resolved, Outcomes
  <2>6. HelperLeft' < HelperLeft
    <3>1. CASE git'.step = "answer" /\ git'.outcome = "no_changes"
      BY <2>1, <3>1 DEF HelperLeft
    <3>2. CASE git'.step = "add" /\ git'.paths = left /\ left # {}
      <4>1. PICK f \in left : TRUE
        BY <3>2
      <4>2. f \in Files \ unmerged /\ Modified(f)
        BY <2>4, <4>1
      <4>3. worktree'[f] = worktree[f]
        BY <1>6, <4>2, ContentsMove
      <4>4. Modified(f)'
        BY <4>2, <4>3 DEF Modified
      <4>5. HelperLeft' = 3
        BY <3>2, <4>1, <4>4 DEF HelperLeft
      <4>6. QED BY <2>1, <4>5
    <3>3. QED BY <2>5, <3>1, <3>2
  <2>7. QED BY <1>2, <2>3, <2>6 DEF Nearer
<1>7. CASE Added
  <2>1. git.step = "add" /\ git'.step = "commit" /\ unmerged = {} /\ unmerged' = {}
    BY <1>1, <1>7 DEF Added, ConflictsAreGone
  <2>2. \A g \in Files :
          worktree'[g] = IF g \in git.paths
                         THEN [worktree[g] EXCEPT !.index = worktree[g].work] ELSE worktree[g]
    BY <1>7, ContentsMove
  <2>3. Unstaged' = Unstaged \ git.paths
    <3>1. ASSUME NEW g \in Files
          PROVE  worktree'[g].work # worktree'[g].index
                   <=> worktree[g].work # worktree[g].index /\ g \notin git.paths
      <4>1. CASE g \in git.paths
        <5>1. worktree'[g] = [worktree[g] EXCEPT !.index = worktree[g].work]
          BY <2>2, <4>1
        <5>2. worktree'[g].work = worktree'[g].index
          BY <1>1, <5>1
        <5>3. QED BY <4>1, <5>2
      <4>2. CASE g \notin git.paths
        BY <2>2, <4>2
      <4>3. QED BY <4>1, <4>2
    <3>2. QED BY <3>1 DEF Unstaged
  <2>4. CASE Unstaged \cap git.paths # {}
    BY <1>2, <2>3, <2>4 DEF Nearer
  <2>5. CASE Unstaged \cap git.paths = {}
    <3>1. \A g \in Files : worktree'[g] = worktree[g]
      <4>1. ASSUME NEW g \in Files, g \in git.paths PROVE worktree'[g] = worktree[g]
        <5>1. worktree[g].index = worktree[g].work
          BY <2>5, <4>1 DEF Unstaged
        <5>2. [worktree[g] EXCEPT !.index = worktree[g].work] = worktree[g]
          BY <1>1, <5>1
        <5>3. QED BY <2>2, <4>1, <5>2
      <4>2. QED BY <2>2, <4>1
    <3>2. Unstaged' = Unstaged /\ Staged' = Staged
      BY <2>3, <2>5, <3>1 DEF Staged
    <3>3. HelperLeft' < HelperLeft
      <4>1. HelperLeft' \in {2, 8} /\ (Committable' => HelperLeft' = 2)
        BY <2>1 DEF HelperLeft
      <4>2. CASE \E f \in git.paths : Modified(f)
        <5>1. PICK f \in git.paths : Modified(f)
          BY <4>2
        <5>2. f \in Files /\ worktree[f].index # worktree[f].head
          BY <1>1, <2>5, <5>1 DEF Modified, Unstaged
        <5>3. Committable'
          BY <2>1, <3>1, <5>2 DEF Committable
        <5>4. HelperLeft = 3 /\ HelperLeft' = 2
          BY <2>1, <4>1, <4>2, <5>3 DEF HelperLeft
        <5>5. QED BY <5>4
      <4>3. CASE ~ \E f \in git.paths : Modified(f)
        <5>1. HelperLeft = 9
          BY <2>1, <4>3 DEF HelperLeft
        <5>2. QED BY <4>1, <5>1
      <4>4. QED BY <4>2, <4>3
    <3>4. QED BY <1>2, <3>2, <3>3 DEF Nearer
  <2>6. QED BY <2>4, <2>5
<1>8. CASE Committed /\ Committable
  BY <1>8, UserIsNearer
<1>9. CASE Committed /\ ~Committable
  <2>1. git.step = "commit" /\ UNCHANGED worktree /\ Answer("failed")
    BY <1>9 DEF Committed
  <2>2. HelperLeft = 8
    BY <1>9, <2>1 DEF HelperLeft
  <2>3. git'.step = "answer" /\ git'.outcome = "failed"
    BY <1>3, <2>1 DEF Outcomes
  <2>4. HelperLeft' = 7
    BY <2>3 DEF HelperLeft
  <2>5. QED BY <1>2, <1>4, <2>1, <2>2, <2>4
<1>10. QED BY <1>5, <1>6, <1>7, <1>8, <1>9

\* The answer settles the task, or the next run of the sprint asks again.
LEMMA AskingIsNearer ==
    ASSUME IInv, EventsLeft' = EventsLeft, NEW r \in Requests, status[r] = "uncommitted",
           \E q \in Requests : Retry(q) \/ TaskIsAnswered(q)
    PROVE  Settles(r)
<1>1. /\ status \in [Requests -> RequestStatuses] /\ HelperServesOne /\ OneIsUnsettled
      /\ git.outcome \in Outcomes
  BY DEF IInv, TypeOK
<1>2. PICK q \in Requests : Retry(q) \/ TaskIsAnswered(q)
  OBVIOUS
<1>3. status[q] = "uncommitted"
  BY <1>1, <1>2 DEF Retry, TaskIsAnswered, HelperServesOne
<1>4. q = r
  BY <1>1, <1>3 DEF OneIsUnsettled, Unsettled
<1>5. UNCHANGED worktree
  BY <1>2 DEF Retry, TaskIsAnswered
<1>6. ASSUME HelperLeft' < HelperLeft, status'[r] = "uncommitted" PROVE Settles(r)
  <2>1. Unstaged' = Unstaged /\ Staged' = Staged
    BY <1>5 DEF Unstaged, Staged
  <2>2. Nearer
    BY <1>6, <2>1 DEF Nearer
  <2>3. QED BY <1>6, <2>2 DEF Settles
<1>7. ASSUME status'[r] \in {"committed", "completed"} PROVE Settles(r)
  BY <1>7 DEF Settles
<1>8. CASE Retry(q)
  <2>1. git.step = "idle" /\ HelperLeft = 6
    BY <1>8 DEF Retry, HelperLeft
  <2>2. \/ status'[r] = "completed"
        \/ status'[r] = "uncommitted" /\ Asked(r)
    BY <1>1, <1>4, <1>8 DEF Retry, Enforce
  <2>3. Asked(r) => HelperLeft' = 5
    BY DEF Asked, NoGit, HelperLeft
  <2>4. QED BY <1>6, <1>7, <2>1, <2>2, <2>3
<1>9. CASE TaskIsAnswered(q)
  <2>1. git.step = "answer" /\ git' = NoGit /\ git.outcome \in {"committed", "no_changes", "failed"}
    BY <1>1, <1>9 DEF TaskIsAnswered, HelperServesOne, Outcomes
  <2>2. status' = [status EXCEPT ![r] =
              CASE git.outcome = "committed" -> "committed"
                [] git.outcome = "no_changes" -> "completed"
                [] git.outcome = "failed" -> "uncommitted"]
    BY <1>4, <1>9 DEF TaskIsAnswered
  <2>3. CASE git.outcome \in {"committed", "no_changes"}
    <3>1. status'[r] \in {"committed", "completed"}
      BY <1>1, <2>2, <2>3
    <3>2. QED BY <1>7, <3>1
  <2>4. CASE git.outcome = "failed"
    <3>1. status'[r] = "uncommitted"
      BY <1>1, <2>2, <2>4
    <3>2. HelperLeft = 7 /\ HelperLeft' = 6
      BY <2>1, <2>4 DEF HelperLeft, NoGit
    <3>3. QED BY <1>6, <3>1, <3>2
  <2>5. QED BY <2>1, <2>3, <2>4
<1>10. QED BY <1>2, <1>8, <1>9

LEMMA StepSettles ==
    ASSUME IInv, EventsAreBounded, ConflictsAreGone, Next, NEW r \in Requests
    PROVE  Settles(r)
<1>1. SUFFICES ASSUME status[r] = "uncommitted" PROVE Settles(r)
  BY DEF Settles
<1>2. TypeOK /\ ContentsAreOrdered /\ HelperServesOne /\ OneIsUnsettled /\ BaselineIsFirst
  BY DEF IInv
<1>3. ~CloseoutBegins /\ ~CloseoutIsAnswered /\ ~SprintBegins
  BY <1>1, <1>2 DEF CloseoutBegins, CloseoutIsAnswered, SprintBegins, HelperServesOne,
     OneIsUnsettled, BaselineIsFirst, Unsettled
<1>4. \A q \in Requests : ~(TaskBegins(q) \/ TaskIsBlocked(q) \/ TaskCompletes(q))
  BY <1>1, <1>2 DEF TaskBegins, TaskIsBlocked, TaskCompletes, OneIsUnsettled, Unsettled
<1>5. CASE EventsLeft' < EventsLeft /\ (UNCHANGED status \/ CloseoutBegins)
  BY <1>3, <1>5 DEF Settles, Nearer
<1>6. CASE EventsLeft' = EventsLeft /\ Eventless
  <2>1. CASE (\E f \in Files : UserStages(f)) \/ UserCommits
    BY <1>2, <1>6, <2>1, UserIsNearer DEF Settles
  <2>2. CASE Inspected \/ Resolved \/ Added \/ Committed
    BY <1>2, <1>6, <2>2, HelperIsNearer DEF Settles
  <2>3. CASE \E q \in Requests : Retry(q) \/ TaskIsAnswered(q)
    BY <1>1, <1>6, <2>3, AskingIsNearer
  <2>4. QED BY <1>3, <1>4, <1>6, <2>1, <2>2, <2>3 DEF Eventless, Controller
<1>7. QED BY <1>2, <1>5, <1>6, StepIsEvent

\* What UncommittedIsSettled rests on: whatever the user stages and commits meanwhile and
\* whatever fails, no step leaves an uncommitted task as far from being settled as it was,
\* of finitely many files and a bounded number of edits and failures; and the helper never
\* commits over a conflict (lifecycle.py resume_uncommitted_sprint_todo, repository_ops.py
\* commit_sprint_changes).
THEOREM TasksComeToBeSettled ==
    Spec => [](EventsAreBounded /\ ConflictsAreGone) /\ [][\A r \in Requests : Settles(r)]_vars
<1> DEFINE Inv == IInv /\ EventsAreBounded /\ ConflictsAreGone
           A == \A r \in Requests : Settles(r)
<1>1. Init => EventsAreBounded /\ ConflictsAreGone
  <2>1. SUFFICES ASSUME Init PROVE EventsAreBounded /\ ConflictsAreGone
    OBVIOUS
  <2>2. authors = << >> /\ faults = 0 /\ git.step = "idle"
    BY <2>1 DEF Init, NoGit
  <2>3. Len(authors) = 0
    BY <2>2, EmptySeq
  <2>4. QED BY <2>2, <2>3, VersionControlAssumption DEF EventsAreBounded, ConflictsAreGone
<1>2. IInv /\ EventsAreBounded /\ ConflictsAreGone /\ [Next]_vars
        => EventsAreBounded' /\ ConflictsAreGone'
  <2>1. SUFFICES ASSUME IInv, EventsAreBounded, ConflictsAreGone, [Next]_vars
                 PROVE  EventsAreBounded' /\ ConflictsAreGone'
    OBVIOUS
  <2>2. TypeOK /\ ContentsAreOrdered
    BY <2>1 DEF IInv
  <2>3. EventsAreBounded'
    BY <2>1, <2>2, StepIsEvent DEF EventsAreBounded, vars
  <2>4. QED BY <2>1, <2>3, ConflictsStayGone
<1>3. IInv /\ EventsAreBounded /\ ConflictsAreGone /\ [Next]_vars => [A]_vars
  BY StepSettles
<1> HIDE DEF A
<1>4. Spec => [](EventsAreBounded /\ ConflictsAreGone) /\ [][A]_vars
  BY <1>1, <1>2, <1>3, InvariantHolds, PTL DEF Spec
<1>5. QED BY <1>4 DEF A

-----------------------------------------------------------------------------
(***************************************************************************)
(* What follows the closeout: the end of the sprint.  The rest is about    *)
(* SprintClosing, which shares no variable with VersionControl.            *)
(***************************************************************************)

\* The inductive invariant.

Comment == [marker : {Marker[s] : s \in Sections}, section : Sections, end : 1..Len(Docs)]
Issue == [open : BOOLEAN, index : 0..Len(Docs), comments : Seq(Comment)]
Ending == {"drafted", "archived", "saved", "finding", "creating", "commenting",
           "reporting", "clearing"}

\* What the query returned are places of comments the issue has.
PlacesAreKnown ==
    /\ next \in 1..(Len(Docs[ends]) + 1)
    /\ \A k \in DOMAIN seen : seen[k] \in 1..Len(issues[target].comments)

ClosingTypes ==
    /\ ClosingTypeOK
    /\ issues \in Seq(Issue)
    /\ step \in Ending => ends # 0 /\ mem.status \in Endings
    /\ step = "commenting" => PlacesAreKnown

\* The loop's copy is the record, but between an end and its save.
CopyIsCurrent == step \notin {"drafted", "archived", "down"} => mem = file

\* Until then the record still says that the sprint goes on.
EndIsUnsaved ==
    step \in {"running", "drafted", "archived"} =>
        active /\ file.status \in {"running", "unplanned"}

Agreed == history.status = file.status /\ (Never("torn") => history.issue = file.issue)

\* The history is ahead of the record before the save, and never behind.
HistoryIsCurrent ==
    /\ step = "archived" => history = Told(mem)
    /\ step \in Ending \ {"drafted", "archived"} => history = Told(file)
    /\ step = "ended" => Agreed
    /\ step = "down" => Resumes \/ Agreed

GoalIsTold ==
    Never("torn") /\ Never("crash") =>
        /\ step # "down"
        /\ step \in Publishing \cup {"reporting", "clearing", "ended"} => goal = file.status

RecordsInv == CopyIsCurrent /\ EndIsUnsaved /\ HistoryIsCurrent /\ GoalIsTold

-----------------------------------------------------------------------------
\* The second part of the invariant: what is published.

\* No other section ever has the marker of this one.
OwnMarker(s) == \A t \in Sections : Marker[t] = Marker[s] => t = s

\* The comments with its marker, and the newest of them as it should be.
CommentsOf(comments, s) == {i \in 1..Len(comments) : comments[i].marker = Marker[s]}
NewestIsCurrent(comments, s) ==
    \E i \in CommentsOf(comments, s) :
        /\ comments[i].end = ends /\ comments[i].section = s
        /\ \A j \in CommentsOf(comments, s) : j <= i

\* A section gets a second comment only when its first is beyond the page.
Single(comments) ==
    \A s \in Sections : OwnMarker(s) =>
        \A i, j \in CommentsOf(comments, s) : i < j => PageSize < i

\* While it publishes, what the query returned are comments on the page; a
\* section that is to come and was not among them has none there; and those
\* before the next are current.
SeenIsOnPage(comments) ==
    \A k \in DOMAIN seen : seen[k] <= PageSize /\ comments[seen[k]].marker = k
UnseenIsBeyond(comments, n) ==
    \A m \in n..Len(Docs[ends]) :
        OwnMarker(Docs[ends][m]) /\ Marker[Docs[ends][m]] \notin DOMAIN seen =>
            \A i \in CommentsOf(comments, Docs[ends][m]) : PageSize < i
PastIsCurrent(comments, n) ==
    \A m \in 1..Len(Docs[ends]) :
        m < n /\ OwnMarker(Docs[ends][m]) => NewestIsCurrent(comments, Docs[ends][m])
Filed(comments, n) ==
    SeenIsOnPage(comments) /\ UnseenIsBeyond(comments, n) /\ PastIsCurrent(comments, n)

CommentsAreSingle == \A n \in 1..Len(issues) : Single(issues[n].comments)
FilingIsTrue == step = "commenting" => Filed(issues[target].comments, next)

\* An issue is created only when there is none, if the search tells.
IssueIsMissed ==
    /\ Never("lag") => Len(issues) <= 1 /\ (step = "creating" => Len(issues) = 0)
    /\ step = "creating" => next = 1

\* What the report will name was published now, and it was not sent yet.
NamesAreCurrent ==
    step = "reporting" =>
        /\ mem.publish = "published" => mem.issue # 0
        /\ mem.issue # 0 => issues[mem.issue].index = ends
LeftIsCurrent ==
    step = "reporting" /\ mem.publish = "published" =>
        PastIsCurrent(issues[mem.issue].comments, Len(Docs[ends]) + 1)
SentIsPast ==
    \A r \in sent : /\ r.end <= ends
                    /\ step \in Ending \ {"clearing"} => r.end < ends

PublishInv ==
    /\ CommentsAreSingle /\ FilingIsTrue /\ IssueIsMissed
    /\ NamesAreCurrent /\ SentIsPast
    /\ LeftIsCurrent /\ ReportNamesIssue

-----------------------------------------------------------------------------
\* Helpers.

\* A fault is counted, so it was not never.
LEMMA FaultCounts ==
    ASSUME ClosingTypeOK, NEW kind, Mishap(kind)
    PROVE  /\ mishaps' \in [FaultKinds -> Nat]
           /\ \A k : Never(k)' => Never(k)
           /\ ~Never(kind)'
<1>1. /\ mishaps \in [FaultKinds -> Nat] /\ kind \in FaultKinds
      /\ mishaps' = [mishaps EXCEPT ![kind] = @ + 1]
  BY DEF ClosingTypeOK, Mishap
<1>2. mishaps[kind] \in Nat
  BY <1>1
<1>3. /\ mishaps' \in [FaultKinds -> Nat] /\ mishaps'[kind] = mishaps[kind] + 1
      /\ \A k \in FaultKinds : k # kind => mishaps'[k] = mishaps[k]
  BY <1>1, <1>2
<1>4. mishaps'[kind] # 0
  BY <1>2, <1>3
<1>5. QED
  BY <1>1, <1>3, <1>4 DEF Never

\* And does not change what never happened when there is none.
LEMMA UnfaultedNever ==
    ASSUME UNCHANGED mishaps
    PROVE  \A k : Never(k)' => Never(k)
BY DEF Never

\* A sprint that runs has not ended.
LEMMA RunningIsNoEnding ==
    ASSUME ClosingAssumption
    PROVE  "running" \notin Endings /\ Len(Docs) \in Nat
BY LenProperties DEF ClosingAssumption

\* There is a least element in a set of natural numbers.
LEMMA LeastOf ==
    ASSUME NEW S \in SUBSET Nat, S # {}
    PROVE  \E m \in S : \A k \in S : m <= k
<1> DEFINE Less == {p \in Nat \X Nat : p[1] < p[2]}
<1>1. OpToRel(<, Nat) = Less
  BY DEF OpToRel
<1>2. IsWellFoundedOn(Less, Nat)
  BY <1>1, NatLessThanWellFounded
<1>3. PICK m \in S : \A k \in S : ~ (<<k, m>> \in Less)
  <2> HIDE DEF Less
  <2> QED BY <1>2, WFMin
<1>4. ASSUME NEW k \in S PROVE m <= k
  <2>1. ~ (k < m)
    BY <1>3
  <2> QED BY <2>1
<1> QED BY <1>3, <1>4

\* And a greatest in one that has a bound.
LEMMA GreatestOf ==
    ASSUME NEW bound \in Nat, NEW S \in SUBSET (1..bound), S # {}
    PROVE  \E m \in S : \A k \in S : k <= m
<1>1. PICK R : R = {bound - k : k \in S}
  OBVIOUS
<1>2. R \in SUBSET Nat /\ R # {}
  <2>1. ASSUME NEW k \in S PROVE bound - k \in Nat
    OBVIOUS
  <2>2. R # {}
    BY <1>1
  <2>3. QED
    BY <1>1, <2>1, <2>2
<1>3. PICK r \in R : \A k \in R : r <= k
  BY <1>2, LeastOf
<1>4. PICK m \in S : r = bound - m
  BY <1>1, <1>3
<1>5. ASSUME NEW k \in S PROVE k <= m
  <2>1. r <= bound - k
    BY <1>1, <1>3
  <2> QED BY <1>4, <2>1
<1> QED BY <1>5

\* The first issue a search returns is one of those it may return.
LEMMA FirstIsOne ==
    ASSUME NEW from \in SUBSET Nat, 0 \notin from
    PROVE  /\ FirstIssue(from) # 0 => FirstIssue(from) \in from
           /\ FirstIssue(from) = 0 => from = {}
<1>1. CASE from = {}
  BY <1>1 DEF FirstIssue
<1>2. CASE from # {}
  <2>1. \E i \in from : \A j \in from : i <= j
    BY <1>2, LeastOf
  <2>2. (CHOOSE i \in from : \A j \in from : i <= j) \in from
    BY <2>1
  <2>3. QED
    BY <1>2, <2>2 DEF FirstIssue
<1>3. QED
  BY <1>1, <1>2

-----------------------------------------------------------------------------
\* The steps of the loop that do not reach GitHub.

\* What such a step may change, and what types it owes.
Offline ==
    /\ UNCHANGED <<issues, target, next>>
    /\ mishaps' \in [FaultKinds -> Nat] /\ \A k : Never(k)' => Never(k)
    /\ ends' \in 0..Len(Docs)
    /\ mem' \in Record /\ file' \in Record
    /\ history' \in [status : Status, issue : 0..Len(issues)]
    /\ goal' \in Status /\ active' \in BOOLEAN
    /\ \A r \in sent' : r.end \in 1..Len(Docs) /\ r.issue \in 0..Len(issues)

LEMMA OfflineTypes ==
    ASSUME ClosingTypes, Offline, step' # "commenting",
           step' \in Ending \cup {"running", "ended", "down"},
           step' \in Ending => ends' # 0 /\ mem'.status \in Endings
    PROVE  ClosingTypes'
<1>1. Record' = Record
  BY DEF Record, Offline
<1>2. ClosingTypeOK'
  BY <1>1 DEF ClosingTypes, ClosingTypeOK, Offline, Ending, Publishing
<1>3. QED
  BY <1>2 DEF ClosingTypes, Offline

LEMMA ToldTypes ==
    ASSUME NEW record \in Record
    PROVE  /\ Told(record) \in [status : Status, issue : 0..Len(issues)]
           /\ Told(record).status = record.status /\ Told(record).issue = record.issue
BY DEF Record, Told

\* The parts of the types that a step leaves alone.
LEMMA KnownTypes ==
    ASSUME ClosingTypes
    PROVE  /\ mishaps \in [FaultKinds -> Nat] /\ ends \in 0..Len(Docs)
           /\ mem \in Record /\ file \in Record
           /\ history \in [status : Status, issue : 0..Len(issues)]
           /\ goal \in Status /\ active \in BOOLEAN
           /\ \A r \in sent : r.end \in 1..Len(Docs) /\ r.issue \in 0..Len(issues)
           /\ target \in 0..Len(issues)
BY DEF ClosingTypes, ClosingTypeOK

LEMMA KnownSteps ==
    ASSUME ClosingTypes
    PROVE  step \in Ending \cup {"running", "ended", "down"}
BY DEF ClosingTypes, ClosingTypeOK, Ending, Publishing

LEMMA InitRecords ==
    ASSUME ClosingAssumption, ClosingInit
    PROVE  ClosingTypes /\ RecordsInv
<1>1. issues \in Seq(Issue) /\ Len(issues) = 0
  BY EmptySeq DEF ClosingInit
<1>2. mem = [status |-> "running", issue |-> 0, publish |-> ""] /\ file = mem
  BY DEF ClosingInit
<1>3. 0 \in 0..Len(issues) /\ "running" \in Status
  BY <1>1 DEF Status
<1>4. mem \in Record /\ file \in Record
  BY <1>2, <1>3 DEF Record
<1>5. history \in [status : Status, issue : 0..Len(issues)]
  BY <1>4, ToldTypes DEF ClosingInit
<1>6. ClosingTypeOK
  <2>1. \A i \in DOMAIN issues : FALSE
    BY <1>1, LenProperties
  <2>2. /\ step = "running" /\ ends = 0 /\ goal = "running" /\ active = TRUE
        /\ target = 0 /\ next = 1 /\ sent = {} /\ mishaps \in [FaultKinds -> Nat]
    BY DEF ClosingInit
  <2>3. ends \in 0..Len(Docs) /\ target \in 0..Len(issues) /\ next \in Nat
    BY <1>3, <2>2, RunningIsNoEnding
  <2>4. active \in BOOLEAN
    BY <2>2
  <2>5. QED
    BY <1>3, <1>4, <1>5, <2>1, <2>2, <2>3, <2>4 DEF ClosingTypeOK
<1>7. ClosingTypes
  BY <1>1, <1>6 DEF ClosingTypes, ClosingInit, Ending
<1>8. RecordsInv
  BY DEF ClosingInit, RecordsInv, CopyIsCurrent, EndIsUnsaved, HistoryIsCurrent, GoalIsTold, Ending,
         Publishing
<1>9. QED
  BY <1>7, <1>8

LEMMA EndRecords ==
    ASSUME ClosingAssumption, ClosingTypes, RecordsInv, NEW ending \in Endings, End(ending)
    PROVE  ClosingTypes' /\ RecordsInv'
<1>1. /\ step = "running" /\ step' = "drafted" /\ ends' = ends + 1 /\ ends < Len(Docs)
      /\ mem' = [mem EXCEPT !.status = ending]
      /\ UNCHANGED <<file, history, goal, active, sent, issues, target, next, mishaps>>
  BY DEF End, Go, records, github
<1>2. mem' \in Record /\ mem'.status = ending
  BY <1>1 DEF ClosingTypes, ClosingTypeOK, Record, Status
<1>3. ClosingTypes'
  <2>1. ends \in 0..Len(Docs) /\ Len(Docs) \in Nat
    BY KnownTypes, RunningIsNoEnding
  <2>2. ends' \in 0..Len(Docs) /\ ends' # 0
    BY <1>1, <2>1
  <2>3. Offline
    BY <1>1, <1>2, <2>2, KnownTypes, UnfaultedNever DEF Offline
  <2>4. QED
    BY <1>1, <1>2, <2>2, <2>3, OfflineTypes DEF Ending
<1>4. RecordsInv'
  BY <1>1, UnfaultedNever
     DEF RecordsInv, CopyIsCurrent, EndIsUnsaved, HistoryIsCurrent, GoalIsTold,
     Ending, Publishing
<1>5. QED
  BY <1>3, <1>4

LEMMA ArchivedRecords ==
    ASSUME ClosingAssumption, ClosingTypes, RecordsInv, Archived
    PROVE  ClosingTypes' /\ RecordsInv'
<1>1. /\ step = "drafted" /\ step' = "archived" /\ history' = Told(mem)
      /\ UNCHANGED <<ends, mem, file, goal, active, sent, issues, target, next, mishaps>>
  BY DEF Archived, Go, github
<1>2. ClosingTypes'
  <2>1. Offline
    BY <1>1, KnownTypes, ToldTypes, UnfaultedNever DEF Offline
  <2>2. QED
    BY <1>1, <2>1, OfflineTypes DEF Ending, ClosingTypes
<1>3. RecordsInv'
  BY <1>1, UnfaultedNever
     DEF RecordsInv, CopyIsCurrent, EndIsUnsaved, HistoryIsCurrent, GoalIsTold,
     Ending, Publishing, Told
<1>4. QED
  BY <1>2, <1>3

LEMMA SaveEndRecords ==
    ASSUME ClosingAssumption, ClosingTypes, RecordsInv, SaveEnd
    PROVE  ClosingTypes' /\ RecordsInv'
<1>1. /\ step = "archived" /\ step' = "saved" /\ file' = mem
      /\ UNCHANGED <<ends, mem, goal, active, sent, issues, target, next, mishaps>>
      /\ history' = Told(mem)
  BY DEF SaveEnd, Go, github, Saved, RecordsInv, HistoryIsCurrent
<1>2. ClosingTypes'
  <2>1. Offline
    BY <1>1, KnownTypes, ToldTypes, UnfaultedNever DEF Offline
  <2>2. QED
    BY <1>1, <2>1, OfflineTypes DEF Ending, ClosingTypes
<1>3. RecordsInv'
  BY <1>1, UnfaultedNever
     DEF RecordsInv, CopyIsCurrent, EndIsUnsaved, HistoryIsCurrent, GoalIsTold,
     Ending, Publishing, Told
<1>4. QED
  BY <1>2, <1>3

LEMMA TellGoalRecords ==
    ASSUME ClosingAssumption, ClosingTypes, RecordsInv, TellGoal
    PROVE  ClosingTypes' /\ RecordsInv'
<1>1. /\ step = "saved" /\ step' = "finding" /\ goal' = mem.status
      /\ UNCHANGED <<ends, mem, file, history, active, sent, issues, target, next, mishaps>>
  BY DEF TellGoal, Go, github
<1>2. ClosingTypes'
  <2>1. mem.status \in Status
    BY KnownTypes DEF Record
  <2>2. Offline
    BY <1>1, <2>1, KnownTypes, UnfaultedNever DEF Offline
  <2>3. QED
    BY <1>1, <2>2, OfflineTypes DEF Ending, ClosingTypes
<1>3. RecordsInv'
  BY <1>1, UnfaultedNever
     DEF RecordsInv, CopyIsCurrent, EndIsUnsaved, HistoryIsCurrent, GoalIsTold,
     Ending, Publishing, Told
<1>4. QED
  BY <1>2, <1>3

LEMMA ReportRecords ==
    ASSUME ClosingAssumption, ClosingTypes, RecordsInv, Report
    PROVE  ClosingTypes' /\ RecordsInv'
<1>1. /\ step = "reporting" /\ step' = "clearing"
      /\ sent' \subseteq sent \cup {[end |-> ends, issue |-> mem.issue]}
      /\ UNCHANGED <<ends, mem, file, history, goal, active, issues, target, next>>
  BY DEF Report, Go, github
<1>2. mishaps' \in [FaultKinds -> Nat] /\ \A k : Never(k)' => Never(k)
  BY UnfaultedNever, FaultCounts, KnownTypes DEF Report, ClosingTypes
<1>3. ClosingTypes'
  <2>1. ends # 0 /\ mem.issue \in 0..Len(issues)
    BY <1>1, KnownTypes DEF ClosingTypes, Ending, Record
  <2>2. \A r \in sent' : r.end \in 1..Len(Docs) /\ r.issue \in 0..Len(issues)
    <3>1. ends \in 1..Len(Docs)
      BY <2>1, KnownTypes, RunningIsNoEnding
    <3>2. QED
      BY <1>1, <2>1, <3>1, KnownTypes
  <2>3. Offline
    BY <1>1, <1>2, <2>2, KnownTypes DEF Offline
  <2>4. QED
    BY <1>1, <2>3, OfflineTypes DEF Ending, ClosingTypes
<1>4. RecordsInv'
  BY <1>1, <1>2 DEF RecordsInv, CopyIsCurrent, EndIsUnsaved, HistoryIsCurrent, GoalIsTold,
     Ending, Publishing
<1>5. QED
  BY <1>3, <1>4

LEMMA ClearRecords ==
    ASSUME ClosingAssumption, ClosingTypes, RecordsInv, Clear
    PROVE  ClosingTypes' /\ RecordsInv'
<1>1. /\ step = "clearing" /\ step' = "ended" /\ active' = StaysActive(mem.status)
      /\ UNCHANGED <<ends, mem, file, history, goal, sent, issues, target, next, mishaps>>
  BY DEF Clear, Go, github
<1>2. ClosingTypes'
  <2>1. active' \in BOOLEAN
    BY <1>1 DEF StaysActive
  <2>2. Offline
    BY <1>1, <2>1, KnownTypes, UnfaultedNever DEF Offline
  <2>3. QED
    BY <1>1, <2>2, OfflineTypes DEF Ending, ClosingTypes
<1>3. RecordsInv'
  BY <1>1, UnfaultedNever
     DEF RecordsInv, CopyIsCurrent, EndIsUnsaved, HistoryIsCurrent, GoalIsTold,
     Ending, Publishing, Told, Agreed
<1>4. QED
  BY <1>2, <1>3

LEMMA ResumeRecords ==
    ASSUME ClosingAssumption, ClosingTypes, RecordsInv, Resume
    PROVE  ClosingTypes' /\ RecordsInv'
<1>1. /\ step = "down" /\ mem' = file
      /\ step' = IF Resumes THEN "running" ELSE "ended"
      /\ active' = (active /\ (Resumes \/ StaysActive(file.status)))
      /\ UNCHANGED <<ends, file, history, goal, sent, issues, target, next, mishaps>>
  BY DEF Resume, github
<1>2. ClosingTypes'
  <2>1. active' \in BOOLEAN
    BY <1>1
  <2>2. Offline
    BY <1>1, <2>1, KnownTypes, UnfaultedNever DEF Offline
  <2>3. QED
    BY <1>1, <2>2, OfflineTypes DEF Ending, ClosingTypes
<1>3. RecordsInv'
  <2>1. CASE Resumes
    BY <1>1, <2>1, UnfaultedNever DEF RecordsInv, CopyIsCurrent, EndIsUnsaved, HistoryIsCurrent,
       GoalIsTold, Ending, Publishing, Resumes
  <2>2. CASE ~Resumes
    BY <1>1, <2>2, UnfaultedNever DEF RecordsInv, CopyIsCurrent, EndIsUnsaved, HistoryIsCurrent,
       GoalIsTold, Ending, Publishing, Agreed
  <2>3. QED
    BY <2>1, <2>2
<1>4. QED
  BY <1>2, <1>3

LEMMA RestartRecords ==
    ASSUME ClosingAssumption, ClosingTypes, RecordsInv, RestartSprint
    PROVE  ClosingTypes' /\ RecordsInv'
<1>1. /\ step = "ended" /\ step' = "running" /\ file.status = "unplanned"
      /\ mem' = file /\ active' = TRUE
      /\ UNCHANGED <<ends, file, history, goal, sent, issues, target, next, mishaps>>
  BY DEF RestartSprint, Go, github
<1>2. ClosingTypes'
  <2>1. active' \in BOOLEAN
    BY <1>1
  <2>2. Offline
    BY <1>1, <2>1, KnownTypes, UnfaultedNever DEF Offline
  <2>3. QED
    BY <1>1, <2>2, OfflineTypes DEF Ending, ClosingTypes
<1>3. RecordsInv'
  BY <1>1, UnfaultedNever
     DEF RecordsInv, CopyIsCurrent, EndIsUnsaved, HistoryIsCurrent, GoalIsTold,
     Ending, Publishing
<1>4. QED
  BY <1>2, <1>3

\* A stop between the archive and the save leaves a record that says the sprint
\* goes on, and it will; any other leaves a history that agrees.
LEMMA CrashRecords ==
    ASSUME ClosingAssumption, ClosingTypes, RecordsInv, ProcessDies
    PROVE  ClosingTypes' /\ RecordsInv'
<1>1. /\ step # "down" /\ step' = "down"
      /\ UNCHANGED <<ends, mem, file, goal, active, sent, issues, target, next>>
      /\ \/ Mishap("crash") /\ UNCHANGED history
         \/ /\ step \in Publishing /\ Mishap("torn")
            /\ \E issue \in {0, target} : history' = [Told(mem) EXCEPT !.issue = issue]
  BY DEF ProcessDies, github
<1>2. /\ mishaps' \in [FaultKinds -> Nat] /\ \A k : Never(k)' => Never(k)
      /\ ~Never("torn")' \/ ~Never("crash")'
  BY <1>1, FaultCounts DEF ClosingTypes
<1>3. step \in Publishing =>
        \A issue \in {0, target} : /\ [Told(mem) EXCEPT !.issue = issue]
                                        \in [status : Status, issue : 0..Len(issues)]
                                   /\ [Told(mem) EXCEPT !.issue = issue].status = mem.status
  <2>1. 0 \in 0..Len(issues) /\ target \in 0..Len(issues)
    BY KnownTypes
  <2>2. QED
    BY <2>1, KnownTypes, ToldTypes
<1>4. ClosingTypes'
  <2>1. history' \in [status : Status, issue : 0..Len(issues)]
    BY <1>1, <1>3, KnownTypes
  <2>2. Offline
    BY <1>1, <1>2, <2>1, KnownTypes DEF Offline
  <2>3. QED
    BY <1>1, <2>2, OfflineTypes DEF Ending
<1>5. HistoryIsCurrent'
  <2>1. CASE step \in {"running", "drafted", "archived"}
    <3>1. Resumes /\ UNCHANGED <<active, file>>
      BY <1>1, <2>1 DEF RecordsInv, EndIsUnsaved, Resumes
    <3>2. Resumes'
      BY <3>1 DEF Resumes
    <3>3. QED
      BY <1>1, <3>2 DEF HistoryIsCurrent, Ending
  <2>2. CASE /\ step \in Publishing /\ Mishap("torn")
             /\ \E issue \in {0, target} : history' = [Told(mem) EXCEPT !.issue = issue]
    <3>1. history'.status = file.status
      <4>1. mem = file
        BY <2>2 DEF RecordsInv, CopyIsCurrent, Publishing
      <4>2. history'.status = mem.status
        BY <1>3, <2>2
      <4>3. QED
        BY <4>1, <4>2
    <3>2. ~Never("torn")'
      BY <2>2, FaultCounts DEF ClosingTypes
    <3>3. QED
      BY <1>1, <3>1, <3>2 DEF HistoryIsCurrent, Agreed, Ending
  <2>3. CASE step \notin {"running", "drafted", "archived"} /\ Mishap("crash") /\ UNCHANGED history
    <3>1. step \in {"saved", "finding", "creating", "commenting", "reporting", "clearing", "ended"}
      BY <1>1, <2>3, KnownSteps DEF Ending
    <3>4. Agreed
      <4>1. CASE step = "ended"
        BY <4>1 DEF RecordsInv, HistoryIsCurrent
      <4>2. CASE step # "ended"
        <5>1. history = Told(file)
          BY <3>1, <4>2 DEF RecordsInv, HistoryIsCurrent, Ending
        <5>2. QED
          BY <5>1, ToldTypes, KnownTypes DEF Agreed
      <4>3. QED
        BY <4>1, <4>2
    <3>2. Agreed'
      BY <1>1, <1>2, <2>3, <3>4 DEF Agreed
    <3>3. QED
      BY <1>1, <3>2 DEF HistoryIsCurrent, Ending
  <2>4. QED
    BY <1>1, <2>1, <2>2, <2>3
<1>6. RecordsInv'
  BY <1>1, <1>2, <1>5 DEF RecordsInv, CopyIsCurrent, EndIsUnsaved, GoalIsTold
<1>7. QED
  BY <1>4, <1>6

-----------------------------------------------------------------------------
\* The steps that reach GitHub.

\* Of such a step.
Online ==
    /\ issues' \in Seq(Issue) /\ Len(issues) <= Len(issues')
    /\ UNCHANGED <<ends, goal, active, sent>>
    /\ mishaps' \in [FaultKinds -> Nat] /\ \A k : Never(k)' => Never(k)
    /\ mem' \in Record' /\ file' \in Record'
    /\ history' \in [status : Status, issue : 0..Len(issues')]
    /\ target' \in 0..Len(issues')

\* With more issues the records keep their types.
LEMMA RecordsGrow ==
    ASSUME ClosingTypes, issues' \in Seq(Issue), Len(issues) <= Len(issues')
    PROVE  /\ Record \subseteq Record'
           /\ history \in [status : Status, issue : 0..Len(issues')]
           /\ target \in 0..Len(issues')
           /\ \A r \in sent : r.end \in 1..Len(Docs) /\ r.issue \in 0..Len(issues')
<1>1. Len(issues) \in Nat /\ Len(issues') \in Nat
  BY LenProperties DEF ClosingTypes
<1>2. 0..Len(issues) \subseteq 0..Len(issues')
  BY <1>1
<1>3. QED
  BY <1>2, KnownTypes DEF Record

LEMMA OnlineTypes ==
    ASSUME ClosingAssumption, ClosingTypes, Online,
           step' \in Ending \cup {"running", "ended", "down"},
           step' \in Ending => ends # 0 /\ mem'.status \in Endings,
           step' = "commenting" => target' # 0 /\ PlacesAreKnown',
           next' \in Nat
    PROVE  ClosingTypes'
<1>1. /\ ends' \in 0..Len(Docs) /\ goal' \in Status /\ active' \in BOOLEAN
      /\ \A r \in sent' : r.end \in 1..Len(Docs) /\ r.issue \in 0..Len(issues')
  BY RecordsGrow, KnownTypes DEF Online
<1>2. step' \in Publishing \cup {"running", "drafted", "archived", "saved",
                                 "reporting", "clearing", "ended", "down"}
  BY DEF Ending, Publishing
<1>3. ASSUME NEW i \in DOMAIN issues'
      PROVE  issues'[i].index \in 0..Len(Docs) /\ issues'[i].open \in BOOLEAN
  <2>1. issues'[i] \in Issue
    BY <1>3, ElementOfSeq, LenProperties DEF Online
  <2>2. QED
    BY <2>1 DEF Issue
<1>4. ClosingTypeOK'
  BY <1>1, <1>2, <1>3 DEF ClosingTypeOK, Online
<1>5. QED
  BY <1>4 DEF ClosingTypes, Online

\* One issue is set, the others are left.
LEMMA IssueIsSet ==
    ASSUME NEW old \in Seq(Issue), NEW t \in 1..Len(old), NEW issue \in Issue,
           NEW new, new = [old EXCEPT ![t] = issue]
    PROVE  /\ new \in Seq(Issue) /\ Len(new) = Len(old) /\ new[t] = issue
           /\ \A i \in 1..Len(old) : i # t => new[i] = old[i]
BY ExceptSeq, LenProperties

\* The section published next.
LEMMA NextSection ==
    ASSUME ClosingAssumption, ClosingTypes, step = "commenting"
    PROVE  /\ ends \in 1..Len(Docs) /\ Docs[ends] \in Seq(Sections)
           /\ Len(Docs[ends]) \in Nat /\ next \in 1..(Len(Docs[ends]) + 1)
           /\ next <= Len(Docs[ends]) => Docs[ends][next] \in Sections
           /\ target \in 1..Len(issues) /\ issues[target] \in Issue
           /\ issues[target].comments \in Seq(Comment)
<1>1. ends \in 1..Len(Docs)
  BY KnownTypes, RunningIsNoEnding DEF ClosingTypes, Ending
<1>2. Docs[ends] \in Seq(Sections)
  BY <1>1, ElementOfSeq DEF ClosingAssumption
<1>3. Len(Docs[ends]) \in Nat /\ next \in 1..(Len(Docs[ends]) + 1)
  BY <1>2, LenProperties DEF ClosingTypes, PlacesAreKnown
<1>4. next <= Len(Docs[ends]) => Docs[ends][next] \in Sections
  BY <1>2, <1>3, ElementOfSeq
<1>5. target \in 1..Len(issues) /\ issues \in Seq(Issue)
  <2>1. target # 0 /\ issues \in Seq(Issue)
    BY DEF ClosingTypes, ClosingTypeOK
  <2>2. QED
    BY <2>1, KnownTypes, LenProperties
<1>6. issues[target] \in Issue
  BY <1>5, ElementOfSeq
<1>7. QED
  BY <1>1, <1>2, <1>3, <1>4, <1>5, <1>6 DEF Issue

\* What the upsert makes of an issue's comments.
LEMMA UpsertedIs ==
    ASSUME ClosingAssumption, ClosingTypes, step = "commenting", next <= Len(Docs[ends]),
           NEW comments, comments = issues[target].comments,
           NEW s, s = Docs[ends][next],
           NEW comment, comment = [marker |-> Marker[s], section |-> s, end |-> ends]
    PROVE  /\ comment \in Comment
           /\ Marker[s] \in DOMAIN seen =>
                /\ seen[Marker[s]] \in 1..Len(comments)
                /\ Upserted(comments, s) = [comments EXCEPT ![seen[Marker[s]]] = comment]
           /\ Marker[s] \notin DOMAIN seen => Upserted(comments, s) = Append(comments, comment)
           /\ Upserted(comments, s) \in Seq(Comment)
           /\ Len(comments) <= Len(Upserted(comments, s))
<1>1. s \in Sections /\ ends \in 1..Len(Docs) /\ comments \in Seq(Comment)
  BY NextSection
<1>2. comment \in Comment
  BY <1>1 DEF Comment
<1>3. CASE Marker[s] \in DOMAIN seen
  <2>1. seen[Marker[s]] \in 1..Len(comments)
    BY <1>3 DEF ClosingTypes, PlacesAreKnown
  <2>2. Upserted(comments, s) = [comments EXCEPT ![seen[Marker[s]]] = comment]
    BY <1>3 DEF Upserted
  <2>3. QED
    BY <1>1, <1>2, <1>3, <2>1, <2>2, ExceptSeq, LenProperties
<1>4. CASE Marker[s] \notin DOMAIN seen
  <2>1. Upserted(comments, s) = Append(comments, comment)
    BY <1>4 DEF Upserted
  <2>2. QED
    BY <1>1, <1>2, <1>4, <2>1, AppendProperties, LenProperties
<1>5. QED
  BY <1>3, <1>4

\* What it makes of the issues.
LEMMA UpsertedIssues ==
    ASSUME ClosingAssumption, ClosingTypes, step = "commenting", next <= Len(Docs[ends]),
           issues' = [issues EXCEPT ![target].comments = Upserted(@, Docs[ends][next])]
    PROVE  /\ issues' \in Seq(Issue) /\ Len(issues') = Len(issues)
           /\ issues'[target].comments = Upserted(issues[target].comments, Docs[ends][next])
           /\ issues'[target].open = issues[target].open
           /\ issues'[target].index = issues[target].index
           /\ \A i \in 1..Len(issues) : i # target => issues'[i] = issues[i]
<1>1. PICK issue : issue = [issues[target] EXCEPT !.comments = Upserted(@, Docs[ends][next])]
  OBVIOUS
<1>2. /\ issue \in Issue /\ issue.open = issues[target].open /\ issue.index = issues[target].index
      /\ issue.comments = Upserted(issues[target].comments, Docs[ends][next])
  <2>1. Upserted(issues[target].comments, Docs[ends][next]) \in Seq(Comment)
    BY UpsertedIs
  <2>2. issues[target] \in Issue
    BY NextSection
  <2>3. QED
    BY <1>1, <2>1, <2>2 DEF Issue
<1>3. issues' = [issues EXCEPT ![target] = issue]
  BY <1>1
<1>6. PICK old, new : old = issues /\ new = issues'
  OBVIOUS
<1>7. PICK t : t = target
  OBVIOUS
<1>4. issues \in Seq(Issue) /\ target \in 1..Len(issues)
  BY NextSection DEF ClosingTypes
<1>5. QED
  <2>1. /\ issues' \in Seq(Issue) /\ Len(issues') = Len(issues) /\ issues'[target] = issue
        /\ \A i \in 1..Len(issues) : i # target => issues'[i] = issues[i]
    <3>1. old \in Seq(Issue) /\ t \in 1..Len(old) /\ new = [old EXCEPT ![t] = issue]
      BY <1>3, <1>4, <1>6, <1>7
    <3>2. /\ new \in Seq(Issue) /\ Len(new) = Len(old) /\ new[t] = issue
          /\ \A i \in 1..Len(old) : i # t => new[i] = old[i]
      BY <1>2, <3>1, IssueIsSet
    <3>3. QED
      BY <1>6, <1>7, <3>2
  <2>2. QED
    BY <1>2, <2>1

\* A page of comments has places the comments have.
LEMMA PlaceIs ==
    ASSUME ClosingAssumption, NEW comments \in Seq(Comment)
    PROVE  /\ \A k \in DOMAIN Place(comments) :
                /\ Place(comments)[k] \in 1..Len(comments) /\ Place(comments)[k] <= PageSize
                /\ comments[Place(comments)[k]].marker = k
                /\ \A j \in 1..Len(comments) :
                     j <= PageSize /\ comments[j].marker = k => j <= Place(comments)[k]
           /\ \A j \in 1..Len(comments) :
                j <= PageSize => comments[j].marker \in DOMAIN Place(comments)
<1>1. PICK page : page = 1..(IF Len(comments) < PageSize THEN Len(comments) ELSE PageSize)
  OBVIOUS
<1>2. PageSize \in Nat /\ Len(comments) \in Nat
  BY LenProperties DEF ClosingAssumption
<1>3. \A i : i \in page <=> i \in 1..Len(comments) /\ i <= PageSize
  BY <1>1, <1>2
<1>4. Place(comments) = [k \in {comments[i].marker : i \in page} |->
                          CHOOSE i \in page : comments[i].marker = k
                                /\ \A j \in page : comments[j].marker = k => j <= i]
  BY <1>1 DEF Place
<1>5. ASSUME NEW k \in DOMAIN Place(comments)
      PROVE  /\ Place(comments)[k] \in page /\ comments[Place(comments)[k]].marker = k
             /\ \A j \in page : comments[j].marker = k => j <= Place(comments)[k]
  <2>1. {i \in page : comments[i].marker = k} # {}
    BY <1>4, <1>5
  <2>2. PICK own : own = {i \in page : comments[i].marker = k}
    OBVIOUS
  <2>3. \E i \in own : \A j \in own : j <= i
    BY <1>2, <1>3, <2>1, <2>2, GreatestOf
  <2>4. \E i \in page : comments[i].marker = k /\ \A j \in page : comments[j].marker = k => j <= i
    BY <2>2, <2>3
  <2>5. QED
    BY <1>4, <2>4
<1>6. QED
  BY <1>3, <1>4, <1>5

-----------------------------------------------------------------------------
\* What an upsert keeps.

\* An upsert leaves what it publishes current and the only comment of its
\* marker on the page, and what it published before as it was.
LEMMA UpsertKeeps ==
    ASSUME ClosingAssumption, ClosingTypes, step = "commenting", next <= Len(Docs[ends]),
           NEW comments, comments = issues[target].comments,
           NEW upserted, upserted = Upserted(comments, Docs[ends][next]),
           Single(comments), Filed(comments, next)
    PROVE  Single(upserted) /\ Filed(upserted, next + 1)
<1>1. PICK s, comment : /\ s = Docs[ends][next]
                        /\ comment = [marker |-> Marker[s], section |-> s, end |-> ends]
  OBVIOUS
<1>2. /\ s \in Sections /\ PageSize \in Nat /\ Len(comments) \in Nat
      /\ comments \in Seq(Comment)
  BY <1>1, NextSection, LenProperties DEF ClosingAssumption
<1>3. /\ comment.marker = Marker[s] /\ comment.section = s /\ comment.end = ends
  BY <1>1
<1>4. \E p \in 1..Len(upserted) :
         /\ upserted[p] = comment
         /\ Len(comments) <= Len(upserted) /\ Len(upserted) \in Nat
         /\ \A i \in 1..Len(upserted) : i # p => i \in 1..Len(comments) /\ upserted[i] = comments[i]
         /\ \/ /\ Marker[s] \in DOMAIN seen /\ p = seen[Marker[s]]
               /\ Len(upserted) = Len(comments)
            \/ Marker[s] \notin DOMAIN seen /\ p = Len(comments) + 1
  <2>1. CASE Marker[s] \in DOMAIN seen
    <3>1. PICK p : p = seen[Marker[s]]
      OBVIOUS
    <3>2. /\ p \in 1..Len(comments) /\ comment \in Comment
          /\ upserted = [comments EXCEPT ![p] = comment]
      <4>1. upserted = Upserted(comments, s)
        BY <1>1
      <4>2. QED
        <5>1. /\ comment \in Comment /\ seen[Marker[s]] \in 1..Len(comments)
              /\ Upserted(comments, s) = [comments EXCEPT ![seen[Marker[s]]] = comment]
          <6>1. comment \in Comment
            BY <1>1, UpsertedIs
          <6>2. seen[Marker[s]] \in 1..Len(comments)
            BY <2>1 DEF ClosingTypes, PlacesAreKnown
          <6>3. Upserted(comments, s) = [comments EXCEPT ![seen[Marker[s]]] = comment]
            BY <1>1, <2>1 DEF Upserted
          <6>4. QED
            BY <6>1, <6>2, <6>3
        <5>2. QED
          BY <3>1, <4>1, <5>1
    <3>3. /\ upserted \in Seq(Comment) /\ Len(upserted) = Len(comments) /\ upserted[p] = comment
          /\ \A i \in 1..Len(comments) : i # p => upserted[i] = comments[i]
      BY <1>2, <3>2, ExceptSeq
    <3>4. QED
      BY <1>2, <2>1, <3>1, <3>2, <3>3
  <2>2. CASE Marker[s] \notin DOMAIN seen
    <3>1. upserted = Append(comments, comment) /\ comment \in Comment
      BY <1>1, <2>2, UpsertedIs
    <3>2. /\ Len(upserted) = Len(comments) + 1 /\ upserted[Len(comments) + 1] = comment
          /\ \A i \in 1..Len(comments) : upserted[i] = comments[i]
      BY <1>2, <3>1, AppendProperties
    <3>3. PICK p : p = Len(comments) + 1
      OBVIOUS
    <3>4. /\ p \in 1..Len(upserted) /\ upserted[p] = comment
          /\ Len(comments) <= Len(upserted) /\ Len(upserted) \in Nat
          /\ \A i \in 1..Len(upserted) : i # p => i \in 1..Len(comments)
      BY <1>2, <3>2, <3>3
    <3>5. QED
      BY <2>2, <3>2, <3>3, <3>4
  <2>3. QED
    BY <2>1, <2>2
<1>5. PICK p \in 1..Len(upserted) :
         /\ upserted[p] = comment
         /\ Len(comments) <= Len(upserted) /\ Len(upserted) \in Nat
         /\ \A i \in 1..Len(upserted) : i # p => i \in 1..Len(comments) /\ upserted[i] = comments[i]
         /\ \/ /\ Marker[s] \in DOMAIN seen /\ p = seen[Marker[s]]
               /\ Len(upserted) = Len(comments)
            \/ Marker[s] \notin DOMAIN seen /\ p = Len(comments) + 1
  BY <1>4
<1>6. p \in 1..Len(comments) => comments[p].marker = Marker[s] /\ p <= PageSize
  BY <1>2, <1>5 DEF Filed, SeenIsOnPage
\* A section that alone has its marker keeps its comments, but for this one.
<1>7. ASSUME NEW t \in Sections, OwnMarker(t), t # s
      PROVE  CommentsOf(upserted, t) = CommentsOf(comments, t)
  <2>1. Marker[t] # Marker[s]
    BY <1>2, <1>7 DEF OwnMarker
  <2>2. p \notin CommentsOf(upserted, t) /\ p \notin CommentsOf(comments, t)
    BY <1>3, <1>5, <1>6, <2>1 DEF CommentsOf
  <2>3. ASSUME NEW i, i # p
        PROVE  i \in CommentsOf(upserted, t) <=> i \in CommentsOf(comments, t)
    <3>1. i \in 1..Len(comments) => i \in 1..Len(upserted)
      BY <1>2, <1>5
    <3>2. QED
      BY <1>5, <2>3, <3>1 DEF CommentsOf
  <2>4. \A i : i \in CommentsOf(upserted, t) <=> i \in CommentsOf(comments, t)
    BY <2>2, <2>3
  <2>5. QED
    BY <2>4
\* No other comment of this section is on the page.
<1>8. ASSUME OwnMarker(s), NEW i \in CommentsOf(upserted, s), i # p
      PROVE  i \in CommentsOf(comments, s) /\ PageSize < i /\ i < p
  <2>1. i \in CommentsOf(comments, s) /\ i \in 1..Len(comments)
    BY <1>5, <1>8 DEF CommentsOf
  <2>2. CASE Marker[s] \in DOMAIN seen
    <3>1. p \in CommentsOf(comments, s) /\ p <= PageSize
      BY <1>5, <1>6, <2>2 DEF CommentsOf
    <3>2. i < p \/ p < i
      BY <1>5, <1>8, <2>1
    <3>3. \/ i < p /\ PageSize < i
          \/ p < i /\ PageSize < p
      BY <1>2, <1>8, <2>1, <3>1, <3>2 DEF Single
    <3>4. QED
      BY <1>2, <1>5, <2>1, <3>1, <3>3
  <2>3. CASE Marker[s] \notin DOMAIN seen
    <3>1. next \in next..Len(Docs[ends])
      BY NextSection
    <3>2. PageSize < i
      BY <1>1, <1>8, <2>1, <2>3, <3>1 DEF Filed, UnseenIsBeyond
    <3>3. i < p
      BY <1>2, <1>5, <2>1, <2>3
    <3>4. QED
      BY <2>1, <3>2, <3>3
  <2>4. QED
    BY <2>2, <2>3
<1>9. Single(upserted)
  <2>1. SUFFICES ASSUME NEW t \in Sections, OwnMarker(t),
                        NEW i \in CommentsOf(upserted, t), NEW j \in CommentsOf(upserted, t), i < j
                 PROVE  PageSize < i
    BY DEF Single
  <2>2. CASE t # s
    BY <1>7, <2>1, <2>2 DEF Single
  <2>3. CASE t = s
    <3>1. i # p
      <4>1. SUFFICES ASSUME i = p PROVE FALSE
        OBVIOUS
      <4>2. j # p /\ j \in 1..Len(upserted)
        BY <1>5, <2>1, <4>1 DEF CommentsOf
      <4>3. j < p
        BY <1>8, <2>1, <2>3, <4>2
      <4>4. QED
        BY <1>5, <2>1, <4>1, <4>2, <4>3
    <3>2. QED
      BY <1>8, <2>1, <2>3, <3>1
  <2>4. QED
    BY <2>2, <2>3
<1>10. Filed(upserted, next + 1)
  <2>1. ASSUME NEW k \in DOMAIN seen
        PROVE  seen[k] <= PageSize /\ upserted[seen[k]].marker = k
    <3>1. seen[k] \in 1..Len(comments) /\ seen[k] <= PageSize /\ comments[seen[k]].marker = k
      BY <2>1 DEF Filed, SeenIsOnPage, ClosingTypes, PlacesAreKnown
    <3>2. CASE seen[k] = p
      BY <1>3, <1>5, <1>6, <3>1, <3>2
    <3>3. CASE seen[k] # p
      <4>1. seen[k] \in 1..Len(upserted)
        BY <1>2, <1>5, <3>1
      <4>2. QED
        BY <1>5, <3>1, <3>3, <4>1
    <3>4. QED
      BY <3>2, <3>3
  <2>2. ASSUME NEW m \in 1..Len(Docs[ends]), m # next
        PROVE  Docs[ends][m] \in Sections /\ Docs[ends][m] # s
    <3>1. IsInjective(Docs[ends]) /\ Docs[ends] \in Seq(Sections) /\ next \in 1..Len(Docs[ends])
      BY NextSection, LenProperties DEF ClosingAssumption
    <3>2. m \in DOMAIN Docs[ends] /\ next \in DOMAIN Docs[ends]
      BY <2>2, <3>1, LenProperties
    <3>3. QED
      BY <1>1, <2>2, <3>1, <3>2, ElementOfSeq DEF IsInjective
  <2>3. next \in 1..Len(Docs[ends]) /\ Len(Docs[ends]) \in Nat
    BY NextSection
  <2>4. ASSUME NEW m \in (next + 1)..Len(Docs[ends]), OwnMarker(Docs[ends][m]),
               Marker[Docs[ends][m]] \notin DOMAIN seen,
               NEW i \in CommentsOf(upserted, Docs[ends][m])
        PROVE  PageSize < i
    <3>1. m \in 1..Len(Docs[ends]) /\ m # next /\ m \in next..Len(Docs[ends])
      BY <2>3, <2>4
    <3>2. i \in CommentsOf(comments, Docs[ends][m])
      BY <1>7, <2>2, <2>4, <3>1
    <3>3. QED
      BY <2>4, <3>1, <3>2 DEF Filed, UnseenIsBeyond
  <2>5. ASSUME NEW m \in 1..next, OwnMarker(Docs[ends][m])
        PROVE  NewestIsCurrent(upserted, Docs[ends][m])
    <3>1. CASE m = next
      <4>1. p \in CommentsOf(upserted, s)
        BY <1>3, <1>5 DEF CommentsOf
      <4>2. \A j \in CommentsOf(upserted, s) : j <= p
        <5>1. ASSUME NEW j \in CommentsOf(upserted, s) PROVE j <= p
          <6>1. OwnMarker(s) /\ j \in 1..Len(upserted)
            BY <1>1, <2>5, <3>1 DEF CommentsOf
          <6>2. j = p \/ j < p
            BY <1>8, <5>1, <6>1
          <6>3. QED
            BY <1>5, <6>1, <6>2
        <5>2. QED
          BY <5>1
      <4>3. QED
        BY <1>1, <1>3, <1>5, <3>1, <4>1, <4>2 DEF NewestIsCurrent
    <3>2. CASE m # next
      <4>1. m \in 1..Len(Docs[ends]) /\ m < next
        BY <2>3, <2>5, <3>2
      <4>2. PICK t : t = Docs[ends][m]
        OBVIOUS
      <4>3. t \in Sections /\ t # s /\ OwnMarker(t) /\ NewestIsCurrent(comments, t)
        BY <2>2, <2>5, <3>2, <4>1, <4>2 DEF Filed, PastIsCurrent
      <4>4. PICK i \in CommentsOf(comments, t) :
               /\ comments[i].end = ends /\ comments[i].section = t
               /\ \A j \in CommentsOf(comments, t) : j <= i
        BY <4>3 DEF NewestIsCurrent
      <4>5. CommentsOf(upserted, t) = CommentsOf(comments, t)
        BY <1>7, <4>3
      <4>6. i # p /\ i \in 1..Len(upserted)
        <5>1. Marker[t] # Marker[s]
          BY <1>2, <4>3 DEF OwnMarker
        <5>2. upserted[i].marker = Marker[t] /\ i \in 1..Len(upserted)
          BY <4>4, <4>5 DEF CommentsOf
        <5>3. QED
          BY <1>3, <1>5, <5>1, <5>2
      <4>7. upserted[i] = comments[i]
        BY <1>5, <4>6
      <4>8. QED
        BY <4>2, <4>4, <4>5, <4>7 DEF NewestIsCurrent
    <3>3. QED
      BY <3>1, <3>2
  <2>6. SeenIsOnPage(upserted)
    BY <2>1 DEF SeenIsOnPage
  <2>7. UnseenIsBeyond(upserted, next + 1)
    BY <2>4 DEF UnseenIsBeyond
  <2>8. PastIsCurrent(upserted, next + 1)
    <3>1. \A m \in 1..Len(Docs[ends]) : m < next + 1 => m \in 1..next
      BY <2>3
    <3>2. QED
      BY <2>5, <3>1 DEF PastIsCurrent
  <2>9. QED
    BY <2>6, <2>7, <2>8 DEF Filed
<1>11. QED
  BY <1>9, <1>10

-----------------------------------------------------------------------------
\* The steps keep the invariant.

ClosingInv == ClosingTypes /\ RecordsInv /\ PublishInv

\* What the types say of the reports that were sent.
LEMMA SentEnds ==
    ASSUME ClosingAssumption, ClosingTypes, PublishInv
    PROVE  ends \in Nat /\ \A r \in sent : r.end \in Nat /\ r.end <= ends
<1>1. ends \in Nat /\ \A r \in sent : r.end \in Nat
  BY KnownTypes, RunningIsNoEnding
<1>2. QED
  BY <1>1 DEF PublishInv, SentIsPast

LEMMA OfflinePublish ==
    ASSUME PublishInv, UNCHANGED <<ends, issues>>, \A k : Never(k)' => Never(k),
           step' \notin {"creating", "commenting", "reporting"},
           SentIsPast', ReportNamesIssue'
    PROVE  PublishInv'
BY DEF PublishInv, CommentsAreSingle, Single, CommentsOf, FilingIsTrue, IssueIsMissed,
   NamesAreCurrent, LeftIsCurrent

\* The steps after which no report was sent and none is to be judged.
LEMMA QuietPublish ==
    ASSUME ClosingAssumption, ClosingTypes, PublishInv, UNCHANGED <<ends, issues, sent>>,
           \A k : Never(k)' => Never(k),
           step' \in Ending => step \in Ending \ {"clearing"},
           step' \notin {"creating", "commenting", "reporting", "clearing"}
    PROVE  PublishInv'
<1>1. SentIsPast'
  BY DEF PublishInv, SentIsPast
<1>2. ReportNamesIssue'
  BY DEF ReportNamesIssue
<1>3. QED
  BY <1>1, <1>2, OfflinePublish

LEMMA InitPublish ==
    ASSUME ClosingAssumption, ClosingInit
    PROVE  PublishInv
<1>1. Len(issues) = 0 /\ sent = {} /\ step = "running"
  BY DEF ClosingInit
<1>2. \A n \in 1..Len(issues) : FALSE
  BY <1>1
<1>3. QED
  BY <1>1, <1>2 DEF PublishInv, CommentsAreSingle, FilingIsTrue, IssueIsMissed, NamesAreCurrent,
     SentIsPast, LeftIsCurrent, ReportNamesIssue

LEMMA EndPublish ==
    ASSUME ClosingAssumption, ClosingTypes, PublishInv, NEW ending \in Endings, End(ending)
    PROVE  PublishInv'
<1>1. /\ step = "running" /\ step' = "drafted" /\ ends' = ends + 1
      /\ UNCHANGED <<sent, issues, mishaps>>
  BY DEF End, Go, records, github
<1>2. SentIsPast'
  BY <1>1, SentEnds DEF SentIsPast
<1>3. CommentsAreSingle' /\ IssueIsMissed'
  BY <1>1 DEF PublishInv, CommentsAreSingle, Single, CommentsOf, IssueIsMissed, Never
<1>4. QED
  BY <1>1, <1>2, <1>3
     DEF PublishInv, FilingIsTrue, NamesAreCurrent, LeftIsCurrent, ReportNamesIssue

LEMMA ReportPublish ==
    ASSUME ClosingAssumption, ClosingTypes, PublishInv, Report
    PROVE  PublishInv'
<1>1. /\ step = "reporting" /\ step' = "clearing"
      /\ sent' \subseteq sent \cup {[end |-> ends, issue |-> mem.issue]}
      /\ UNCHANGED <<ends, issues>>
  BY DEF Report, Go, github
<1>2. \A k : Never(k)' => Never(k)
  BY UnfaultedNever, FaultCounts DEF Report, ClosingTypes
<1>3. \A r \in sent : r.end < ends
  BY <1>1 DEF PublishInv, SentIsPast, Ending
<1>4. SentIsPast'
  <2>1. ASSUME NEW r \in sent' PROVE r.end <= ends
    BY <1>1, <1>3, SentEnds
  <2>2. QED
    BY <1>1, <2>1 DEF SentIsPast, Ending
<1>5. ReportNamesIssue'
  <2>1. SUFFICES ASSUME NEW r \in sent', r.end = ends, r.issue # 0
                 PROVE  issues[r.issue].index = ends
    BY <1>1 DEF ReportNamesIssue
  <2>2. r \notin sent
    BY <1>3, <2>1, SentEnds
  <2>3. r.issue = mem.issue
    BY <1>1, <2>1, <2>2
  <2>4. QED
    BY <1>1, <2>1, <2>3 DEF PublishInv, NamesAreCurrent
<1>6. QED
  BY <1>1, <1>2, <1>4, <1>5, OfflinePublish

\* When the comments and the index of every issue stay, all that was published
\* does.
LEMMA CommentsStay ==
    ASSUME ClosingTypes, PublishInv, issues' \in Seq(Issue), Len(issues') = Len(issues),
           \A i \in 1..Len(issues) : issues'[i].comments = issues[i].comments
    PROVE  CommentsAreSingle'
BY DEF PublishInv, CommentsAreSingle, Single, CommentsOf

\* What is current stays so until the sprint ends again.
LEMMA PastStays ==
    ASSUME NEW comments, NEW n, UNCHANGED ends, PastIsCurrent(comments, n)
    PROVE  PastIsCurrent(comments, n)'
BY DEF PastIsCurrent, NewestIsCurrent, CommentsOf

LEMMA UserClosesKeeps ==
    ASSUME ClosingAssumption, ClosingInv, UserCloses
    PROVE  ClosingInv'
<1>1. /\ UNCHANGED <<step, ends, mem, file, history, goal, active, sent, target, seen, next>>
      /\ mishaps' \in [FaultKinds -> Nat] /\ \A k : Never(k)' => Never(k)
  BY FaultCounts DEF UserCloses, closing, records, ClosingInv, ClosingTypes
<1>2. /\ issues' \in Seq(Issue) /\ Len(issues') = Len(issues)
      /\ \A i \in 1..Len(issues) : /\ issues'[i].comments = issues[i].comments
                                   /\ issues'[i].index = issues[i].index
  <2>1. PICK i \in DOMAIN issues : issues' = [issues EXCEPT ![i].open = FALSE]
    BY DEF UserCloses
  <2>2. issues \in Seq(Issue) /\ i \in 1..Len(issues)
    BY <2>1, LenProperties DEF ClosingInv, ClosingTypes
  <2>3. PICK issue : issue = [issues[i] EXCEPT !.open = FALSE]
    OBVIOUS
  <2>4. issue \in Issue /\ issue.comments = issues[i].comments /\ issue.index = issues[i].index
    <3>1. issues[i] \in Issue
      BY <2>2, ElementOfSeq
    <3>2. QED
      BY <2>3, <3>1 DEF Issue
  <2>5. PICK old, new : old = issues /\ new = issues'
    OBVIOUS
  <2>6. old \in Seq(Issue) /\ i \in 1..Len(old) /\ new = [old EXCEPT ![i] = issue]
    BY <2>1, <2>2, <2>3, <2>5
  <2>7. /\ new \in Seq(Issue) /\ Len(new) = Len(old) /\ new[i] = issue
        /\ \A j \in 1..Len(old) : j # i => new[j] = old[j]
    BY <2>4, <2>6, IssueIsSet
  <2>8. QED
    BY <2>4, <2>5, <2>7
<1>3. ClosingTypes'
  <2>1. Len(issues) <= Len(issues') /\ issues' \in Seq(Issue)
    BY <1>2, LenProperties
  <2>2. Online
    BY <1>1, <2>1, RecordsGrow, KnownTypes DEF Online, ClosingInv
  <2>3. step' = "commenting" => target' # 0 /\ PlacesAreKnown'
    <3>1. step = "commenting" => target \in 1..Len(issues) /\ PlacesAreKnown
      BY NextSection DEF ClosingInv, ClosingTypes
    <3>2. QED
      BY <1>1, <1>2, <3>1 DEF PlacesAreKnown, ClosingInv, ClosingTypes, ClosingTypeOK
  <2>4. /\ step' \in Ending \cup {"running", "ended", "down"} /\ next' \in Nat
        /\ step' \in Ending => ends # 0 /\ mem'.status \in Endings
    BY <1>1, KnownSteps DEF ClosingInv, ClosingTypes, ClosingTypeOK
  <2>5. QED
    BY <2>2, <2>3, <2>4, OnlineTypes DEF ClosingInv
<1>4. RecordsInv'
  BY <1>1 DEF ClosingInv, RecordsInv, CopyIsCurrent, EndIsUnsaved, HistoryIsCurrent,
         GoalIsTold, Ending,
     Publishing, Agreed, Told, Resumes
<1>5. PublishInv'
  <2>1. CommentsAreSingle'
    BY <1>2, CommentsStay DEF ClosingInv
  <2>2. FilingIsTrue'
    <3>1. SUFFICES ASSUME step = "commenting" PROVE Filed(issues[target].comments, next)'
      BY <1>1 DEF FilingIsTrue
    <3>2. issues'[target].comments = issues[target].comments
      BY <1>2, <3>1, NextSection DEF ClosingInv
    <3>3. QED
      BY <1>1, <3>1, <3>2
         DEF ClosingInv, PublishInv, FilingIsTrue, Filed, SeenIsOnPage, UnseenIsBeyond,
         PastIsCurrent, NewestIsCurrent, CommentsOf
  <2>3. IssueIsMissed' /\ SentIsPast'
    BY <1>1, <1>2 DEF ClosingInv, PublishInv, IssueIsMissed, SentIsPast
  <2>4. NamesAreCurrent' /\ LeftIsCurrent'
    <3>1. SUFFICES ASSUME step = "reporting" PROVE NamesAreCurrent' /\ LeftIsCurrent'
      BY <1>1 DEF NamesAreCurrent, LeftIsCurrent
    <3>2. mem.issue \in 0..Len(issues) /\ issues \in Seq(Issue)
      BY KnownTypes DEF ClosingInv, ClosingTypes, Record
    <3>3. mem.issue # 0 => /\ issues'[mem.issue].comments = issues[mem.issue].comments
                           /\ issues'[mem.issue].index = issues[mem.issue].index
      BY <1>2, <3>2, LenProperties
    <3>4. NamesAreCurrent'
      BY <1>1, <3>1, <3>3 DEF ClosingInv, PublishInv, NamesAreCurrent
    <3>5. LeftIsCurrent'
      <4>1. CASE mem.publish = "published"
        <5>1. issues'[mem'.issue].comments = issues[mem.issue].comments
          BY <1>1, <3>1, <3>3, <4>1 DEF ClosingInv, PublishInv, NamesAreCurrent
        <5>2. QED
          <6>1. PICK comments, n : comments = issues[mem.issue].comments /\ n = Len(Docs[ends]) + 1
            OBVIOUS
          <6>2. PastIsCurrent(comments, n)
            BY <3>1, <4>1, <6>1 DEF ClosingInv, PublishInv, LeftIsCurrent
          <6>3. PastIsCurrent(comments, n)'
            BY <1>1, <6>2, PastStays
          <6>4. comments = issues'[mem'.issue].comments /\ n = Len(Docs[ends']) + 1
            BY <1>1, <5>1, <6>1
          <6>5. QED
            BY <6>3, <6>4 DEF LeftIsCurrent
      <4>2. CASE mem.publish # "published"
        BY <1>1, <4>2 DEF LeftIsCurrent
      <4>3. QED
        BY <4>1, <4>2
    <3>6. QED
      BY <3>4, <3>5
  <2>5. ReportNamesIssue'
    <3>1. SUFFICES ASSUME step = "clearing", NEW r \in sent, r.end = ends, r.issue # 0
                   PROVE  issues'[r.issue].index = ends
      BY <1>1 DEF ReportNamesIssue
    <3>2. r.issue \in 0..Len(issues) /\ Len(issues) \in Nat
      BY <3>1, KnownTypes, LenProperties DEF ClosingInv, ClosingTypes
    <3>3. r.issue \in 1..Len(issues)
      BY <3>1, <3>2
    <3>4. QED
      BY <1>2, <3>1, <3>3 DEF ClosingInv, PublishInv, ReportNamesIssue
  <2>6. QED
    BY <2>1, <2>2, <2>3, <2>4, <2>5 DEF PublishInv
<1>6. QED
  BY <1>3, <1>4, <1>5 DEF ClosingInv

\* The steps of a publication leave the records alone.
LEMMA PublishingRecords ==
    ASSUME RecordsInv, step \in Publishing, step' \in Publishing,
           UNCHANGED <<mem, file, history, goal, active>>, \A k : Never(k)' => Never(k)
    PROVE  RecordsInv'
BY DEF RecordsInv, CopyIsCurrent, EndIsUnsaved, HistoryIsCurrent, GoalIsTold, Ending,
       Publishing, Told

\* A step that saves the outcome of the publication.
LEMMA OutcomeRecords ==
    ASSUME ClosingAssumption, ClosingTypes, RecordsInv,
           step \in Publishing, step' = "reporting",
           Saved(mem'), mem'.status = mem.status, UNCHANGED <<goal, active>>,
           \A k : Never(k)' => Never(k)
    PROVE  /\ RecordsInv' /\ file' = mem' /\ history' = Told(mem')
           /\ mem.status \in Endings /\ ends # 0
<1>1. mem = file /\ mem.status \in Endings /\ ends # 0
  BY DEF RecordsInv, CopyIsCurrent, ClosingTypes, Ending, Publishing
<1>2. file' = mem' /\ history' = Told(mem')
  BY <1>1, RunningIsNoEnding DEF Saved
<1>3. CopyIsCurrent' /\ EndIsUnsaved'
  BY <1>2 DEF CopyIsCurrent, EndIsUnsaved
<1>4. HistoryIsCurrent'
  BY <1>2 DEF HistoryIsCurrent, Ending
<1>5. GoalIsTold'
  BY <1>1, <1>2 DEF RecordsInv, GoalIsTold, Publishing
<1>6. QED
  BY <1>1, <1>2, <1>3, <1>4, <1>5 DEF RecordsInv

\* A step while it publishes sends nothing.
LEMMA SentStays ==
    ASSUME PublishInv, step \in Publishing, step' \in Publishing \cup {"reporting"},
           UNCHANGED <<ends, sent>>
    PROVE  SentIsPast' /\ ReportNamesIssue'
BY DEF PublishInv, SentIsPast, ReportNamesIssue, Publishing, Ending

\* A new issue has no comments.
LEMMA CreatedIssues ==
    ASSUME ClosingAssumption, ClosingTypes, PublishInv, issues' = Append(issues, NewIssue)
    PROVE  /\ issues' \in Seq(Issue) /\ Len(issues') = Len(issues) + 1
           /\ issues'[Len(issues) + 1].comments = << >>
           /\ CommentsAreSingle'
<1>1. NewIssue \in Issue /\ NewIssue.comments = << >>
  <2>1. 0 \in 0..Len(Docs) /\ << >> \in Seq(Comment)
    BY RunningIsNoEnding, EmptySeq
  <2>2. QED
    BY <2>1 DEF NewIssue, Issue
<1>2. issues \in Seq(Issue) /\ Len(issues) \in Nat
  BY LenProperties DEF ClosingTypes
<1>3. /\ issues' \in Seq(Issue) /\ Len(issues') = Len(issues) + 1
      /\ issues'[Len(issues) + 1] = NewIssue
      /\ \A i \in 1..Len(issues) : issues'[i] = issues[i]
  BY <1>1, <1>2, AppendProperties
<1>4. ASSUME NEW n \in 1..Len(issues') PROVE Single(issues'[n].comments)
  <2>1. CASE n \in 1..Len(issues)
    BY <1>3, <2>1 DEF PublishInv, CommentsAreSingle
  <2>2. CASE n = Len(issues) + 1
    <3>1. \A s \in Sections : CommentsOf(<< >>, s) = {}
      BY DEF CommentsOf
    <3>2. Single(<< >>)
      BY <3>1 DEF Single
    <3>3. QED
      BY <1>1, <1>3, <2>2, <3>2
  <2>3. QED
    BY <1>2, <1>3, <1>4, <2>1, <2>2
<1>5. CommentsAreSingle'
  BY <1>4 DEF CommentsAreSingle, Single, CommentsOf
<1>6. QED
  BY <1>1, <1>3, <1>5

\* An upsert into the issue being published.
LEMMA UpsertedAreSingle ==
    ASSUME ClosingAssumption, ClosingTypes, PublishInv,
           step = "commenting", next <= Len(Docs[ends]),
           issues' = [issues EXCEPT ![target].comments = Upserted(@, Docs[ends][next])]
    PROVE  /\ CommentsAreSingle'
           /\ Filed(issues'[target].comments, next + 1)
<1>1. PICK comments, upserted : /\ comments = issues[target].comments
                                /\ upserted = Upserted(comments, Docs[ends][next])
  OBVIOUS
<1>2. Single(comments) /\ Filed(comments, next)
  BY <1>1, NextSection DEF PublishInv, CommentsAreSingle, FilingIsTrue
<1>3. Single(upserted) /\ Filed(upserted, next + 1)
  BY <1>1, <1>2, UpsertKeeps
<1>4. issues'[target].comments = upserted
  BY <1>1, UpsertedIssues
<1>5. ASSUME NEW n \in 1..Len(issues') PROVE Single(issues'[n].comments)
  <2>1. n \in 1..Len(issues)
    BY <1>5, UpsertedIssues
  <2>2. CASE n = target
    BY <1>3, <1>4, <2>2
  <2>3. CASE n # target
    BY <2>1, <2>3, UpsertedIssues DEF PublishInv, CommentsAreSingle
  <2>4. QED
    BY <2>2, <2>3
<1>6. CommentsAreSingle'
  BY <1>5 DEF CommentsAreSingle, Single, CommentsOf
<1>7. QED
  BY <1>3, <1>4, <1>6

\* What the query returned, and what is to come, stay as they were.
LEMMA FiledStays ==
    ASSUME NEW comments, NEW n, UNCHANGED <<ends, seen>>, Filed(comments, n)
    PROVE  Filed(comments, n)'
BY DEF Filed, SeenIsOnPage, UnseenIsBeyond, PastIsCurrent, NewestIsCurrent, CommentsOf

LEMMA UpsertKeepsInv ==
    ASSUME ClosingAssumption, ClosingInv, Upsert
    PROVE  ClosingInv'
<1>1. /\ step = "commenting" /\ step' = "commenting" /\ next <= Len(Docs[ends]) /\ next' = next + 1
      /\ issues' = [issues EXCEPT ![target].comments = Upserted(@, Docs[ends][next])]
      /\ UNCHANGED <<ends, mem, file, history, goal, active, sent, target, seen, mishaps>>
  BY DEF Upsert, closing, records, ClosingInv, ClosingTypes
<1>2. /\ issues' \in Seq(Issue) /\ Len(issues') = Len(issues)
      /\ issues'[target].comments = Upserted(issues[target].comments, Docs[ends][next])
      /\ Len(issues[target].comments) <= Len(issues'[target].comments)
      /\ issues[target].comments \in Seq(Comment) /\ issues'[target].comments \in Seq(Comment)
  <2>1. /\ issues' \in Seq(Issue) /\ Len(issues') = Len(issues)
        /\ issues'[target].comments = Upserted(issues[target].comments, Docs[ends][next])
    BY <1>1, UpsertedIssues DEF ClosingInv
  <2>2. /\ Upserted(issues[target].comments, Docs[ends][next]) \in Seq(Comment)
        /\ Len(issues[target].comments)
              <= Len(Upserted(issues[target].comments, Docs[ends][next]))
    BY <1>1, UpsertedIs DEF ClosingInv
  <2>3. QED
    BY <1>1, <2>1, <2>2, NextSection DEF ClosingInv
<1>3. PlacesAreKnown' /\ target' # 0 /\ next' \in Nat
  <2>1. next' \in 1..(Len(Docs[ends]) + 1) /\ target' # 0
    BY <1>1, NextSection DEF ClosingInv
  <2>2. ASSUME NEW k \in DOMAIN seen PROVE seen[k] \in 1..Len(issues'[target].comments)
    <3>1. seen[k] \in 1..Len(issues[target].comments)
      BY <1>1, <2>2 DEF ClosingInv, ClosingTypes, PlacesAreKnown
    <3>2. Len(issues[target].comments) \in Nat /\ Len(issues'[target].comments) \in Nat
      BY <1>2, LenProperties
    <3>3. QED
      BY <1>2, <3>1, <3>2
  <2>3. QED
    BY <1>1, <2>1, <2>2, NextSection DEF PlacesAreKnown, ClosingInv
<1>4. ClosingTypes'
  <2>1. Len(issues) <= Len(issues')
    BY <1>2, LenProperties
  <2>2. Online
    BY <1>1, <1>2, <2>1, RecordsGrow, KnownTypes, UnfaultedNever DEF Online, ClosingInv
  <2>3. step' \in Ending /\ ends # 0 /\ mem'.status \in Endings
    BY <1>1 DEF ClosingInv, ClosingTypes, Ending
  <2>4. QED
    BY <1>3, <2>2, <2>3, OnlineTypes DEF ClosingInv
<1>5. RecordsInv'
  BY <1>1, PublishingRecords, UnfaultedNever DEF ClosingInv, Publishing
<1>6. PublishInv'
  <2>1. CommentsAreSingle' /\ Filed(issues'[target].comments, next + 1)
    BY <1>1, UpsertedAreSingle DEF ClosingInv
  <2>2. FilingIsTrue'
    <3>1. PICK comments, n : comments = issues'[target].comments /\ n = next + 1
      OBVIOUS
    <3>2. Filed(comments, n)'
      BY <1>1, <2>1, <3>1, FiledStays
    <3>3. comments = issues'[target'].comments /\ n = next'
      BY <1>1, <3>1
    <3>4. QED
      BY <3>2, <3>3 DEF FilingIsTrue
  <2>3. SentIsPast' /\ ReportNamesIssue'
    BY <1>1, SentStays DEF ClosingInv, Publishing
  <2>4. IssueIsMissed'
    BY <1>1, <1>2 DEF ClosingInv, PublishInv, IssueIsMissed, Never
  <2>5. QED
    BY <1>1, <2>1, <2>2, <2>3, <2>4 DEF PublishInv, NamesAreCurrent, LeftIsCurrent
<1>7. QED
  BY <1>4, <1>5, <1>6 DEF ClosingInv

\* An issue with no index yet, or with the index of this end.
LEMMA IndexedIssues ==
    ASSUME ClosingAssumption, ClosingTypes, NEW t \in 1..Len(issues), NEW index \in 0..Len(Docs),
           issues' = [issues EXCEPT ![t].index = index]
    PROVE  /\ issues' \in Seq(Issue) /\ Len(issues') = Len(issues)
           /\ issues'[t].index = index
           /\ \A i \in 1..Len(issues) : issues'[i].comments = issues[i].comments
<1>1. issues \in Seq(Issue)
  BY DEF ClosingTypes
<1>2. PICK issue : issue = [issues[t] EXCEPT !.index = index]
  OBVIOUS
<1>3. issue \in Issue /\ issue.comments = issues[t].comments /\ issue.index = index
  <2>1. issues[t] \in Issue
    BY <1>1, ElementOfSeq
  <2>2. QED
    BY <1>2, <2>1 DEF Issue
<1>4. PICK old, new : old = issues /\ new = issues'
  OBVIOUS
<1>5. old \in Seq(Issue) /\ t \in 1..Len(old) /\ new = [old EXCEPT ![t] = issue]
  BY <1>1, <1>2, <1>4
<1>6. /\ new \in Seq(Issue) /\ Len(new) = Len(old) /\ new[t] = issue
      /\ \A j \in 1..Len(old) : j # t => new[j] = old[j]
  BY <1>3, <1>5, IssueIsSet
<1>7. QED
  BY <1>3, <1>4, <1>6

LEMMA FindKeepsInv ==
    ASSUME ClosingAssumption, ClosingInv, Find
    PROVE  ClosingInv'
<1>1. /\ step = "finding" /\ next' = 1
      /\ \E lag \in BOOLEAN :
           /\ IF lag THEN issues # << >> /\ Mishap("lag") ELSE UNCHANGED mishaps
           /\ target' = Found(lag)
      /\ IF target' = 0
         THEN step' = "creating" /\ UNCHANGED <<issues, seen>>
         ELSE /\ step' = "commenting"
              /\ issues' = [issues EXCEPT ![target'].index = 0]
              /\ seen' = Place(issues[target'].comments)
      /\ UNCHANGED <<ends, mem, file, history, goal, active, sent>>
  BY DEF Find, records
<1>2. PICK lag \in BOOLEAN :
        /\ IF lag THEN issues # << >> /\ Mishap("lag") ELSE UNCHANGED mishaps
        /\ target' = Found(lag)
  BY <1>1
<1>3. /\ mishaps' \in [FaultKinds -> Nat] /\ \A k : Never(k)' => Never(k)
      /\ Never("lag")' => ~lag
  BY <1>2, FaultCounts, UnfaultedNever, KnownTypes DEF ClosingInv, ClosingTypes
<1>4. issues \in Seq(Issue) /\ DOMAIN issues = 1..Len(issues) /\ Len(issues) \in Nat
  BY LenProperties DEF ClosingInv, ClosingTypes
<1>5. /\ target' # 0 => target' \in 1..Len(issues)
      /\ target' = 0 /\ ~lag => Len(issues) = 0
  <2>1. PICK from : from = {i \in DOMAIN issues : ~lag}
    OBVIOUS
  <2>2. from \in SUBSET Nat /\ 0 \notin from /\ target' = FirstIssue(from)
    BY <1>2, <1>4, <2>1 DEF Found
  <2>3. /\ target' # 0 => target' \in from
        /\ target' = 0 => from = {}
    BY <2>2, FirstIsOne
  <2>4. Len(issues) # 0 => 1 \in DOMAIN issues
    BY <1>4
  <2>5. QED
    BY <1>4, <2>1, <2>3, <2>4
<1>6. 1 \in 1..(Len(Docs[ends]) + 1)
  <2>1. ends \in 1..Len(Docs)
    BY <1>1, KnownTypes, RunningIsNoEnding DEF ClosingInv, ClosingTypes, Ending
  <2>2. Len(Docs[ends]) \in Nat
    BY <2>1, ElementOfSeq, LenProperties DEF ClosingAssumption
  <2>3. QED
    BY <2>2
<1>7. CASE target' = 0
  <2>1. step' = "creating" /\ UNCHANGED <<issues, seen>>
    BY <1>1, <1>7
  <2>2. ClosingTypes'
    <3>1. Len(issues) <= Len(issues')
      BY <1>4, <2>1
    <3>2. Online
      BY <1>1, <1>3, <1>4, <1>7, <2>1, <3>1, RecordsGrow, KnownTypes DEF Online, ClosingInv
    <3>3. step' \in Ending /\ ends # 0 /\ mem'.status \in Endings
      BY <1>1, <2>1 DEF ClosingInv, ClosingTypes, Ending
    <3>4. QED
      BY <1>1, <2>1, <3>2, <3>3, OnlineTypes DEF ClosingInv
  <2>3. RecordsInv'
    BY <1>1, <1>3, <2>1, PublishingRecords DEF ClosingInv, Publishing
  <2>4. CommentsAreSingle'
    BY <2>1 DEF ClosingInv, PublishInv, CommentsAreSingle, Single, CommentsOf
  <2>5. SentIsPast' /\ ReportNamesIssue'
    BY <1>1, <2>1, SentStays DEF ClosingInv, Publishing
  <2>6. IssueIsMissed'
    BY <1>1, <1>3, <1>5, <1>7, <2>1 DEF ClosingInv, PublishInv, IssueIsMissed
  <2>7. QED
    BY <2>1, <2>2, <2>3, <2>4, <2>5, <2>6
       DEF ClosingInv, PublishInv, FilingIsTrue, NamesAreCurrent, LeftIsCurrent
<1>8. CASE target' # 0
  <2>1. PICK t : t = target'
    OBVIOUS
  <2>2. /\ step' = "commenting" /\ t \in 1..Len(issues)
        /\ issues' = [issues EXCEPT ![t].index = 0] /\ seen' = Place(issues[t].comments)
    BY <1>1, <1>5, <1>8, <2>1
  <2>3. /\ issues' \in Seq(Issue) /\ Len(issues') = Len(issues)
        /\ \A i \in 1..Len(issues) : issues'[i].comments = issues[i].comments
    <3>1. 0 \in 0..Len(Docs)
      BY RunningIsNoEnding
    <3>2. QED
      BY <2>2, <3>1, IndexedIssues DEF ClosingInv
  <2>4. PICK comments : comments = issues[t].comments
    OBVIOUS
  <2>5. comments \in Seq(Comment) /\ issues'[target'].comments = comments
    <3>1. issues[t] \in Issue
      BY <1>4, <2>2, ElementOfSeq
    <3>2. QED
      BY <2>1, <2>2, <2>3, <2>4, <3>1 DEF Issue
  <2>6. /\ \A k \in DOMAIN Place(comments) :
                /\ Place(comments)[k] \in 1..Len(comments) /\ Place(comments)[k] <= PageSize
                /\ comments[Place(comments)[k]].marker = k
        /\ \A j \in 1..Len(comments) :
                j <= PageSize => comments[j].marker \in DOMAIN Place(comments)
    BY <2>5, PlaceIs
  <2>7. ClosingTypes'
    <3>1. Len(issues) <= Len(issues')
      BY <1>4, <2>3
    <3>2. Online
      BY <1>1, <1>3, <2>1, <2>2, <2>3, <3>1, RecordsGrow, KnownTypes DEF Online, ClosingInv
    <3>3. step' \in Ending /\ ends # 0 /\ mem'.status \in Endings
      BY <1>1, <2>2 DEF ClosingInv, ClosingTypes, Ending
    <3>4. PlacesAreKnown' /\ next' \in Nat
      <4>1. next' \in 1..(Len(Docs[ends']) + 1) /\ next' \in Nat
        BY <1>1, <1>6
      <4>2. \A k \in DOMAIN seen' : seen'[k] \in 1..Len(issues'[target'].comments)
        BY <2>2, <2>4, <2>5, <2>6
      <4>3. QED
        BY <4>1, <4>2 DEF PlacesAreKnown
    <3>5. QED
      BY <1>8, <3>2, <3>3, <3>4, OnlineTypes DEF ClosingInv
  <2>8. RecordsInv'
    BY <1>1, <1>3, <2>2, PublishingRecords DEF ClosingInv, Publishing
  <2>9. CommentsAreSingle'
    BY <2>3, CommentsStay DEF ClosingInv
  <2>10. FilingIsTrue'
    <3>1. SeenIsOnPage(comments)'
      BY <2>2, <2>4, <2>6 DEF SeenIsOnPage
    <3>2. UnseenIsBeyond(comments, 1)'
      <4>1. SUFFICES ASSUME NEW m \in 1..Len(Docs[ends]), Marker[Docs[ends][m]] \notin DOMAIN seen',
                            NEW i \in CommentsOf(comments, Docs[ends][m])
                     PROVE  PageSize < i
        BY <1>1 DEF UnseenIsBeyond, CommentsOf
      <4>2. i \in 1..Len(comments) /\ comments[i].marker = Marker[Docs[ends][m]]
        BY <4>1 DEF CommentsOf
      <4>3. ~(i <= PageSize)
        BY <2>2, <2>4, <2>6, <4>1, <4>2
      <4>4. PageSize \in Nat /\ i \in Nat
        BY <2>5, <4>2, LenProperties DEF ClosingAssumption
      <4>5. QED
        BY <4>3, <4>4
    <3>3. PastIsCurrent(comments, 1)'
      <4>1. \A m \in 1..Len(Docs[ends']) : ~(m < 1)
        OBVIOUS
      <4>2. QED
        BY <4>1 DEF PastIsCurrent
    <3>4. Filed(comments, 1)'
      BY <3>1, <3>2, <3>3 DEF Filed
    <3>5. QED
      BY <1>1, <2>5, <3>4 DEF FilingIsTrue
  <2>11. SentIsPast' /\ ReportNamesIssue'
    BY <1>1, <2>2, SentStays DEF ClosingInv, Publishing
  <2>12. IssueIsMissed'
    BY <1>3, <2>2, <2>3 DEF ClosingInv, PublishInv, IssueIsMissed
  <2>13. QED
    BY <2>2, <2>7, <2>8, <2>9, <2>10, <2>11, <2>12
       DEF ClosingInv, PublishInv, NamesAreCurrent, LeftIsCurrent
<1>9. QED
  BY <1>7, <1>8

LEMMA CreateKeepsInv ==
    ASSUME ClosingAssumption, ClosingInv, Create
    PROVE  ClosingInv'
<1>1. /\ step = "creating" /\ step' = "commenting" /\ issues' = Append(issues, NewIssue)
      /\ target' = Len(issues) + 1 /\ seen' = << >>
      /\ UNCHANGED <<ends, mem, file, history, goal, active, sent, next, mishaps>>
  BY DEF Create, Go, records
<1>2. /\ issues' \in Seq(Issue) /\ Len(issues') = Len(issues) + 1
      /\ issues'[target'].comments = << >> /\ CommentsAreSingle'
  BY <1>1, CreatedIssues DEF ClosingInv
<1>3. Len(issues) \in Nat /\ Len(issues) <= Len(issues')
      /\ target' \in 0..Len(issues') /\ target' # 0
  <2>1. Len(issues) \in Nat
    BY LenProperties DEF ClosingInv, ClosingTypes
  <2>2. QED
    BY <1>1, <1>2, <2>1
<1>4. next = 1 /\ Len(Docs[ends]) \in Nat
  <2>1. ends \in 1..Len(Docs)
    BY <1>1, KnownTypes, RunningIsNoEnding DEF ClosingInv, ClosingTypes, Ending
  <2>2. QED
    BY <1>1, <2>1, ElementOfSeq, LenProperties
       DEF ClosingAssumption, ClosingInv, PublishInv, IssueIsMissed
<1>5. ClosingTypes'
  <2>1. Online
    BY <1>1, <1>2, <1>3, RecordsGrow, KnownTypes, UnfaultedNever DEF Online, ClosingInv
  <2>2. step' \in Ending /\ ends # 0 /\ mem'.status \in Endings
    BY <1>1 DEF ClosingInv, ClosingTypes, Ending
  <2>3. PlacesAreKnown' /\ next' \in Nat
    <3>1. next' = 1 /\ 1 \in 1..(Len(Docs[ends]) + 1)
      BY <1>1, <1>4
    <3>2. DOMAIN seen' = {}
      BY <1>1
    <3>3. QED
      BY <1>1, <3>1, <3>2 DEF PlacesAreKnown
  <2>4. QED
    BY <1>3, <2>1, <2>2, <2>3, OnlineTypes DEF ClosingInv
<1>6. RecordsInv'
  BY <1>1, PublishingRecords, UnfaultedNever DEF ClosingInv, Publishing
<1>7. FilingIsTrue'
  <2>1. Filed(<< >>, 1)'
    <3>1. \A s : CommentsOf(<< >>, s)' = {}
      BY DEF CommentsOf
    <3>2. SeenIsOnPage(<< >>)'
      BY <1>1 DEF SeenIsOnPage
    <3>3. UnseenIsBeyond(<< >>, 1)'
      BY <3>1 DEF UnseenIsBeyond
    <3>4. PastIsCurrent(<< >>, 1)'
      <4>1. \A m \in 1..Len(Docs[ends']) : ~(m < 1)
        OBVIOUS
      <4>2. QED
        BY <4>1 DEF PastIsCurrent
    <3>5. QED
      BY <3>2, <3>3, <3>4 DEF Filed
  <2>2. QED
    BY <1>1, <1>2, <1>4, <2>1 DEF FilingIsTrue
<1>8. SentIsPast' /\ ReportNamesIssue'
  BY <1>1, SentStays DEF ClosingInv, Publishing
<1>9. IssueIsMissed'
  BY <1>1, <1>2 DEF ClosingInv, PublishInv, IssueIsMissed, Never
<1>10. QED
  BY <1>1, <1>2, <1>5, <1>6, <1>7, <1>8, <1>9
     DEF ClosingInv, PublishInv, NamesAreCurrent, LeftIsCurrent

\* Of a step that ends the publication: the records, and so the types.
LEMMA OutcomeKeeps ==
    ASSUME ClosingAssumption, ClosingInv, step \in Publishing, step' = "reporting",
           issues' \in Seq(Issue), Len(issues) <= Len(issues'),
           mem' \in Record', Saved(mem'), mem'.status = mem.status,
           UNCHANGED <<ends, goal, active, sent, target, next>>,
           mishaps' \in [FaultKinds -> Nat], \A k : Never(k)' => Never(k)
    PROVE  ClosingTypes' /\ RecordsInv' /\ SentIsPast' /\ ReportNamesIssue'
<1>1. /\ RecordsInv' /\ file' = mem' /\ history' = Told(mem')
      /\ mem.status \in Endings /\ ends # 0
  BY OutcomeRecords DEF ClosingInv
<1>2. history' \in [status : Status, issue : 0..Len(issues')]
  BY <1>1 DEF Told, Record
<1>3. Online
  BY <1>1, <1>2, RecordsGrow DEF Online, ClosingInv
<1>4. next' \in Nat /\ step' \in Ending
  BY DEF ClosingInv, ClosingTypes, ClosingTypeOK, Ending
<1>5. ClosingTypes'
  BY <1>1, <1>3, <1>4, OnlineTypes DEF ClosingInv
<1>6. QED
  BY <1>1, <1>5, SentStays DEF ClosingInv

LEMMA PublishedKeepsInv ==
    ASSUME ClosingAssumption, ClosingInv, Published
    PROVE  ClosingInv'
<1>1. /\ step = "commenting" /\ step' = "reporting" /\ next > Len(Docs[ends])
      /\ issues' = [issues EXCEPT ![target].index = ends]
      /\ mem' = [mem EXCEPT !.issue = target, !.publish = "published"]
      /\ Saved(mem')
      /\ UNCHANGED <<ends, goal, active, sent, target, seen, next, mishaps>>
  BY DEF Published
<1>2. target \in 1..Len(issues) /\ ends \in 0..Len(Docs)
  BY <1>1, NextSection, KnownTypes DEF ClosingInv
<1>3. /\ issues' \in Seq(Issue) /\ Len(issues') = Len(issues) /\ issues'[target].index = ends
      /\ \A i \in 1..Len(issues) : issues'[i].comments = issues[i].comments
  <2>1. PICK t, index : t = target /\ index = ends
    OBVIOUS
  <2>2. /\ t \in 1..Len(issues) /\ index \in 0..Len(Docs)
        /\ issues' = [issues EXCEPT ![t].index = index]
    BY <1>1, <1>2, <2>1
  <2>3. QED
    BY <2>1, <2>2, IndexedIssues DEF ClosingInv
<1>4. /\ mem' \in Record' /\ mem'.status = mem.status
      /\ mem'.issue = target /\ mem'.publish = "published"
  BY <1>1, <1>3, KnownTypes DEF Record, ClosingInv
<1>5. ClosingTypes' /\ RecordsInv' /\ SentIsPast' /\ ReportNamesIssue'
  <2>1. Len(issues) <= Len(issues')
    BY <1>3, LenProperties
  <2>2. mishaps' \in [FaultKinds -> Nat] /\ \A k : Never(k)' => Never(k)
    BY <1>1, UnfaultedNever, KnownTypes DEF ClosingInv
  <2>3. QED
    BY <1>1, <1>3, <1>4, <2>1, <2>2, OutcomeKeeps DEF Publishing
<1>6. CommentsAreSingle'
  BY <1>3, CommentsStay DEF ClosingInv
<1>7. NamesAreCurrent'
  BY <1>1, <1>2, <1>3, <1>4 DEF NamesAreCurrent
<1>8. LeftIsCurrent'
  <2>1. PICK comments : comments = issues[target].comments
    OBVIOUS
  <2>2. PastIsCurrent(comments, next) /\ next = Len(Docs[ends]) + 1
    <3>1. PastIsCurrent(comments, next)
      BY <1>1, <2>1 DEF ClosingInv, PublishInv, FilingIsTrue, Filed
    <3>2. next \in 1..(Len(Docs[ends]) + 1) /\ Len(Docs[ends]) \in Nat
      BY <1>1, NextSection DEF ClosingInv
    <3>3. next = Len(Docs[ends]) + 1
      <4>1. next > Len(Docs[ends])
        BY <1>1
      <4>2. QED
        BY <3>2, <4>1
    <3>4. QED
      BY <3>1, <3>3
  <2>3. PICK n : n = next
    OBVIOUS
  <2>4. PastIsCurrent(comments, n)'
    BY <1>1, <2>2, <2>3, PastStays
  <2>5. issues'[mem'.issue].comments = comments /\ n = Len(Docs[ends']) + 1
    BY <1>1, <1>2, <1>3, <1>4, <2>1, <2>2, <2>3
  <2>6. QED
    BY <2>4, <2>5 DEF LeftIsCurrent
<1>9. IssueIsMissed'
  BY <1>1, <1>3 DEF ClosingInv, PublishInv, IssueIsMissed, Never
<1>10. QED
  BY <1>1, <1>5, <1>6, <1>7, <1>8, <1>9 DEF ClosingInv, PublishInv, FilingIsTrue

LEMMA PublishFailsKeepsInv ==
    ASSUME ClosingAssumption, ClosingInv, PublishFails
    PROVE  ClosingInv'
<1>1. /\ step \in Publishing /\ step' = "reporting"
      /\ \/ Mishap("gh") /\ UNCHANGED issues
         \/ Mishap("unacked") /\ issues' = Effect
      /\ mem' = [mem EXCEPT !.issue = 0, !.publish = "failed"]
      /\ Saved(mem')
      /\ UNCHANGED <<ends, goal, active, sent, target, seen, next>>
  BY DEF PublishFails
<1>2. mishaps' \in [FaultKinds -> Nat] /\ \A k : Never(k)' => Never(k)
  BY <1>1, FaultCounts DEF ClosingInv, ClosingTypes
<1>3. issues \in Seq(Issue) /\ Len(issues) \in Nat
  BY LenProperties DEF ClosingInv, ClosingTypes
\* The command had no effect, or that of a creation or an upsert.
<1>4. /\ issues' \in Seq(Issue) /\ Len(issues) <= Len(issues')
      /\ CommentsAreSingle'
      /\ Never("lag") => Len(issues') <= 1
  <2>1. CASE UNCHANGED issues
    BY <1>3, <2>1
       DEF ClosingInv, PublishInv, CommentsAreSingle, Single, CommentsOf, IssueIsMissed
  <2>2. CASE step = "creating" /\ issues' = Append(issues, NewIssue)
    <3>1. issues' \in Seq(Issue) /\ Len(issues') = Len(issues) + 1 /\ CommentsAreSingle'
      BY <2>2, CreatedIssues DEF ClosingInv
    <3>2. Never("lag") => Len(issues) = 0
      BY <2>2 DEF ClosingInv, PublishInv, IssueIsMissed
    <3>3. QED
      BY <1>3, <3>1, <3>2
  <2>3. CASE /\ step = "commenting" /\ next <= Len(Docs[ends])
             /\ issues' = [issues EXCEPT ![target].comments = Upserted(@, Docs[ends][next])]
    <3>1. issues' \in Seq(Issue) /\ Len(issues') = Len(issues)
      BY <2>3, UpsertedIssues DEF ClosingInv
    <3>2. CommentsAreSingle'
      BY <2>3, UpsertedAreSingle DEF ClosingInv
    <3>3. QED
      BY <1>3, <3>1, <3>2 DEF ClosingInv, PublishInv, IssueIsMissed
  <2>4. QED
    BY <1>1, <2>1, <2>2, <2>3 DEF Effect
<1>5. /\ mem' \in Record' /\ mem'.status = mem.status
      /\ mem'.issue = 0 /\ mem'.publish = "failed"
  <2>1. 0 \in 0..Len(issues')
    BY <1>4, LenProperties
  <2>2. QED
    BY <1>1, <2>1, KnownTypes DEF Record, ClosingInv
<1>6. ClosingTypes' /\ RecordsInv' /\ SentIsPast' /\ ReportNamesIssue'
  BY <1>1, <1>2, <1>4, <1>5, OutcomeKeeps
<1>7. NamesAreCurrent' /\ LeftIsCurrent' /\ FilingIsTrue' /\ IssueIsMissed'
  BY <1>1, <1>2, <1>4, <1>5 DEF NamesAreCurrent, LeftIsCurrent, FilingIsTrue, IssueIsMissed
<1>8. QED
  BY <1>4, <1>6, <1>7 DEF ClosingInv, PublishInv

LEMMA QuietKeepsInv ==
    ASSUME ClosingAssumption, ClosingInv,
           Archived \/ SaveEnd \/ TellGoal \/ Clear \/ Resume \/ RestartSprint \/ ProcessDies
    PROVE  ClosingInv'
<1>1. /\ UNCHANGED <<ends, issues, sent>>
      /\ step' \in Ending => step \in Ending \ {"clearing"}
      /\ step' \notin {"creating", "commenting", "reporting", "clearing"}
  BY DEF Archived, SaveEnd, TellGoal, Clear, Resume, RestartSprint, ProcessDies, Go,
         github, Ending
<1>2. \A k : Never(k)' => Never(k)
  BY FaultCounts, UnfaultedNever
     DEF Archived, SaveEnd, TellGoal, Clear, Resume, RestartSprint,
     ProcessDies, ClosingInv, ClosingTypes
<1>3. PublishInv'
  BY <1>1, <1>2, QuietPublish DEF ClosingInv
<1>4. ClosingTypes' /\ RecordsInv'
  BY ArchivedRecords, SaveEndRecords, TellGoalRecords, ClearRecords, ResumeRecords,
         RestartRecords,
     CrashRecords DEF ClosingInv
<1>5. QED
  BY <1>3, <1>4 DEF ClosingInv

LEMMA StutterKeepsInv ==
    ASSUME ClosingInv, UNCHANGED closingVars
    PROVE  ClosingInv'
<1>1. /\ UNCHANGED <<step, ends, mem, file, history, goal, active, sent, issues>>
      /\ UNCHANGED <<target, seen, next, mishaps>>
  BY DEF closingVars, closing, records, github
<1>2. ClosingTypes'
  BY <1>1 DEF ClosingInv, ClosingTypes, ClosingTypeOK, Record, PlacesAreKnown
<1>3. RecordsInv'
  BY <1>1 DEF ClosingInv, RecordsInv, CopyIsCurrent, EndIsUnsaved, HistoryIsCurrent,
         GoalIsTold, Agreed,
     Resumes, Told, Never
<1>4. PublishInv'
  BY <1>1 DEF ClosingInv, PublishInv, CommentsAreSingle, Single, FilingIsTrue, Filed,
         SeenIsOnPage,
     UnseenIsBeyond, PastIsCurrent, NewestIsCurrent, CommentsOf, IssueIsMissed, NamesAreCurrent,
     LeftIsCurrent, SentIsPast, ReportNamesIssue, Never
<1>5. QED
  BY <1>2, <1>3, <1>4 DEF ClosingInv

LEMMA StepKeepsInv ==
    ASSUME ClosingAssumption, ClosingInv, [ClosingNext]_closingVars
    PROVE  ClosingInv'
<1>1. CASE \/ Archived \/ SaveEnd \/ TellGoal \/ Clear
           \/ Resume \/ RestartSprint \/ ProcessDies
  BY <1>1, QuietKeepsInv
<1>2. CASE \E ending \in Endings : End(ending)
  BY <1>2, EndRecords, EndPublish DEF ClosingInv
<1>3. CASE Report
  BY <1>3, ReportRecords, ReportPublish DEF ClosingInv
<1>4. CASE Find
  BY <1>4, FindKeepsInv
<1>5. CASE Create
  BY <1>5, CreateKeepsInv
<1>6. CASE Upsert
  BY <1>6, UpsertKeepsInv
<1>7. CASE Published
  BY <1>7, PublishedKeepsInv
<1>8. CASE PublishFails
  BY <1>8, PublishFailsKeepsInv
<1>9. CASE UserCloses
  BY <1>9, UserClosesKeeps
<1>10. CASE UNCHANGED closingVars
  BY <1>10, StutterKeepsInv
<1>11. QED
  BY <1>1, <1>2, <1>3, <1>4, <1>5, <1>6, <1>7, <1>8, <1>9, <1>10 DEF ClosingNext, Closing

LEMMA ClosingInvHolds == ASSUME ClosingAssumption PROVE ClosingSpec => []ClosingInv
<1>1. ClosingInit => ClosingInv
  BY InitRecords, InitPublish DEF ClosingInv
<1>2. ClosingInv /\ [ClosingNext]_closingVars => ClosingInv'
  BY StepKeepsInv
<1>3. QED
  BY <1>1, <1>2, PTL DEF ClosingSpec

\* Wherever the orchestrator stopped and however it was started again: once a sprint
\* has ended, its history says what its record says, and names the same issue unless
\* a save was torn; and its goal was told, unless it stopped at all.
THEOREM RecordsAgreeAtTheEnd == ClosingSpec => []RecordsAgree
<1> USE ClosingAssumption
<1>1. ClosingInv => RecordsAgree
  <2>1. SUFFICES ASSUME ClosingInv, step = "ended" PROVE RecordsAgree
    BY DEF RecordsAgree
  <2>2. Agreed /\ (Never("torn") /\ Never("crash") => goal = file.status)
    BY <2>1 DEF ClosingInv, RecordsInv, HistoryIsCurrent, GoalIsTold
  <2>3. QED
    BY <2>2 DEF RecordsAgree, Agreed
<1>2. QED
  BY <1>1, ClosingInvHolds, PTL

\* A publication that ended left every section current, and single if all fit.
LEMMA InvIsCurrent ==
    ASSUME ClosingAssumption, ClosingInv
    PROVE  IssueIsCurrent
<1>1. SUFFICES ASSUME step = "reporting", mem.publish = "published",
                      NEW s \in ToSet(Docs[ends]), OwnMarker(s)
               PROVE  LET comments == issues[mem.issue].comments
                          own == {i \in DOMAIN comments : comments[i].marker = Marker[s]} IN
                      /\ \E i \in own : /\ comments[i].end = ends /\ comments[i].section = s
                                        /\ \A j \in own : j <= i
                      /\ Len(comments) <= PageSize => \A i, j \in own : i = j
  BY DEF IssueIsCurrent, OwnMarker
<1>2. PICK comments : comments = issues[mem.issue].comments
  OBVIOUS
<1>3. PICK own : own = {i \in DOMAIN comments : comments[i].marker = Marker[s]}
  OBVIOUS
<1>4. mem.issue \in 1..Len(issues) /\ ends \in 1..Len(Docs)
  <2>1. mem.issue # 0 /\ mem.issue \in 0..Len(issues)
    BY <1>1, KnownTypes DEF ClosingInv, PublishInv, NamesAreCurrent, Record
  <2>2. Len(issues) \in Nat
    BY LenProperties DEF ClosingInv, ClosingTypes
  <2>3. ends # 0
    BY <1>1 DEF ClosingInv, ClosingTypes, Ending
  <2>4. QED
    BY <2>1, <2>2, <2>3, KnownTypes, RunningIsNoEnding DEF ClosingInv
<1>5. comments \in Seq(Comment) /\ Single(comments)
  <2>1. issues[mem.issue] \in Issue
    BY <1>4, ElementOfSeq DEF ClosingInv, ClosingTypes
  <2>2. QED
    BY <1>4, <1>2, <2>1 DEF Issue, ClosingInv, PublishInv, CommentsAreSingle
<1>6. own = CommentsOf(comments, s) /\ own \subseteq Nat
  BY <1>5, <1>3, LenProperties DEF CommentsOf
<1>7. NewestIsCurrent(comments, s) /\ s \in Sections
  <2>1. Docs[ends] \in Seq(Sections)
    BY <1>4, ElementOfSeq DEF ClosingAssumption
  <2>2. PICK m \in 1..Len(Docs[ends]) : s = Docs[ends][m]
    <3>1. PICK i \in DOMAIN Docs[ends] : s = Docs[ends][i]
      BY <1>1 DEF ToSet
    <3>2. QED
      BY <2>1, <3>1, LenProperties
  <2>3. m < Len(Docs[ends]) + 1
    BY <2>1, LenProperties
  <2>4. PastIsCurrent(comments, Len(Docs[ends]) + 1)
    BY <1>1, <1>2 DEF ClosingInv, PublishInv, LeftIsCurrent
  <2>5. NewestIsCurrent(comments, s)
    BY <1>1, <2>2, <2>3, <2>4 DEF PastIsCurrent
  <2>6. QED
    BY <2>1, <2>2, <2>5, ElementOfSeq
<1>8. ASSUME NEW i \in own, NEW j \in own, i < j, Len(comments) <= PageSize
      PROVE  FALSE
  <2>1. PageSize < i /\ i \in 1..Len(comments) /\ PageSize \in Nat /\ Len(comments) \in Nat
    BY <1>1, <1>5, <1>6, <1>7, <1>8, LenProperties DEF Single, CommentsOf, ClosingAssumption
  <2>2. QED
    BY <1>8, <2>1
<1>9. Len(comments) <= PageSize => \A i, j \in own : i = j
  <2>1. SUFFICES ASSUME Len(comments) <= PageSize, NEW i \in own, NEW j \in own PROVE i = j
    OBVIOUS
  <2>2. ~(i < j) /\ ~(j < i)
    BY <1>8, <2>1
  <2>3. QED
    BY <1>6, <2>2
<1>10. \E i \in own : /\ comments[i].end = ends /\ comments[i].section = s
                    /\ \A j \in own : j <= i
  BY <1>6, <1>7 DEF NewestIsCurrent
<1>11. QED
  BY <1>9, <1>10, <1>2, <1>3

\* However often the sprint ends, its commands fail or the user closes its issue: it
\* has one issue if the search tells, a successful publication leaves each section as
\* it was at that end and only once, and no report names an issue that is not about
\* its end.
THEOREM IssueIsPublishedOnce == ClosingSpec => []PublishedOnce
<1> USE ClosingAssumption
<1>1. ClosingInv => PublishedOnce
  <2>1. SUFFICES ASSUME ClosingInv PROVE PublishedOnce
    OBVIOUS
  <2>2. ClosingTypeOK /\ ReportNamesIssue /\ OneIssue
    BY <2>1 DEF ClosingInv, ClosingTypes, PublishInv, IssueIsMissed, OneIssue
  <2>3. QED
    BY <2>1, <2>2, InvIsCurrent DEF PublishedOnce
<1>2. QED
  BY <1>1, ClosingInvHolds, PTL

-----------------------------------------------------------------------------
(* Every end is finished *)

\* The scheduler keeps the sprint until the end lets it go, and then only one that may
\* still go on.
SchedulerFollows ==
    /\ step \in Ending \cup {"running"} => active
    /\ step = "down" => active \/ ~StaysActive(file.status)
    /\ step = "ended" => active = StaysActive(file.status)

\* How many steps of its loop an end still has before it, at most.
StepsLeft ==
    LET sections == Len(Docs[ends]) IN
    CASE step = "drafted"    -> sections + 9
      [] step = "archived"   -> sections + 8
      [] step = "saved"      -> sections + 7
      [] step = "finding"    -> sections + 6
      [] step = "creating"   -> sections + 5
      [] step = "commenting" -> sections + 5 - next
      [] step = "reporting"  -> 3
      [] step = "clearing"   -> 2
      [] step = "down"       -> 1
      [] OTHER               -> 0

\* Nothing sets an end back, and each step of the loop brings it nearer.
EndNears ==
    step \notin {"running", "ended"} =>
        /\ StepsLeft' <= StepsLeft
        /\ Closing => StepsLeft' < StepsLeft

LEMMA SchedulerStep ==
    ASSUME ClosingAssumption, ClosingInv, SchedulerFollows, [ClosingNext]_closingVars
    PROVE  SchedulerFollows'
<1>1. step \in Ending \cup {"running", "ended", "down"} /\ active \in BOOLEAN
  BY KnownSteps, KnownTypes DEF ClosingInv
<1>2. CASE /\ UNCHANGED active
           /\ step' \in Ending \cup {"running"} /\ step \in Ending \cup {"running"}
  BY <1>1, <1>2 DEF SchedulerFollows, Ending
<1>3. CASE UNCHANGED <<step, active, file>>
  BY <1>3 DEF SchedulerFollows
<1>4. CASE Archived \/ SaveEnd \/ TellGoal \/ Report \/ \E ending \in Endings : End(ending)
  BY <1>2, <1>4 DEF Archived, SaveEnd, TellGoal, Report, End, Go, Ending, records
<1>5. CASE Find \/ Create \/ Published \/ PublishFails
  BY <1>2, <1>5 DEF Find, Create, Published, PublishFails, Go, Ending, Publishing, records
<1>6. CASE Upsert \/ UserCloses \/ UNCHANGED closingVars
  BY <1>3, <1>6 DEF Upsert, UserCloses, closing, records, closingVars
<1>7. CASE Clear
  BY <1>7 DEF Clear, Go, SchedulerFollows, ClosingInv, RecordsInv, CopyIsCurrent, Ending
<1>8. CASE Resume
  <2>1. /\ step = "down" /\ file' = file
        /\ active' = (active /\ (Resumes \/ StaysActive(file.status)))
        /\ step' = IF Resumes THEN "running" ELSE "ended"
    BY <1>8 DEF Resume
  <2>2. active \/ ~StaysActive(file.status)
    BY <2>1 DEF SchedulerFollows
  <2>3. CASE Resumes
    BY <2>1, <2>3 DEF SchedulerFollows, Resumes, Ending
  <2>4. CASE ~Resumes
    <3>1. active' = (active /\ StaysActive(file.status)) /\ step' = "ended"
      BY <2>1, <2>4
    <3>2. active' = StaysActive(file.status)
      BY <1>1, <2>2, <3>1, Zenon DEF StaysActive
    <3>3. active' = StaysActive(file'.status)
      BY <2>1, <3>2
    <3>4. QED BY <3>1, <3>3 DEF SchedulerFollows, Ending
  <2>5. QED BY <2>3, <2>4
<1>9. CASE RestartSprint
  BY <1>9 DEF RestartSprint, Go, SchedulerFollows, Ending
<1>10. CASE ProcessDies
  <2>1. step' = "down" /\ step # "down" /\ UNCHANGED <<active, file>>
    BY <1>10 DEF ProcessDies
  <2>2. active \/ ~StaysActive(file.status)
    BY <1>1, <2>1 DEF SchedulerFollows
  <2>3. QED BY <2>1, <2>2 DEF SchedulerFollows, Ending
<1>11. QED
  BY <1>4, <1>5, <1>6, <1>7, <1>8, <1>9, <1>10 DEF ClosingNext, Closing

\* A step leads from one place of the loop to a later one.
LEMMA EndStep ==
    ASSUME ClosingAssumption, ClosingInv, ClosingNext, step \notin {"running", "ended"}
    PROVE  EndNears
<1>1. /\ ends \in 0..Len(Docs) /\ Len(Docs) \in Nat
      /\ step \in Ending \cup {"down"} /\ (step = "commenting" => PlacesAreKnown)
      /\ step \in Ending => ends # 0
  BY KnownSteps, KnownTypes, RunningIsNoEnding DEF ClosingInv, ClosingTypes
<1>2. ends' = ends
  <2>1. CASE Archived \/ SaveEnd \/ TellGoal \/ Report \/ Clear
    BY <2>1 DEF Archived, SaveEnd, TellGoal, Report, Clear
  <2>2. CASE Find \/ Create \/ Upsert \/ Published \/ PublishFails
    BY <2>2 DEF Find, Create, Upsert, Published, PublishFails, closing
  <2>3. CASE UserCloses \/ ProcessDies \/ Resume \/ RestartSprint
    BY <2>3 DEF UserCloses, ProcessDies, Resume, RestartSprint, closing
  <2>4. \A ending \in Endings : ~End(ending)
    BY DEF End, Go
  <2>5. QED BY <2>1, <2>2, <2>3, <2>4 DEF ClosingNext, Closing
<1>3. step \in Ending => Len(Docs[ends]) \in Nat
  <2>1. SUFFICES ASSUME ends # 0 PROVE Len(Docs[ends]) \in Nat
    BY <1>1
  <2>2. Docs[ends] \in Seq(Sections)
    BY <1>1, <2>1, ElementOfSeq DEF ClosingAssumption
  <2>3. QED BY <2>2, LenProperties
<1>4. PICK sections : sections = Len(Docs[ends])
  OBVIOUS
<1>5. /\ Len(Docs[ends']) = sections
      /\ step \in Ending => sections \in Nat
      /\ step = "commenting" => next \in 1..(sections + 1)
  BY <1>1, <1>2, <1>3, <1>4 DEF PlacesAreKnown
<1>6. CASE Archived \/ SaveEnd \/ TellGoal \/ Report \/ Clear
  <2>1. \/ step = "drafted" /\ step' = "archived"
        \/ step = "archived" /\ step' = "saved"
        \/ step = "saved" /\ step' = "finding"
        \/ step = "reporting" /\ step' = "clearing"
        \/ step = "clearing" /\ step' = "ended"
    BY <1>6 DEF Archived, SaveEnd, TellGoal, Report, Clear, Go
  <2>2. StepsLeft' < StepsLeft /\ StepsLeft' <= StepsLeft
    BY <1>4, <1>5, <2>1 DEF StepsLeft, Ending
  <2>3. QED BY <2>2 DEF EndNears
<1>7. CASE Find \/ Create
  <2>1. \/ step = "finding" /\ step' = "creating"
        \/ step = "finding" /\ step' = "commenting" /\ next' = 1
        \/ step = "creating" /\ step' = "commenting" /\ next' = 1
    BY <1>7 DEF Find, Create, Go, ClosingInv, PublishInv, IssueIsMissed
  <2>2. StepsLeft' < StepsLeft /\ StepsLeft' <= StepsLeft
    BY <1>4, <1>5, <2>1 DEF StepsLeft, Ending
  <2>3. QED BY <2>2 DEF EndNears
<1>8. CASE Upsert
  <2>1. /\ step = "commenting" /\ step' = "commenting" /\ next' = next + 1
    BY <1>8 DEF Upsert, closing
  <2>2. StepsLeft' < StepsLeft /\ StepsLeft' <= StepsLeft
    BY <1>4, <1>5, <2>1 DEF StepsLeft, Ending
  <2>3. QED BY <2>2 DEF EndNears
<1>9. CASE Published \/ PublishFails
  <2>1. step \in Publishing /\ step' = "reporting"
    BY <1>9 DEF Published, PublishFails, Publishing
  <2>2. StepsLeft' < StepsLeft /\ StepsLeft' <= StepsLeft
    BY <1>4, <1>5, <2>1 DEF StepsLeft, Ending, Publishing
  <2>3. QED BY <2>2 DEF EndNears
<1>10. CASE Resume
  <2>1. step = "down" /\ step' \in {"running", "ended"}
    BY <1>10 DEF Resume
  <2>2. StepsLeft' < StepsLeft /\ StepsLeft' <= StepsLeft
    BY <2>1 DEF StepsLeft
  <2>3. QED BY <2>2 DEF EndNears
<1>11. CASE UserCloses
  <2>1. step' = step /\ next' = next /\ Mishap("closed")
    BY <1>11 DEF UserCloses, closing
  <2>2. StepsLeft' = StepsLeft
    BY <1>2, <2>1 DEF StepsLeft
  <2>3. StepsLeft \in Int
    BY <1>1, <1>4, <1>5 DEF StepsLeft, Ending
  <2>4. ~Closing
    <3>1. Upsert => next' = next + 1 /\ next \in Nat /\ next' # next
      BY <1>5, <1>3 DEF Upsert
    <3>2. Closing => Upsert \/ step' # step
      BY DEF Closing, Archived, SaveEnd, TellGoal, Find, Create, Published, Report, Clear,
         Resume, Go
    <3>3. QED BY <2>1, <3>1, <3>2
  <2>5. QED BY <2>2, <2>3, <2>4 DEF EndNears
<1>12. CASE ProcessDies
  <2>1. step # "down" /\ step' = "down" /\ step \in Ending
    BY <1>1, <1>12 DEF ProcessDies
  <2>2. StepsLeft' < StepsLeft /\ StepsLeft' <= StepsLeft
    BY <1>4, <1>5, <2>1 DEF StepsLeft, Ending
  <2>3. QED BY <2>2 DEF EndNears
<1>13. ~RestartSprint /\ \A ending \in Endings : ~End(ending)
  BY DEF RestartSprint, End, Go
<1>14. QED
  BY <1>6, <1>7, <1>8, <1>9, <1>10, <1>11, <1>12, <1>13 DEF ClosingNext, Closing

\* What EndIsFinished rests on: an end that began takes so many steps of its loop at most,
\* whatever fails, until it is over or its process stops and the sprint is resumed, and
\* then the scheduler has kept it only if it may still go on (lifecycle.py
\* finish_scheduler_after_sprint, resume_active_sprint).
THEOREM EndsComeNearer == ClosingSpec => []SchedulerFollows /\ [][EndNears]_closingVars
<1> USE ClosingAssumption
<1>1. ClosingInit => SchedulerFollows
  BY DEF ClosingInit, SchedulerFollows
<1>2. ClosingInv /\ SchedulerFollows /\ [ClosingNext]_closingVars => SchedulerFollows'
  BY SchedulerStep
<1>3. ClosingInv /\ [ClosingNext]_closingVars => [EndNears]_closingVars
  <2>1. ASSUME step \in {"running", "ended"} PROVE EndNears
    BY <2>1 DEF EndNears
  <2>2. QED BY <2>1, EndStep
<1>4. QED
  BY <1>1, <1>2, <1>3, ClosingInvHolds, PTL DEF ClosingSpec

=============================================================================
