-------------------------- MODULE SprintTodoProofs --------------------------
(***************************************************************************)
(* Theorems about SprintTodo, for any todos, wishes and faults and for any *)
(* bounds: todos, requests, worktree and requirements of a sprint stay in  *)
(* step, as long as no wish puts an old copy of an ended sprint back, and  *)
(* a todo has two requests at most.                                        *)
(***************************************************************************)
EXTENDS SprintTodo, FiniteSetTheorems, WellFoundedInduction, TLAPS

\* A wish that is filed when no sprint is active would write the copy its handler
\* loaded before.
PutsOldBack == ~active /\ \E w \in Wishes : Capture(w)
NoneIsPutBack == [][~PutsOldBack]_vars

-----------------------------------------------------------------------------
(* A todo and its requests *)

\* What is ever written to a request's record.
RequestShapes ==
    {NoRequest, [status |-> "delegated", result |-> "none"],
     [status |-> "delegated", result |-> "completed"]}
    \cup {[status |-> s, result |-> s] :
             s \in {"completed", "failed", "blocked", "uncommitted", "committed"}}
    \cup {[status |-> "cancelled", result |-> r] :
             r \in {"none", "completed", "failed", "blocked", "committed"}}

AllShapes == [Todos -> [Tries -> RequestShapes]]

Made(q) == q.status # "none"
\* A request that ended blocked stays so, and may be retired.
Dead(q) == q.result = "blocked"
\* How the loop counts a request that was answered.
Settled(q) == FinalStatus(IF q.result = "none" THEN q.status ELSE q.result)

\* A todo that follows request n was stamped after its last save at most once, and
\* then with what the request came to.
Follows(x, n, qs) ==
    /\ x.request = n /\ Made(qs[n]) /\ x.status # "absent"
    /\ x.stamp <= 2 * n
    /\ x.stamp = 2 * n => x.status = Settled(qs[n]) /\ qs[n].status # "delegated"
NoneAfter(n, qs) == \A k \in Tries : k > n => ~Made(qs[k])

\* A todo has at most two requests: a second one is made only when the first, dead,
\* is retired.  When that is dead too, restarts alternate between the two.
Unmade(x, qs) ==
    /\ NoneAfter(0, qs) /\ x.request = 0 /\ x.retired = 0 /\ x.stamp = 0
    /\ x.status \in {"absent", "queued", "running"}
First(x, qs) == NoneAfter(1, qs) /\ x.retired = 0 /\ Follows(x, 1, qs)
Retired(x, qs) ==
    /\ NoneAfter(1, qs) /\ Dead(qs[1])
    /\ x.request = 0 /\ x.retired = 1 /\ x.stamp <= 2 /\ x.status \in {"queued", "running"}
Second(x, qs) ==
    /\ 2 \in Tries /\ NoneAfter(2, qs) /\ Dead(qs[1]) /\ x.retired = 1 /\ Follows(x, 2, qs)
Back(x, qs) ==
    /\ 2 \in Tries /\ NoneAfter(2, qs) /\ Dead(qs[1]) /\ Dead(qs[2])
    /\ x.request = 1 /\ x.retired = 2 /\ x.stamp <= 4 /\ x.status = "blocked"

Shape(x, qs) ==
    \/ Unmade(x, qs) \/ First(x, qs) \/ Retired(x, qs) \/ Second(x, qs) \/ Back(x, qs)

Tracks(sprint, reqs) == \A t \in Todos : Shape(sprint.todo[t], reqs[t])

-----------------------------------------------------------------------------
(* The inductive invariant *)

StatusesAgree ==
    /\ stage # "idle" => disk.status = mem.status
    /\ stage \in {"review", "running", "committing", "saving"} => mem.status = "running"
    /\ stage = "closeout" => mem.status = "closeout"
    /\ stage = "reporting" => mem.status \in {"completed", "failed"}

\* An open request is the one the loop waits for, or was left by a crash.
OpenIsAwaited ==
    \A t \in Todos, n \in Tries :
        Open(t, n) => t \in interrupted \/ (stage = "running" /\ cur = t)

\* The request the loop waits for, or commits for.
LoopIsAtWork ==
    LET x == mem.todo[cur]
        q == request[cur][x.request]
    IN  /\ stage \in {"running", "committing"} =>
             (First(x, request[cur]) \/ Second(x, request[cur])) /\ x.stamp < 2 * x.request
        /\ stage = "running" => q.result \notin {"committed", "uncommitted"}
        /\ stage = "committing" => q.status = "uncommitted"

\* Changes of a todo the loop does not work on are not counted as a result.
ChangesAreOwed ==
    \A t \in changes \ interrupted :
        \/ stage = "running" /\ cur = t
        \/ \A n \in Tries : request[t][n].result \notin Done

\* A todo queued in the loop's copy is queued in the file, and stays so.
StaysQueued(x, qs) ==
    /\ x.status = "queued"
    /\ x.request # 0 => /\ qs[x.request] = [status |-> "cancelled", result |-> "none"]
                        /\ x.stamp < 2 * x.request
QueuedIsSelected ==
    stage = "review" =>
        \A t \in Todos : mem.todo[t].status = "queued" =>
            StaysQueued(disk.todo[t], request[t]) /\ backlog[t] = "selected"

\* Every requirement is met by a todo whose request says so, too.
MetBy(sprint) ==
    \A r \in Requirements(sprint.ledger) : \E t \in Todos :
        /\ r \in sprint.todo[t].covers
        /\ \/ t \in interrupted
           \/ /\ sprint.todo[t].status \in Done
              /\ \E n \in Tries : request[t][n].result \in Done
CloseoutIsMet ==
    /\ stage = "closeout" => MetBy(mem)
    /\ disk.status = "completed" => MetBy(disk) /\ WorktreeIsClean

WishesHaveFates ==
    \A w \in taken :
        /\ heard[w] = {} /\ disk.ledger.fate[w] # "none"
        /\ stage # "idle" => mem.ledger.fate[w] # "none"
        /\ disk.status \in {"completed", "failed"} => disk.ledger.fate[w] # "pending"

IInv ==
    /\ TypeOK /\ heard = [w \in Wishes |-> heard[w]]
    /\ request \in AllShapes
    /\ Tracks(disk, request) /\ (stage # "idle" => Tracks(mem, request))
    /\ StatusesAgree /\ OpenIsAwaited /\ LoopIsAtWork /\ ChangesAreOwed
    /\ NothingForgotten /\ DoneIsCommitted /\ QueuedIsSelected
    /\ CloseoutIsMet /\ WishesHaveFates

-----------------------------------------------------------------------------
(* Recovering a todo *)

\* There is a least element in a set of natural numbers.
LEMMA LeastOf ==
    ASSUME NEW S \in SUBSET Nat, S # {}
    PROVE  \E m \in S : \A k \in S : m <= k
<1> DEFINE Less == {p \in Nat \X Nat : p[1] < p[2]}
<1>1. OpToRel(<, Nat) = Less
  BY DEF OpToRel
<1>2. IsWellFoundedOn(Less, Nat)
  BY <1>1, NatLessThanWellFounded
<1>3. PICK m \in S : \A k \in S : ~ (<<k, m>> \in Less)
  <2> HIDE DEF Less
  <2> QED BY <1>2, WFMin
<1>4. ASSUME NEW k \in S PROVE m <= k
  <2>1. ~ (k < m)
    BY <1>3
  <2> QED BY <2>1
<1> QED BY <1>3, <1>4

\* A record that was not made changes nothing.
LEMMA MergeUnmade ==
    ASSUME NEW x, NEW n, NEW q, ~Made(q)
    PROVE  Merge(x, n, q) = x
BY DEF Merge, Made

\* Merging all records of a todo is merging the first two when no other was made.
LEMMA MergesTwo ==
    ASSUME SprintAssumption, NEW x, NEW qs, NoneAfter(2, qs)
    PROVE  RecoverTodo(x, qs) =
             IF MaxTries = 1 THEN Merge(x, 1, qs[1])
             ELSE Merge(Merge(x, 1, qs[1]), 2, qs[2])
<1> DEFINE two == Merge(Merge(x, 1, qs[1]), 2, qs[2])
           F(f) == [n \in 0..MaxTries |-> IF n = 0 THEN x ELSE Merge(f[n - 1], n, qs[n])]
           g == [n \in 0..MaxTries |-> IF n = 0 THEN x
                                       ELSE IF n = 1 THEN Merge(x, 1, qs[1]) ELSE two]
           h == CHOOSE f : f = F(f)
<1>0. MaxTries \in Nat /\ MaxTries >= 1
  BY DEF SprintAssumption
<1>1. \A n \in 0..MaxTries : \A y : n > 2 => Merge(y, n, qs[n]) = y
  <2>1. \A n \in 0..MaxTries : n > 2 => ~Made(qs[n])
    BY <1>0 DEF NoneAfter, Tries
  <2> QED BY <2>1, MergeUnmade
<1>2. g = F(g)
  <2>1. ASSUME NEW n \in 0..MaxTries PROVE g[n] = F(g)[n]
    <3> HIDE DEF two
    <3>1. CASE n = 0
      BY <3>1
    <3>2. CASE n = 1
      BY <3>2, <1>0
    <3>3. CASE n = 2
      BY <3>3, <1>0 DEF two
    <3>4. CASE n > 2
      <4>1. n - 1 \in 0..MaxTries /\ n - 1 # 0 /\ n - 1 # 1
        BY <3>4, <1>0
      <4>2. F(g)[n] = Merge(g[n - 1], n, qs[n])
        BY <3>4, <1>0
      <4>3. F(g)[n] = g[n - 1]
        BY <3>4, <4>2, <1>1
      <4> QED BY <3>4, <4>1, <4>3
    <3> QED BY <3>1, <3>2, <3>3, <3>4, <1>0
  <2>2. g = [n \in 0..MaxTries |-> g[n]]
    OBVIOUS
  <2> HIDE DEF g
  <2> QED BY <2>1, <2>2
<1>3. h = F(h)
  <2> HIDE DEF g, F
  <2> QED BY <1>2
<1>4. RecoverTodo(x, qs) = h[MaxTries]
  BY DEF RecoverTodo
<1>5. \A n \in 0..MaxTries : h[n] = g[n]
  <2> SUFFICES ASSUME {n \in 0..MaxTries : h[n] # g[n]} # {} PROVE FALSE
    OBVIOUS
  <2> HIDE DEF h, g, F
  <2>1. PICK m \in {n \in 0..MaxTries : h[n] # g[n]} :
            \A k \in {n \in 0..MaxTries : h[n] # g[n]} : m <= k
    <3>1. {n \in 0..MaxTries : h[n] # g[n]} \in SUBSET Nat
      BY <1>0
    <3> QED BY <3>1, LeastOf
  <2>2. h[m] # g[m] /\ m \in 0..MaxTries
    BY <2>1
  <2>3. m # 0 => h[m - 1] = g[m - 1]
    <3>1. m # 0 => m - 1 \in 0..MaxTries /\ ~(m <= m - 1)
      BY <2>2, <1>0
    <3> QED BY <3>1, <2>1
  <2>4. h[m] = F(h)[m] /\ g[m] = F(g)[m]
    BY <1>2, <1>3
  <2>5. h[m] = (IF m = 0 THEN x ELSE Merge(h[m - 1], m, qs[m]))
    BY <2>2, <2>4 DEF F
  <2>6. g[m] = (IF m = 0 THEN x ELSE Merge(g[m - 1], m, qs[m]))
    BY <2>2, <2>4 DEF F
  <2> QED BY <2>2, <2>3, <2>5, <2>6
<1>6. RecoverTodo(x, qs) = g[MaxTries]
  <2> HIDE DEF h, g
  <2> QED BY <1>4, <1>5, <1>0
<1> QED BY <1>6, <1>0

\* What merging a record that was made does to a todo.
LEMMA MergeFields ==
    ASSUME SprintAssumption, NEW x \in TodoRecords, NEW n \in Tries, NEW q, NEW y,
           y = Merge(x, n, q), Made(q), x.retired # n
    PROVE  /\ y \in TodoRecords
           /\ y.covers = x.covers /\ y.retired = x.retired /\ y.bypass = x.bypass
           /\ y.request = (IF x.request = 0 THEN n ELSE x.request)
           /\ y.stamp = (IF x.stamp < 2 * n THEN 2 * n - 1 ELSE x.stamp)
           /\ y.status = (IF x.stamp < 2 * n \/ StatusRank[TodoStatus(q)] > StatusRank[x.status]
                          THEN TodoStatus(q) ELSE x.status)
<1> DEFINE s == TodoStatus(q)
<1>1. s \in TodoStatuses
  BY DEF TodoStatus, StatusAmong, TodoStatuses, Executable, Done
<1>2. y = [x EXCEPT
             !.request = IF @ = 0 THEN n ELSE @,
             !.status = IF x.stamp < 2 * n \/ StatusRank[s] > StatusRank[@] THEN s ELSE @,
             !.stamp = IF x.stamp < 2 * n THEN 2 * n - 1 ELSE @]
  BY DEF Merge, Made
<1>3. MaxTries \in Nat /\ n \in 1..MaxTries /\ x.stamp \in 0..(2 * MaxTries)
  BY DEF SprintAssumption, Tries, TodoRecords
<1>4. 2 * n - 1 \in 0..(2 * MaxTries) /\ n \in 0..MaxTries
  BY <1>3
<1> HIDE DEF s
<1>5. y \in TodoRecords
  BY <1>1, <1>2, <1>4 DEF TodoRecords
<1>6. y.status = (IF x.stamp < 2 * n \/ StatusRank[s] > StatusRank[x.status]
                  THEN s ELSE x.status)
  BY <1>2 DEF TodoRecords
<1>7. /\ y.covers = x.covers /\ y.retired = x.retired /\ y.bypass = x.bypass
      /\ y.request = (IF x.request = 0 THEN n ELSE x.request)
      /\ y.stamp = (IF x.stamp < 2 * n THEN 2 * n - 1 ELSE x.stamp)
  BY <1>2 DEF TodoRecords
<1> QED BY <1>5, <1>6, <1>7 DEF s

\* At most one of a todo's requests still tells something.
LEMMA RecoverCases ==
    ASSUME SprintAssumption, NEW x \in TodoRecords, NEW qs
    PROVE  /\ NoneAfter(0, qs) => RecoverTodo(x, qs) = x
           /\ NoneAfter(1, qs) /\ x.retired = 0 => RecoverTodo(x, qs) = Merge(x, 1, qs[1])
           /\ NoneAfter(1, qs) /\ x.retired = 1 => RecoverTodo(x, qs) = x
           /\ 2 \in Tries /\ NoneAfter(2, qs) /\ x.retired = 1
                => RecoverTodo(x, qs) = Merge(x, 2, qs[2])
           /\ 2 \in Tries /\ NoneAfter(2, qs) /\ x.retired = 2
                => RecoverTodo(x, qs) = Merge(x, 1, qs[1])
<1>0. MaxTries \in Nat /\ MaxTries >= 1 /\ 1 \in Tries /\ (MaxTries # 1 => 2 \in Tries)
  BY DEF SprintAssumption, Tries
<1>1. /\ NoneAfter(0, qs) => NoneAfter(1, qs) /\ ~Made(qs[1])
      /\ NoneAfter(1, qs) => NoneAfter(2, qs) /\ (MaxTries # 1 => ~Made(qs[2]))
  BY <1>0 DEF NoneAfter, Tries
<1>2. NoneAfter(1, qs) => RecoverTodo(x, qs) = Merge(x, 1, qs[1])
  BY <1>1, MergesTwo, MergeUnmade
<1>3. x.retired = 1 => Merge(x, 1, qs[1]) = x
  BY DEF Merge
<1>4. NoneAfter(0, qs) => RecoverTodo(x, qs) = x
  BY <1>1, <1>2, MergeUnmade
<1>5. 2 \in Tries => MaxTries # 1
  BY DEF Tries
<1>6. 2 \in Tries /\ NoneAfter(2, qs)
      => RecoverTodo(x, qs) = Merge(Merge(x, 1, qs[1]), 2, qs[2])
  BY <1>5, MergesTwo
<1>7. Merge(x, 1, qs[1]).retired = x.retired
  BY DEF Merge, TodoRecords
<1>8. x.retired = 2 => Merge(Merge(x, 1, qs[1]), 2, qs[2]) = Merge(x, 1, qs[1])
  <2>1. ASSUME NEW z, z.retired = 2 PROVE Merge(z, 2, qs[2]) = z
    BY <2>1 DEF Merge
  <2> QED BY <2>1, <1>7
<1> QED BY <1>2, <1>3, <1>4, <1>6, <1>8

-----------------------------------------------------------------------------
(* What requests say of their todos *)

Cancelled == [status |-> "cancelled", result |-> "none"]

\* The ranks that decide whether a recovered status replaces a todo's own.
LEMMA RankIs ==
    /\ StatusRank["absent"] = 0 /\ StatusRank["queued"] = 1 /\ StatusRank["running"] = 2
    /\ StatusRank["blocked"] = 3 /\ StatusRank["uncommitted"] = 3 /\ StatusRank["failed"] = 3
    /\ StatusRank["completed"] = 4 /\ StatusRank["committed"] = 5
BY DEF StatusRank, TodoStatuses, Executable, Done

\* A todo is as its request says, and counts as the loop counts it.
LEMMA RequestsSay ==
    ASSUME NEW q \in RequestShapes, Made(q)
    PROVE  /\ TodoStatus(q) \in TodoStatuses
           /\ TodoStatus(q) \in Done <=> q.result \in Done
           /\ TodoStatus(q) = "blocked" <=> Dead(q)
           /\ TodoStatus(q) = "queued" <=> q = Cancelled
           /\ TodoStatus(q) = "running" <=> q = [status |-> "delegated", result |-> "none"]
           /\ TodoStatus(q) = "uncommitted" <=> q.status = "uncommitted"
           /\ q.status = "committed" => TodoStatus(q) = "committed"
           /\ q.status # "delegated" /\ q # Cancelled => Settled(q) = TodoStatus(q)
           /\ Settled(Cancelled) = "failed"
<1>1. CASE q.status = "delegated"
  BY <1>1 DEF RequestShapes, NoRequest, TodoStatus, StatusAmong, TodoStatuses, Executable, Done,
      Dead, Settled, FinalStatus, Cancelled
<1>2. CASE q.status = "cancelled"
  BY <1>2 DEF RequestShapes, NoRequest, TodoStatus, StatusAmong, TodoStatuses, Executable, Done,
      Dead, Settled, FinalStatus, Cancelled
<1>3. CASE q.status \notin {"delegated", "cancelled"}
  BY <1>3 DEF RequestShapes, NoRequest, TodoStatus, StatusAmong, TodoStatuses, Executable, Done,
      Dead, Settled, FinalStatus, Cancelled, Made
<1> QED BY <1>1, <1>2, <1>3

\* A todo that is finished is never queued or running.
LEMMA SettledStatuses ==
    ASSUME NEW q \in RequestShapes
    PROVE  Settled(q) \in TodoStatuses /\ Settled(q) \notin {"queued", "running"}
BY DEF Settled, FinalStatus, TodoStatuses, Executable, Done

\* What a todo has just been recovered to.
Fresh(x, qs) ==
    /\ Shape(x, qs)
    /\ x.request # 0 =>
        \/ x.status = TodoStatus(qs[x.request])
        \/ /\ qs[x.request] = Cancelled
           /\ x.status = "failed" /\ x.stamp = 2 * x.request

\* Where a todo's last request is.
Going(x, n, qs) == (n = 1 /\ First(x, qs)) \/ (n = 2 /\ Second(x, qs))

Same(x, y) ==
    /\ y.covers = x.covers /\ y.bypass = x.bypass
    /\ y.request = x.request /\ y.retired = x.retired

\* A todo that follows its request is merged with that alone.
LEMMA RecoverGoing ==
    ASSUME SprintAssumption, NEW x \in TodoRecords, NEW qs \in [Tries -> RequestShapes],
           NEW n \in Tries, Going(x, n, qs)
    PROVE  LET y == RecoverTodo(x, qs) IN
           /\ y \in TodoRecords /\ Same(x, y)
           /\ Going(y, n, qs) /\ Fresh(y, qs)
           /\ y.stamp < 2 * n <=> x.stamp < 2 * n
           /\ x.stamp < 2 * n => y.status = TodoStatus(qs[n])
           /\ x.stamp = 2 * n => y.status = x.status
<1> DEFINE y == RecoverTodo(x, qs)
           q == qs[n]
<1>1. /\ x.request = n /\ Made(q) /\ x.stamp \in Nat /\ x.stamp <= 2 * n
      /\ x.stamp = 2 * n => x.status = Settled(q) /\ q.status # "delegated"
      /\ n \in {1, 2} /\ x.retired = n - 1
      /\ NoneAfter(n, qs) /\ (n = 2 => Dead(qs[1]))
  BY DEF Going, First, Second, Follows, TodoRecords
<1>2. y = Merge(x, n, q)
  BY <1>1, RecoverCases
<1>3. q \in RequestShapes
  OBVIOUS
<1> HIDE DEF y, q
<1>4. x.retired # n
  BY <1>1
<1>5. /\ y \in TodoRecords
      /\ y.covers = x.covers /\ y.retired = x.retired /\ y.bypass = x.bypass
      /\ y.request = (IF x.request = 0 THEN n ELSE x.request)
      /\ y.stamp = (IF x.stamp < 2 * n THEN 2 * n - 1 ELSE x.stamp)
      /\ y.status = (IF x.stamp < 2 * n \/ StatusRank[TodoStatus(q)] > StatusRank[x.status]
                     THEN TodoStatus(q) ELSE x.status)
  BY <1>1, <1>2, <1>4, MergeFields
<1>6. q.status # "delegated" => \/ Settled(q) = TodoStatus(q)
                                \/ q = Cancelled /\ Settled(q) = "failed" /\ TodoStatus(q) = "queued"
  BY <1>1, <1>3, RequestsSay
<1>7. Same(x, y) /\ y.request = n
  BY <1>1, <1>5 DEF Same
<1>8. x.stamp < 2 * n => y.status = TodoStatus(q) /\ y.stamp = 2 * n - 1 /\ y.stamp < 2 * n
  BY <1>1, <1>5
<1>9. x.stamp = 2 * n =>
        /\ y.stamp = 2 * n /\ y.status = Settled(q) /\ y.status = x.status
        /\ y.status = TodoStatus(q) \/ (q = Cancelled /\ y.status = "failed")
  <2>1. SUFFICES ASSUME x.stamp = 2 * n
                 PROVE  /\ y.stamp = 2 * n /\ y.status = Settled(q) /\ y.status = x.status
                        /\ y.status = TodoStatus(q) \/ (q = Cancelled /\ y.status = "failed")
    OBVIOUS
  <2>2. y.stamp = 2 * n /\ ~(x.stamp < 2 * n)
    BY <1>1, <1>5, <2>1
  <2>3. CASE Settled(q) = TodoStatus(q)
    BY <1>1, <1>5, <2>1, <2>2, <2>3
  <2>4. CASE q = Cancelled /\ Settled(q) = "failed" /\ TodoStatus(q) = "queued"
    BY <1>1, <1>5, <2>1, <2>2, <2>4, RankIs
  <2> QED BY <1>1, <1>6, <2>1, <2>3, <2>4
<1>10. x.stamp < 2 * n \/ x.stamp = 2 * n
  BY <1>1
<1>11. Follows(y, n, qs)
  <2>1. TodoStatus(q) # "absent"
    BY <1>1, <1>3, RequestsSay DEF TodoStatuses, Executable, Done
  <2>2. y.status # "absent"
    BY <2>1, <1>8, <1>9, <1>10
  <2> QED BY <2>2, <1>1, <1>7, <1>8, <1>9, <1>10 DEF Follows, q
<1>12. Going(y, n, qs)
  BY <1>1, <1>5, <1>11 DEF Going, First, Second
<1>13. Fresh(y, qs)
  <2>1. Shape(y, qs)
    BY <1>12 DEF Going, Shape
  <2> QED BY <2>1, <1>7, <1>8, <1>9, <1>10 DEF Fresh, q
<1> QED BY <1>5, <1>7, <1>8, <1>9, <1>10, <1>12, <1>13, <1>1 DEF q, y

\* Recovering a todo keeps what its requests have come to.
LEMMA RecoverShape ==
    ASSUME SprintAssumption, NEW x \in TodoRecords, NEW qs \in [Tries -> RequestShapes],
           Shape(x, qs)
    PROVE  LET y == RecoverTodo(x, qs) IN
           /\ y \in TodoRecords /\ Same(x, y) /\ Fresh(y, qs)
           /\ Unmade(x, qs) \/ Retired(x, qs) => y = x
           /\ Back(x, qs) => Back(y, qs)
<1> DEFINE y == RecoverTodo(x, qs)
<1>1. CASE Unmade(x, qs) \/ Retired(x, qs)
  <2>1. y = x
    BY <1>1, RecoverCases DEF Unmade, Retired
  <2>2. x.request = 0
    BY <1>1 DEF Unmade, Retired
  <2>3. ~Back(x, qs)
    BY <2>2 DEF Back
  <2> HIDE DEF y
  <2>4. Same(x, y) /\ Fresh(y, qs)
    BY <2>1, <2>2 DEF Same, Fresh
  <2> QED BY <2>1, <2>3, <2>4 DEF y
<1>2. ASSUME NEW n \in {1, 2}, Going(x, n, qs)
      PROVE  y \in TodoRecords /\ Same(x, y) /\ Fresh(y, qs)
             /\ ~Unmade(x, qs) /\ ~Retired(x, qs) /\ ~Back(x, qs)
  <2>1. n \in Tries
    BY <1>2 DEF Going, First, Second, Follows, Tries, SprintAssumption
  <2>2. y \in TodoRecords /\ Same(x, y) /\ Fresh(y, qs)
    BY <1>2, <2>1, RecoverGoing
  <2>3. x.request = n /\ x.retired = n - 1
    BY <1>2 DEF Going, First, Second, Follows
  <2> HIDE DEF y
  <2> QED BY <2>2, <2>3 DEF Unmade, Retired, Back
<1>3. CASE Back(x, qs)
  <2>1. y = Merge(x, 1, qs[1])
    BY <1>3, RecoverCases DEF Back
  <2>2. 1 \in Tries /\ qs[1] \in RequestShapes /\ Made(qs[1])
    BY <1>3 DEF Back, Dead, Made, RequestShapes, NoRequest, Tries, SprintAssumption
  <2>3. TodoStatus(qs[1]) = "blocked"
    BY <1>3, <2>2, RequestsSay DEF Back
  <2>4. x.request = 1 /\ x.retired = 2 /\ x.status = "blocked"
        /\ x.stamp \in Nat /\ x.stamp <= 4
    BY <1>3 DEF Back, TodoRecords
  <2> HIDE DEF y
  <2>5. x.retired # 1
    BY <2>4
  <2>6. /\ y \in TodoRecords
        /\ y.covers = x.covers /\ y.retired = x.retired /\ y.bypass = x.bypass
        /\ y.request = (IF x.request = 0 THEN 1 ELSE x.request)
        /\ y.stamp = (IF x.stamp < 2 * 1 THEN 2 * 1 - 1 ELSE x.stamp)
        /\ y.status = (IF x.stamp < 2 * 1 \/ StatusRank[TodoStatus(qs[1])] > StatusRank[x.status]
                       THEN TodoStatus(qs[1]) ELSE x.status)
    BY <2>1, <2>2, <2>5, MergeFields
  <2>7. Same(x, y)
    BY <2>4, <2>6 DEF Same
  <2>8. y.status = "blocked" /\ y.stamp <= 4
    BY <2>3, <2>4, <2>6
  <2>9. Back(y, qs)
    BY <1>3, <2>4, <2>6, <2>8 DEF Back
  <2>10. Fresh(y, qs)
    BY <2>3, <2>4, <2>6, <2>8, <2>9 DEF Fresh, Shape
  <2>11. ~Unmade(x, qs) /\ ~Retired(x, qs)
    BY <2>4 DEF Unmade, Retired
  <2> QED BY <2>6, <2>7, <2>9, <2>10, <2>11 DEF y
<1>4. Shape(x, qs) => \/ Unmade(x, qs) \/ Retired(x, qs) \/ Back(x, qs)
                      \/ \E n \in {1, 2} : Going(x, n, qs)
  BY DEF Shape, Going
<1> HIDE DEF y
<1> QED BY <1>1, <1>2, <1>3, <1>4 DEF y

\* What a fresh todo tells of its requests.
LEMMA FreshSays ==
    ASSUME SprintAssumption, NEW x \in TodoRecords, NEW qs \in [Tries -> RequestShapes],
           Fresh(x, qs)
    PROVE  /\ \A n \in Tries : Made(qs[n]) /\ n # x.request => Dead(qs[n])
           /\ x.request # 0 => x.request \in Tries /\ Made(qs[x.request])
           /\ x.status \in Done <=> \E n \in Tries : qs[n].result \in Done
           /\ \A n \in Tries : qs[n].status = "uncommitted" =>
                x.status = "uncommitted" /\ x.request = n
           /\ x.status = "uncommitted" => x.request # 0 /\ Going(x, x.request, qs)
           /\ \A n \in Tries : qs[n].status = "committed" => x.status = "committed"
           /\ x.status = "queued" /\ x.request # 0 =>
                qs[x.request] = Cancelled /\ x.stamp < 2 * x.request
           /\ x.status = "blocked" => x.request # 0 /\ Dead(qs[x.request])
           /\ x.request # 0 /\ x.status \in {"queued", "running"} =>
                /\ Going(x, x.request, qs) /\ x.stamp < 2 * x.request
                /\ qs[x.request].status \in {"cancelled", "delegated"}
                /\ qs[x.request].result = "none"
           /\ x.request = 0 => Unmade(x, qs) \/ Retired(x, qs)
           /\ x.status = "absent" => Unmade(x, qs)
<1>1. /\ \A n \in Tries : qs[n] \in RequestShapes /\ n \in Nat /\ n >= 1
      /\ 1 \in Tries
  BY DEF Tries, SprintAssumption
<1>2. ASSUME NEW q \in RequestShapes, Dead(q)
      PROVE  q.result \notin Done /\ q.status \notin {"uncommitted", "committed"}
  BY <1>2 DEF Dead, Done, RequestShapes, NoRequest
<1>3. ASSUME NEW q \in RequestShapes, ~Made(q)
      PROVE  q.result \notin Done /\ q.status \notin {"uncommitted", "committed"}
  BY <1>3 DEF Made, Done, RequestShapes, NoRequest
<1>4. CASE x.request = 0
  <2>1. Unmade(x, qs) \/ Retired(x, qs)
    BY <1>4 DEF Fresh, Shape, First, Second, Back, Follows
  <2>2. \A n \in Tries : Made(qs[n]) => Dead(qs[n])
    BY <1>1, <2>1 DEF Unmade, Retired, NoneAfter
  <2>3. x.status \in {"absent", "queued", "running"} /\ (x.status = "absent" => Unmade(x, qs))
    BY <2>1 DEF Unmade, Retired
  <2> QED BY <1>1, <1>2, <1>3, <1>4, <2>1, <2>2, <2>3 DEF Done, Executable
<1>5. CASE x.request # 0
  <2> DEFINE r == x.request
             q == qs[r]
  <2>1. /\ r \in Tries /\ Made(q) /\ r \in {1, 2}
        /\ \A n \in Tries : Made(qs[n]) /\ n # r => Dead(qs[n])
        /\ x.stamp \in Nat
        /\ \/ Going(x, r, qs) /\ x.stamp <= 2 * r
              /\ (x.stamp = 2 * r => x.status = Settled(q))
           \/ Back(x, qs) /\ Dead(q) /\ x.status = "blocked"
    <3>1. CASE First(x, qs)
      BY <1>1, <3>1 DEF First, Going, Follows, NoneAfter, TodoRecords
    <3>2. CASE Second(x, qs)
      <4>1. x.request = 2 /\ 2 \in Tries
        BY <3>2 DEF Second, Follows
      <4> QED BY <1>1, <3>2, <4>1 DEF Second, Going, Follows, NoneAfter, TodoRecords
    <3>3. CASE Back(x, qs)
      BY <1>1, <3>3 DEF Back, NoneAfter, Dead, Made, RequestShapes, NoRequest, TodoRecords
    <3> QED BY <1>5, <3>1, <3>2, <3>3 DEF Fresh, Shape, Unmade, Retired
  <2>2. \/ x.status = TodoStatus(q)
        \/ q = Cancelled /\ x.status = "failed" /\ x.stamp = 2 * r
    BY <1>5 DEF Fresh
  <2>3. q \in RequestShapes
    BY <1>1, <2>1
  <2> HIDE DEF r, q
  <2>4. /\ TodoStatus(q) \in TodoStatuses
        /\ TodoStatus(q) \in Done <=> q.result \in Done
        /\ TodoStatus(q) = "blocked" <=> Dead(q)
        /\ TodoStatus(q) = "queued" <=> q = Cancelled
        /\ TodoStatus(q) = "running" <=> q = [status |-> "delegated", result |-> "none"]
        /\ TodoStatus(q) = "uncommitted" <=> q.status = "uncommitted"
        /\ q.status = "committed" => TodoStatus(q) = "committed"
        /\ Settled(Cancelled) = "failed"
    BY <2>1, <2>3, RequestsSay
  <2>5. /\ x.status \in Done <=> q.result \in Done
        /\ x.status = "uncommitted" <=> q.status = "uncommitted"
        /\ q.status = "committed" => x.status = "committed"
        /\ x.status = "blocked" <=> Dead(q)
        /\ x.status = "queued" => q = Cancelled
        /\ x.status = "running" => q = [status |-> "delegated", result |-> "none"]
        /\ x.status # "absent"
    BY <2>2, <2>4 DEF Cancelled, Done, Dead, TodoStatuses, Executable
  <2>6. \A n \in Tries : n # r => qs[n].result \notin Done
                                  /\ qs[n].status \notin {"uncommitted", "committed"}
    BY <1>1, <1>2, <1>3, <2>1
  <2>7. x.status = "queued" \/ x.status = "running" => Going(x, r, qs) /\ x.stamp < 2 * r
    <3>1. x.status = "queued" \/ x.status = "running" => x.status # Settled(q) \/ q # Cancelled
      BY <2>4
    <3>2. Settled(q) \notin {"queued", "running"}
      BY <2>3, SettledStatuses
    <3>3. x.status # "blocked" => Going(x, r, qs) /\ x.stamp <= 2 * r
                                  /\ (x.stamp = 2 * r => x.status = Settled(q))
      BY <2>1
    <3>4. r \in Nat /\ x.stamp \in Nat
      BY <2>1
    <3> QED BY <3>2, <3>3, <3>4
  <2>8. x.status = "uncommitted" => Going(x, r, qs)
    BY <2>1
  <2>9. x.status \in {"queued", "running"} => q.status \in {"cancelled", "delegated"} /\ q.result = "none"
    BY <2>5 DEF Cancelled
  <2> QED BY <1>5, <2>1, <2>5, <2>6, <2>7, <2>8, <2>9 DEF r, q
<1> QED BY <1>4, <1>5

-----------------------------------------------------------------------------
(* What the loop, the reports and the commands do to a todo *)

OutdatedTodo(x, n) == [x EXCEPT !.stamp = IF @ = 2 * n THEN 2 * n - 1 ELSE @]

\* A save of a request changes what is known of that request only.
LEMMA OutdateShape ==
    ASSUME SprintAssumption, NEW x \in TodoRecords, NEW qs \in [Tries -> RequestShapes],
           NEW n \in Tries, NEW q \in RequestShapes,
           Shape(x, qs), Made(qs[n]), Made(q), Dead(qs[n]) => Dead(q)
    PROVE  LET z == OutdatedTodo(x, n)
               rs == [qs EXCEPT ![n] = q]
           IN  /\ z \in TodoRecords /\ Same(x, z) /\ z.status = x.status
               /\ Shape(z, rs)
               /\ \A m \in Tries : Going(x, m, qs) =>
                    /\ Going(z, m, rs)
                    /\ m = n \/ x.stamp < 2 * m => z.stamp < 2 * m
<1> DEFINE z == OutdatedTodo(x, n)
           rs == [qs EXCEPT ![n] = q]
<1>0. MaxTries \in Nat /\ n \in Nat /\ n >= 1 /\ n <= MaxTries /\ x.stamp \in Nat
  BY DEF SprintAssumption, Tries, TodoRecords
<1>1. /\ z \in TodoRecords /\ Same(x, z) /\ z.status = x.status
      /\ z.stamp = (IF x.stamp = 2 * n THEN 2 * n - 1 ELSE x.stamp)
  <2>1. x.stamp = 2 * n => 2 * n - 1 \in 0..(2 * MaxTries)
    BY <1>0
  <2> QED BY <1>0, <2>1 DEF OutdatedTodo, TodoRecords, Same
<1>2. /\ \A k \in Tries : Made(rs[k]) <=> Made(qs[k])
      /\ \A k \in Tries : Dead(qs[k]) => Dead(rs[k])
      /\ \A k \in Tries : k # n => rs[k] = qs[k]
      /\ rs[n] = q
  OBVIOUS
<1>3. \A k \in {0, 1, 2} : NoneAfter(k, rs) <=> NoneAfter(k, qs)
  <2> HIDE DEF rs
  <2> QED BY <1>2 DEF NoneAfter
<1>4. 1 \in Tries
  BY DEF Tries, SprintAssumption
<1> HIDE DEF z, rs
<1>5. z.stamp \in Nat /\ z.stamp <= x.stamp /\ z.stamp # 2 * n
  BY <1>0, <1>1
<1>6. ASSUME NEW m \in Tries, Follows(x, m, qs)
      PROVE  Follows(z, m, rs) /\ (m = n \/ x.stamp < 2 * m => z.stamp < 2 * m)
  <2>1. m \in Nat
    BY DEF Tries
  <2>2. z.request = m /\ Made(rs[m]) /\ z.status # "absent" /\ z.stamp <= 2 * m
    BY <1>0, <1>1, <1>2, <1>5, <1>6, <2>1 DEF Follows, Same
  <2>3. z.stamp = 2 * m => m # n /\ x.stamp = 2 * m
    BY <1>0, <1>5, <1>6, <2>1 DEF Follows
  <2>4. z.stamp = 2 * m => z.status = Settled(rs[m]) /\ rs[m].status # "delegated"
    BY <1>1, <1>2, <1>6, <2>3 DEF Follows
  <2>5. m = n \/ x.stamp < 2 * m => z.stamp < 2 * m
    BY <1>0, <1>5, <2>1, <2>2
  <2> QED BY <2>2, <2>4, <2>5 DEF Follows
<1>7. \A m \in Tries : Going(x, m, qs) =>
         /\ Going(z, m, rs)
         /\ m = n \/ x.stamp < 2 * m => z.stamp < 2 * m
  BY <1>1, <1>2, <1>3, <1>4, <1>6 DEF Going, First, Second, Same
<1>8. CASE Unmade(x, qs)
  BY <1>0, <1>8 DEF Unmade, NoneAfter
<1>9. CASE Retired(x, qs)
  <2>1. Retired(z, rs)
    BY <1>0, <1>1, <1>2, <1>3, <1>4, <1>5, <1>9 DEF Retired, Same
  <2> QED BY <1>1, <1>7, <2>1 DEF Shape, z, rs
<1>10. CASE Back(x, qs)
  <2>1. Back(z, rs)
    BY <1>0, <1>1, <1>2, <1>3, <1>4, <1>5, <1>10 DEF Back, Same
  <2> QED BY <1>1, <1>7, <2>1 DEF Shape, z, rs
<1>11. CASE First(x, qs) \/ Second(x, qs)
  <2>1. \E m \in Tries : Going(x, m, qs)
    BY <1>4, <1>11 DEF Going, Second
  <2>2. Shape(z, rs)
    BY <1>7, <2>1 DEF Going, Shape
  <2> QED BY <1>1, <1>7, <2>2 DEF z, rs
<1> QED BY <1>8, <1>9, <1>10, <1>11 DEF Shape

\* A restart retires the blocked request of a todo; the recovery that follows takes
\* up the one that was retired before, if there is one.
LEMMA RequeueShape ==
    ASSUME SprintAssumption, NEW x \in TodoRecords, NEW qs \in [Tries -> RequestShapes],
           Fresh(x, qs), x.status = "blocked"
    PROVE  LET y == RecoverTodo(Requeued(x), qs) IN
           /\ y \in TodoRecords /\ y.covers = x.covers
           /\ Shape(y, qs)
<1> DEFINE u == Requeued(x)
           y == RecoverTodo(u, qs)
<1>1. x.request # 0 /\ x.request \in Tries /\ Dead(qs[x.request])
  BY FreshSays
<1>2. /\ u \in TodoRecords /\ u.covers = x.covers /\ u.stamp = x.stamp
      /\ u.status = "queued" /\ u.request = 0 /\ u.retired = x.request
  <2>1. u = [x EXCEPT !.status = "queued", !.request = 0, !.bypass = TRUE,
                      !.retired = x.request]
    BY <1>1 DEF Requeued, TodoRecords
  <2>2. x.request \in 0..MaxTries /\ 0 \in 0..MaxTries /\ "queued" \in TodoStatuses
    BY DEF SprintAssumption, TodoRecords, TodoStatuses, Executable
  <2> HIDE DEF u
  <2> QED BY <2>1, <2>2 DEF TodoRecords
<1>3. x.stamp \in Nat
  BY DEF TodoRecords
<1>4. \A q \in RequestShapes : Dead(q) => Made(q)
  BY DEF Dead, Made, RequestShapes, NoRequest
<1>5. \A q \in RequestShapes : Dead(q) => TodoStatus(q) = "blocked" /\ Settled(q) = "blocked"
  BY <1>4, RequestsSay DEF Dead, Settled, FinalStatus
<1> HIDE DEF u
<1>6. CASE First(x, qs)
  <2>1. x.request = 1 /\ NoneAfter(1, qs) /\ x.stamp <= 2
    BY <1>6 DEF First, Follows
  <2>2. y = u
    BY <1>2, <2>1, RecoverCases
  <2>3. Retired(u, qs)
    BY <1>1, <1>2, <2>1 DEF Retired
  <2> QED BY <1>2, <2>2, <2>3 DEF Shape, u
<1>7. CASE Second(x, qs)
  <2>1. /\ x.request = 2 /\ 2 \in Tries /\ NoneAfter(2, qs) /\ x.stamp <= 4
        /\ Dead(qs[1]) /\ 1 \in Tries
    BY <1>7 DEF Second, Follows, Tries
  <2>2. y = Merge(u, 1, qs[1])
    BY <1>2, <2>1, RecoverCases
  <2>3. u.retired # 1 /\ Made(qs[1]) /\ TodoStatus(qs[1]) = "blocked"
    BY <1>2, <1>4, <1>5, <2>1
  <2> HIDE DEF y
  <2>4. /\ y \in TodoRecords
        /\ y.covers = u.covers /\ y.retired = u.retired /\ y.bypass = u.bypass
        /\ y.request = (IF u.request = 0 THEN 1 ELSE u.request)
        /\ y.stamp = (IF u.stamp < 2 * 1 THEN 2 * 1 - 1 ELSE u.stamp)
        /\ y.status = (IF u.stamp < 2 * 1 \/ StatusRank[TodoStatus(qs[1])] > StatusRank[u.status]
                       THEN TodoStatus(qs[1]) ELSE u.status)
    BY <1>2, <2>1, <2>2, <2>3, MergeFields
  <2>5. y.status = "blocked"
    BY <1>2, <2>3, <2>4, RankIs
  <2>6. y.request = 1 /\ y.retired = 2 /\ y.stamp <= 4
    BY <1>2, <1>3, <2>1, <2>4
  <2>7. Back(y, qs)
    BY <1>1, <2>1, <2>5, <2>6 DEF Back
  <2> QED BY <1>2, <2>4, <2>7 DEF Shape, y, u
<1>8. CASE Back(x, qs)
  <2>1. /\ x.request = 1 /\ 2 \in Tries /\ NoneAfter(2, qs) /\ x.stamp <= 4
        /\ Dead(qs[1]) /\ Dead(qs[2])
    BY <1>8 DEF Back
  <2>2. y = Merge(u, 2, qs[2])
    BY <1>2, <2>1, RecoverCases
  <2>3. u.retired # 2 /\ Made(qs[2]) /\ TodoStatus(qs[2]) = "blocked" /\ Settled(qs[2]) = "blocked"
        /\ qs[2].status # "delegated"
    <3>1. qs[2].status # "delegated"
      BY <2>1 DEF Dead, RequestShapes, NoRequest
    <3> QED BY <1>2, <1>4, <1>5, <2>1, <3>1
  <2> HIDE DEF y
  <2>4. /\ y \in TodoRecords
        /\ y.covers = u.covers /\ y.retired = u.retired /\ y.bypass = u.bypass
        /\ y.request = (IF u.request = 0 THEN 2 ELSE u.request)
        /\ y.stamp = (IF u.stamp < 2 * 2 THEN 2 * 2 - 1 ELSE u.stamp)
        /\ y.status = (IF u.stamp < 2 * 2 \/ StatusRank[TodoStatus(qs[2])] > StatusRank[u.status]
                       THEN TodoStatus(qs[2]) ELSE u.status)
    BY <1>2, <2>1, <2>2, <2>3, MergeFields
  <2>5. y.status = "blocked"
    BY <1>2, <2>3, <2>4, RankIs
  <2>6. y.request = 2 /\ y.retired = 1 /\ y.stamp <= 4
    BY <1>2, <1>3, <2>1, <2>4
  <2>7. Follows(y, 2, qs)
    BY <2>3, <2>5, <2>6 DEF Follows
  <2>8. Second(y, qs)
    BY <2>1, <2>6, <2>7 DEF Second
  <2> QED BY <1>2, <2>4, <2>8 DEF Shape, y, u
<1>9. ~Unmade(x, qs) /\ ~Retired(x, qs)
  BY <1>1 DEF Unmade, Retired
<1> QED BY <1>6, <1>7, <1>8, <1>9 DEF Fresh, Shape

Early == [status |-> "queued", result |-> "none"]
Delegated == [status |-> "delegated", result |-> "none"]

NextTry(qs) == Cardinality({k \in Tries : qs[k].status # "none"}) + 1

\* A todo gets a request of its own when it has none, or a second one when its first
\* is retired.
LEMMA NewShape ==
    ASSUME SprintAssumption, NEW x \in TodoRecords, NEW qs \in [Tries -> RequestShapes],
           Unmade(x, qs) \/ Retired(x, qs),
           NEW n \in Tries, n = NextTry(qs),
           NEW y, y = RecoverTodo([x EXCEPT !.request = n], [qs EXCEPT ![n] = Early]),
           NEW rs, rs = [qs EXCEPT ![n] = Delegated]
    PROVE  /\ y \in TodoRecords /\ y.covers = x.covers
           /\ Going(y, n, rs) /\ y.stamp < 2 * n /\ y.request = n
<1> DEFINE es == [qs EXCEPT ![n] = Early]
           u == [x EXCEPT !.request = n]
<1>1. /\ 1 \in Tries /\ n \in Nat /\ n \in 0..MaxTries
      /\ \A k \in Tries : k \in Nat /\ k >= 1
  BY DEF Tries, SprintAssumption
<1>2. /\ Unmade(x, qs) => n = 1 /\ x.retired = 0 /\ x.stamp = 0
      /\ Retired(x, qs) => n = 2 /\ x.retired = 1 /\ x.stamp \in Nat /\ x.stamp <= 2
                           /\ Dead(qs[1])
  <2>1. ASSUME Unmade(x, qs) PROVE n = 1
    <3>1. \A k \in Tries : ~(qs[k].status # "none")
      BY <1>1, <2>1 DEF Unmade, NoneAfter, Made
    <3>2. {k \in Tries : qs[k].status # "none"} = {}
      BY <3>1
    <3>3. Cardinality({k \in Tries : qs[k].status # "none"}) = 0
      BY <3>2, FS_EmptySet
    <3> QED BY <3>3 DEF NextTry
  <2>2. ASSUME Retired(x, qs) PROVE n = 2
    <3>1. Made(qs[1]) /\ Dead(qs[1])
      BY <1>1, <2>2 DEF Retired, Made, Dead, RequestShapes, NoRequest
    <3>2. \A k \in Tries : qs[k].status # "none" <=> k = 1
      BY <1>1, <2>2, <3>1 DEF Retired, NoneAfter, Made
    <3>3. {k \in Tries : qs[k].status # "none"} = {1}
      BY <1>1, <3>2
    <3>4. Cardinality({k \in Tries : qs[k].status # "none"}) = 1
      BY <3>3, FS_Singleton
    <3> QED BY <3>4 DEF NextTry
  <2> QED BY <2>1, <2>2 DEF Unmade, Retired, TodoRecords
<1>3. /\ u \in TodoRecords /\ u.covers = x.covers /\ u.stamp = x.stamp
      /\ u.retired = x.retired /\ u.request = n
  BY <1>1 DEF TodoRecords
<1>4. /\ NoneAfter(n, es) /\ NoneAfter(n, rs) /\ (n = 2 => rs[1] = qs[1])
      /\ es[n] = Early /\ rs[n] = Delegated
  <2>1. \A k \in Tries : k > n => ~Made(qs[k])
    BY <1>1, <1>2 DEF Unmade, Retired, NoneAfter
  <2>2. \A k \in Tries : k > n => es[k] = qs[k] /\ rs[k] = qs[k]
    BY <1>1
  <2>3. n = 2 => 1 # n
    OBVIOUS
  <2> QED BY <1>1, <2>1, <2>2, <2>3 DEF NoneAfter
<1>5. Made(Early) /\ TodoStatus(Early) = "queued" /\ Made(Delegated) /\ Delegated \in RequestShapes
  BY DEF Made, Early, TodoStatus, StatusAmong, TodoStatuses, Executable, Done, Delegated,
      RequestShapes
<1> HIDE DEF es, u
<1>6. y = Merge(u, n, es[n])
  <2>1. y = RecoverTodo(u, es)
    BY DEF u, es
  <2> QED BY <1>2, <1>3, <1>4, <2>1, RecoverCases
<1>7. u.retired # n
  BY <1>2, <1>3
<1>8. /\ y \in TodoRecords
      /\ y.covers = u.covers /\ y.retired = u.retired
      /\ y.request = (IF u.request = 0 THEN n ELSE u.request)
      /\ y.stamp = (IF u.stamp < 2 * n THEN 2 * n - 1 ELSE u.stamp)
      /\ y.status = (IF u.stamp < 2 * n \/ StatusRank[TodoStatus(es[n])] > StatusRank[u.status]
                     THEN TodoStatus(es[n]) ELSE u.status)
  BY <1>3, <1>4, <1>5, <1>6, <1>7, MergeFields
<1>9. u.stamp < 2 * n
  BY <1>2, <1>3
<1>10. y.request = n /\ y.stamp = 2 * n - 1 /\ y.stamp < 2 * n /\ y.status = "queued"
  BY <1>1, <1>3, <1>4, <1>5, <1>8, <1>9
<1>11. Follows(y, n, rs)
  BY <1>1, <1>4, <1>5, <1>10 DEF Follows
<1>12. Going(y, n, rs)
  BY <1>2, <1>3, <1>4, <1>8, <1>11 DEF Going, First, Second
<1> QED BY <1>3, <1>8, <1>10, <1>12

\* A todo that is taken up again goes on with its request.
LEMMA RunShape ==
    ASSUME SprintAssumption, NEW x \in TodoRecords, NEW qs, NEW n \in Tries,
           Going(x, n, qs), x.stamp < 2 * n, NEW st \in TodoStatuses
    PROVE  LET u == [x EXCEPT !.status = st]
           IN  u \in TodoRecords /\ Same(x, u) /\ Going(u, n, qs) /\ u.stamp < 2 * n
<1> DEFINE u == [x EXCEPT !.status = st]
<1>1. u \in TodoRecords /\ Same(x, u) /\ u.stamp = x.stamp /\ u.status = st
  BY DEF TodoRecords, Same
<1>2. st # "absent" /\ n \in Nat /\ x.stamp \in Nat
  BY DEF TodoStatuses, Executable, Done, Tries, TodoRecords
<1> HIDE DEF u
<1>3. \A m \in Nat : m = n /\ Follows(x, m, qs) => Follows(u, m, qs)
  BY <1>1, <1>2 DEF Follows, Same
<1>4. Going(u, n, qs)
  BY <1>1, <1>2, <1>3 DEF Going, First, Second, Same
<1> QED BY <1>1, <1>4 DEF u

\* The todo of a request that is to be committed is saved before the request is.
LEMMA EnforceShape ==
    ASSUME SprintAssumption, NEW x \in TodoRecords, NEW qs \in [Tries -> RequestShapes],
           NEW n \in Tries, Going(x, n, qs), NEW q \in RequestShapes, Made(q)
    PROVE  LET z == OutdatedTodo(RecoverTodo([x EXCEPT !.status = "uncommitted"], qs), n)
               rs == [qs EXCEPT ![n] = q]
           IN  /\ z \in TodoRecords /\ Same(x, z)
               /\ Going(z, n, rs) /\ z.stamp < 2 * n
<1> DEFINE u == [x EXCEPT !.status = "uncommitted"]
           y == RecoverTodo(u, qs)
           z == OutdatedTodo(y, n)
           rs == [qs EXCEPT ![n] = q]
<1>1. u \in TodoRecords /\ Same(x, u) /\ u.stamp = x.stamp /\ u.status = "uncommitted"
  BY DEF TodoRecords, Same, TodoStatuses, Executable
<1>2. /\ x.request = n /\ Made(qs[n]) /\ x.stamp \in Nat /\ x.stamp <= 2 * n
      /\ n \in {1, 2} /\ x.retired = n - 1
      /\ NoneAfter(n, qs) /\ (n = 2 => Dead(qs[1]))
  BY DEF Going, First, Second, Follows, TodoRecords
<1>3. MaxTries \in Nat /\ n \in Nat /\ n >= 1 /\ n <= MaxTries
  BY DEF SprintAssumption, Tries
<1> HIDE DEF u
<1>4. y = Merge(u, n, qs[n])
  BY <1>1, <1>2, RecoverCases DEF Same
<1>5. u.retired # n /\ TodoStatus(qs[n]) # "absent"
  BY <1>1, <1>2, RequestsSay DEF Same, TodoStatuses, Executable, Done
<1> HIDE DEF y
<1>6. /\ y \in TodoRecords
      /\ y.covers = u.covers /\ y.retired = u.retired /\ y.bypass = u.bypass
      /\ y.request = (IF u.request = 0 THEN n ELSE u.request)
      /\ y.stamp = (IF u.stamp < 2 * n THEN 2 * n - 1 ELSE u.stamp)
      /\ y.status = (IF u.stamp < 2 * n \/ StatusRank[TodoStatus(qs[n])] > StatusRank[u.status]
                     THEN TodoStatus(qs[n]) ELSE u.status)
  BY <1>1, <1>2, <1>4, <1>5, MergeFields
<1>7. Same(x, y) /\ y.status # "absent" /\ y.stamp \in Nat /\ y.stamp <= 2 * n
  BY <1>1, <1>2, <1>5, <1>6 DEF Same
<1>8. /\ z \in TodoRecords /\ Same(x, z) /\ z.status # "absent" /\ z.stamp < 2 * n
  <2>1. 2 * n - 1 \in 0..(2 * MaxTries) /\ 2 * n - 1 < 2 * n
    BY <1>3
  <2>2. z \in TodoRecords /\ Same(y, z) /\ z.status = y.status
        /\ z.stamp = (IF y.stamp = 2 * n THEN 2 * n - 1 ELSE y.stamp)
    BY <1>6, <2>1 DEF OutdatedTodo, TodoRecords, Same
  <2> HIDE DEF z
  <2> QED BY <1>3, <1>7, <2>1, <2>2 DEF Same
<1>9. NoneAfter(n, rs) /\ Made(rs[n]) /\ (n = 2 => Dead(rs[1]))
  BY <1>2 DEF NoneAfter
<1> HIDE DEF z, rs
<1>10. Follows(z, n, rs)
  <2>1. z.stamp \in Nat
    BY <1>8 DEF TodoRecords
  <2>2. z.stamp <= 2 * n /\ z.stamp # 2 * n
    BY <1>3, <1>8, <2>1
  <2> QED BY <1>2, <1>8, <1>9, <2>2 DEF Follows, Same
<1>11. Going(z, n, rs)
  BY <1>2, <1>8, <1>9, <1>10 DEF Going, First, Second, Same
<1> QED BY <1>8, <1>11 DEF z, rs, y, u

\* A todo that is finished is stamped after its request.
LEMMA FinishShape ==
    ASSUME SprintAssumption, NEW x \in TodoRecords, NEW qs \in [Tries -> RequestShapes],
           NEW n \in Tries, Going(x, n, qs), NEW q \in RequestShapes, Made(q),
           q.status # "delegated"
    PROVE  LET u == [x EXCEPT !.status = Settled(q), !.stamp = 2 * n]
           IN  /\ u \in TodoRecords /\ Same(x, u) /\ Going(u, n, [qs EXCEPT ![n] = q])
               /\ u.status = Settled(q)
<1> DEFINE u == [x EXCEPT !.status = Settled(q), !.stamp = 2 * n]
           rs == [qs EXCEPT ![n] = q]
<1>1. MaxTries \in Nat /\ n \in Nat /\ n >= 1 /\ n <= MaxTries
  BY DEF SprintAssumption, Tries
<1>2. 2 * n \in 0..(2 * MaxTries) /\ Settled(q) \in TodoStatuses
  BY <1>1, SettledStatuses
<1>3. u \in TodoRecords /\ Same(x, u) /\ u.stamp = 2 * n /\ u.status = Settled(q)
  BY <1>2 DEF TodoRecords, Same
<1>4. /\ x.request = n /\ n \in {1, 2} /\ x.retired = n - 1
      /\ NoneAfter(n, qs) /\ (n = 2 => Dead(qs[1]))
  BY DEF Going, First, Second, Follows
<1>5. NoneAfter(n, rs) /\ rs[n] = q /\ (n = 2 => Dead(rs[1]))
  BY <1>4 DEF NoneAfter
<1>6. Settled(q) # "absent"
  BY <1>2 DEF TodoStatuses, Executable, Done
<1> HIDE DEF u, rs
<1>7. Follows(u, n, rs)
  BY <1>1, <1>3, <1>4, <1>5, <1>6 DEF Follows, Same
<1>8. Going(u, n, rs)
  BY <1>3, <1>4, <1>5, <1>7 DEF Going, First, Second, Same
<1> QED BY <1>3, <1>8 DEF u, rs

-----------------------------------------------------------------------------
(* What they do to a sprint *)

SameSprint(s, r) ==
    r.status = s.status /\ r.wrapUp = s.wrapUp /\ r.restart = s.restart /\ r.ledger = s.ledger

\* s, recovered: every todo keeps its request and tells what that came to.
Recovers(s, r, reqs) ==
    /\ r \in Sprints /\ SameSprint(s, r)
    /\ Tracks(r, reqs)
    /\ \A t \in Todos : Same(s.todo[t], r.todo[t]) /\ Fresh(r.todo[t], reqs[t])

\* Recovering a sprint recovers every todo of it, and nothing else.
LEMMA RecoveredTracks ==
    ASSUME SprintAssumption, NEW s \in Sprints, NEW reqs \in AllShapes, Tracks(s, reqs)
    PROVE  LET r == Recovered(s, reqs) IN
           /\ Recovers(s, r, reqs)
           /\ \A t \in Todos : r.todo[t] = RecoverTodo(s.todo[t], reqs[t])
<1> DEFINE r == Recovered(s, reqs)
<1>1. \A t \in Todos : s.todo[t] \in TodoRecords /\ reqs[t] \in [Tries -> RequestShapes]
  BY DEF Sprints, AllShapes
<1>2. ASSUME NEW t \in Todos
      PROVE  LET y == RecoverTodo(s.todo[t], reqs[t]) IN
             y \in TodoRecords /\ Same(s.todo[t], y) /\ Fresh(y, reqs[t])
  <2>1. Shape(s.todo[t], reqs[t])
    BY DEF Tracks
  <2> QED BY <1>1, <2>1, RecoverShape
<1>3. r = [s EXCEPT !.todo = [t \in Todos |-> RecoverTodo(s.todo[t], reqs[t])]]
  BY DEF Recovered, Sprints
<1>4. /\ \A t \in Todos : r.todo[t] = RecoverTodo(s.todo[t], reqs[t])
      /\ SameSprint(s, r)
  BY <1>3 DEF Sprints, SameSprint
<1>5. r \in Sprints
  <2>1. [t \in Todos |-> RecoverTodo(s.todo[t], reqs[t])] \in [Todos -> TodoRecords]
    BY <1>2
  <2> HIDE DEF r
  <2> QED BY <1>3, <2>1 DEF Sprints
<1> HIDE DEF r
<1>6. \A t \in Todos : Same(s.todo[t], r.todo[t]) /\ Fresh(r.todo[t], reqs[t])
  BY <1>2, <1>4
<1>7. Tracks(r, reqs)
  BY <1>6 DEF Tracks, Fresh
<1> QED BY <1>4, <1>5, <1>6, <1>7 DEF Recovers, r

\* A todo that is done stays so.
LEMMA StaysDone ==
    ASSUME SprintAssumption, NEW s, NEW r, NEW reqs \in AllShapes, Recovers(s, r, reqs),
           NEW t \in Todos
    PROVE  r.todo[t].status \in Done <=> \E n \in Tries : reqs[t][n].result \in Done
<1>1. r.todo[t] \in TodoRecords /\ reqs[t] \in [Tries -> RequestShapes]
      /\ Fresh(r.todo[t], reqs[t])
  BY DEF Recovers, Sprints, AllShapes
<1> QED BY <1>1, FreshSays

\* So does one that is queued.
LEMMA QueuedStays ==
    ASSUME SprintAssumption, NEW x \in TodoRecords, NEW qs \in [Tries -> RequestShapes],
           Shape(x, qs), StaysQueued(x, qs)
    PROVE  StaysQueued(RecoverTodo(x, qs), qs)
<1>1. CASE x.request = 0
  <2>1. Unmade(x, qs) \/ Retired(x, qs)
    BY <1>1 DEF Shape, First, Second, Back, Follows
  <2>2. RecoverTodo(x, qs) = x
    BY <2>1, RecoverShape
  <2> QED BY <2>2
<1>2. CASE x.request # 0
  <2>1. \E n \in Tries : x.request = n /\ Going(x, n, qs)
    BY <1>2 DEF Shape, Unmade, Retired, Back, First, Second, Follows, Going, StaysQueued,
        Tries, SprintAssumption
  <2>2. PICK n \in Tries : x.request = n /\ Going(x, n, qs)
    BY <2>1
  <2>3. x.stamp < 2 * n /\ qs[n] = Cancelled
    BY <1>2, <2>2 DEF StaysQueued, Cancelled
  <2> DEFINE y == RecoverTodo(x, qs)
  <2>4. Same(x, y) /\ y.stamp < 2 * n /\ y.status = TodoStatus(qs[n])
    BY <2>2, <2>3, RecoverGoing
  <2>5. TodoStatus(Cancelled) = "queued"
    BY DEF Cancelled, TodoStatus, StatusAmong, TodoStatuses, Executable, Done
  <2> HIDE DEF y
  <2>6. StaysQueued(y, qs)
    BY <2>2, <2>3, <2>4, <2>5 DEF StaysQueued, Same, Cancelled
  <2> QED BY <2>6 DEF y
<1> QED BY <1>1, <1>2

\* One that is just recovered as queued stays so.
LEMMA FreshStaysQueued ==
    ASSUME SprintAssumption, NEW x \in TodoRecords, NEW qs \in [Tries -> RequestShapes],
           Fresh(x, qs), x.status = "queued"
    PROVE  StaysQueued(x, qs)
<1>1. x.request # 0 => qs[x.request] = Cancelled /\ x.stamp < 2 * x.request
  BY FreshSays
<1> QED BY <1>1 DEF StaysQueued, Cancelled

\* A request that is open is the last one of its todo.
LEMMA OpenIsLast ==
    ASSUME SprintAssumption, NEW x, NEW qs \in [Tries -> RequestShapes],
           Shape(x, qs), NEW n \in Tries, qs[n].status \in {"delegated", "uncommitted"}
    PROVE  Going(x, n, qs) /\ x.request = n /\ Made(qs[n]) /\ ~Dead(qs[n])
<1>1. Made(qs[n]) /\ ~Dead(qs[n]) /\ n \in Nat /\ n >= 1
  <2>1. qs[n] \in RequestShapes
    OBVIOUS
  <2> QED BY <2>1 DEF Made, Dead, RequestShapes, NoRequest, Tries, SprintAssumption
<1>2. \A k \in {0, 1, 2} : NoneAfter(k, qs) => n <= k
  BY <1>1 DEF NoneAfter
<1>3. ~Unmade(x, qs) /\ ~Retired(x, qs) /\ ~Back(x, qs)
  BY <1>1, <1>2 DEF Unmade, Retired, Back
<1>4. First(x, qs) => n = 1
  BY <1>1, <1>2 DEF First
<1>5. Second(x, qs) => n = 2
  BY <1>1, <1>2 DEF Second
<1> QED BY <1>1, <1>3, <1>4, <1>5 DEF Shape, Going, First, Second, Follows

\* z is s when request n of t was saved as q.
Outdates(s, z, t, n, q, reqs, news) ==
    /\ news \in AllShapes /\ Tracks(z, news)
    /\ z \in Sprints /\ SameSprint(s, z)
    /\ \A u \in Todos : Same(s.todo[u], z.todo[u])
                        /\ z.todo[u].status = s.todo[u].status
    /\ \A u \in Todos : u # t => z.todo[u] = s.todo[u] /\ news[u] = reqs[u]
    /\ z.todo[t] = OutdatedTodo(s.todo[t], n)
    /\ news[t] = [reqs[t] EXCEPT ![n] = q]
    /\ \A m \in Tries : Going(s.todo[t], m, reqs[t]) =>
         /\ Going(z.todo[t], m, news[t])
         /\ m = n \/ s.todo[t].stamp < 2 * m => z.todo[t].stamp < 2 * m

\* A sprint when a request's record was saved.
LEMMA OutdatedTracks ==
    ASSUME SprintAssumption, NEW s \in Sprints, NEW reqs \in AllShapes, Tracks(s, reqs),
           NEW t \in Todos, NEW n \in Tries, NEW q \in RequestShapes,
           Made(reqs[t][n]), Made(q), Dead(reqs[t][n]) => Dead(q),
           NEW z, z = Outdated(s, t, n),
           NEW news, news = [reqs EXCEPT ![t][n] = q]
    PROVE  Outdates(s, z, t, n, q, reqs, news)
<1> DEFINE x == s.todo[t]
<1>1. /\ \A u \in Todos : s.todo[u] \in TodoRecords /\ reqs[u] \in [Tries -> RequestShapes]
      /\ \A u \in Todos : Shape(s.todo[u], reqs[u])
  BY DEF Sprints, AllShapes, Tracks
<1>2. news = [reqs EXCEPT ![t] = [reqs[t] EXCEPT ![n] = q]]
  BY DEF AllShapes
<1>3. /\ news \in AllShapes /\ news[t] = [reqs[t] EXCEPT ![n] = q]
      /\ \A u \in Todos : u # t => news[u] = reqs[u]
  BY <1>1, <1>2 DEF AllShapes
<1>4. /\ OutdatedTodo(x, n) \in TodoRecords /\ Same(x, OutdatedTodo(x, n))
      /\ OutdatedTodo(x, n).status = x.status
      /\ Shape(OutdatedTodo(x, n), news[t])
      /\ \A m \in Tries : Going(x, m, reqs[t]) =>
            /\ Going(OutdatedTodo(x, n), m, news[t])
            /\ m = n \/ x.stamp < 2 * m => OutdatedTodo(x, n).stamp < 2 * m
  <2> DEFINE rs == [reqs[t] EXCEPT ![n] = q]
             y == OutdatedTodo(x, n)
  <2>1. /\ x \in TodoRecords /\ reqs[t] \in [Tries -> RequestShapes] /\ Shape(x, reqs[t])
        /\ news[t] = rs
    BY <1>1, <1>3
  <2> HIDE DEF x
  <2>2. /\ y \in TodoRecords /\ Same(x, y) /\ y.status = x.status
        /\ Shape(y, rs)
        /\ \A m \in Tries : Going(x, m, reqs[t]) =>
              /\ Going(y, m, rs)
              /\ m = n \/ x.stamp < 2 * m => y.stamp < 2 * m
    BY <2>1, OutdateShape
  <2> HIDE DEF y, rs
  <2>3. QED BY <2>1, <2>2 DEF y
<1>5. z = [s EXCEPT !.todo = [s.todo EXCEPT ![t] = OutdatedTodo(x, n)]]
  BY DEF Outdated, OutdatedTodo, Sprints, TodoRecords
<1> HIDE DEF x
<1>6. /\ z \in Sprints /\ SameSprint(s, z)
      /\ z.todo[t] = OutdatedTodo(x, n)
      /\ \A u \in Todos : u # t => z.todo[u] = s.todo[u]
  BY <1>4, <1>5 DEF Sprints, SameSprint
<1>7. Tracks(z, news)
  BY <1>1, <1>3, <1>4, <1>6 DEF Tracks
<1>8. \A u \in Todos : Same(s.todo[u], z.todo[u]) /\ z.todo[u].status = s.todo[u].status
  BY <1>4, <1>6 DEF Same, x
<1> QED BY <1>3, <1>4, <1>6, <1>7, <1>8 DEF x, Outdates

\* After a save, the item of every queued todo is selected.
LEMMA BacklogSynced ==
    ASSUME NEW s \in Sprints, SyncBacklog(s),
           backlog \in [Todos -> {"none", "selected", "done", "blocked", "carried_over"}]
    PROVE  /\ backlog' \in [Todos -> {"none", "selected", "done", "blocked", "carried_over"}]
           /\ \A t \in Todos : s.todo[t].status = "queued" => backlog'[t] = "selected"
<1>1. \A st \in TodoStatuses :
         BacklogStatus(st) \in {"none", "selected", "done", "blocked", "carried_over"}
  BY DEF BacklogStatus, TodoStatuses, Executable, Done
<1>2. BacklogStatus("queued") = "selected" /\ "queued" \in TodoStatuses
  BY DEF BacklogStatus, TodoStatuses, Executable, Done
<1> QED BY <1>1, <1>2 DEF SyncBacklog

-----------------------------------------------------------------------------
(* A role's report keeps the invariant *)

Kept == UNCHANGED <<stage, cur, interrupted>>

\* A role's report, recorded in the request and both copies of the sprint, keeps the
\* invariant.
LEMMA ReportKeeps ==
    ASSUME SprintAssumption, RequirementsAssumption, IInv,
           NEW t \in Todos, NEW n \in Tries, NEW q \in RequestShapes,
           q.status \notin {"none", "uncommitted"},
           q.result \notin {"none", "uncommitted", "committed"},
           Open(t, n), RecordRequest(t, n, q.status, q.result), ChangesMade(t),
           UNCHANGED <<stage, cur, asking, active, interrupted>>, faults' \in 0..MaxFaults
    PROVE  IInv'
<1> DEFINE d == Outdated(disk, t, n)
           r == Recovered(d, request')
<1>1. /\ TypeOK /\ request \in AllShapes /\ heard = [w \in Wishes |-> heard[w]]
      /\ Tracks(disk, request) /\ (stage # "idle" => Tracks(mem, request))
      /\ disk \in Sprints /\ mem \in Sprints
  BY DEF IInv, TypeOK
<1>2. q = [status |-> q.status, result |-> q.result]
  BY DEF RequestShapes, NoRequest
<1>3. /\ request' = [request EXCEPT ![t][n] = q]
      /\ disk' = r /\ SyncBacklog(r) /\ mem' = Outdated(mem, t, n)
  <2>1. q \in RequestShapes
    OBVIOUS
  <2> HIDE DEF d
  <2> QED BY <1>2 DEF RecordRequest, SetRequest, SaveFile, d
<1>4. /\ Shape(disk.todo[t], request[t]) /\ request[t] \in [Tries -> RequestShapes]
      /\ request[t][n].status = "delegated"
  BY <1>1 DEF Open, Tracks, AllShapes
<1>5. /\ Made(request[t][n]) /\ ~Dead(request[t][n]) /\ Made(q)
      /\ Going(disk.todo[t], n, request[t])
  BY <1>4, OpenIsLast DEF Made
<1> HIDE DEF d
<1>6. /\ request' \in AllShapes /\ Tracks(d, request')
      /\ d \in Sprints /\ SameSprint(disk, d)
      /\ \A u \in Todos : Same(disk.todo[u], d.todo[u])
                          /\ d.todo[u].status = disk.todo[u].status
      /\ \A u \in Todos : u # t => d.todo[u] = disk.todo[u] /\ request'[u] = request[u]
      /\ request'[t] = [request[t] EXCEPT ![n] = q]
  <2>1. d = Outdated(disk, t, n)
    BY DEF d
  <2>2. Dead(request[t][n]) => Dead(q)
    BY <1>5
  <2>3. Outdates(disk, d, t, n, q, request, request')
    BY <1>1, <1>3, <1>5, <2>1, <2>2, OutdatedTracks
  <2> QED BY <2>3 DEF Outdates
<1>7. mem' \in Sprints /\ SameSprint(mem, mem')
  <2>1. mem' = [mem EXCEPT !.todo[t].stamp = IF @ = 2 * n THEN 2 * n - 1 ELSE @]
    BY <1>3 DEF Outdated
  <2>2. 2 * n - 1 \in 0..(2 * MaxTries)
    BY DEF Tries, SprintAssumption
  <2> DEFINE x == mem.todo[t]
             y == [x EXCEPT !.stamp = IF @ = 2 * n THEN 2 * n - 1 ELSE @]
  <2>3. mem' = [mem EXCEPT !.todo = [mem.todo EXCEPT ![t] = y]]
    BY <1>1, <2>1 DEF Sprints
  <2>4. y \in TodoRecords
    <3>1. x \in TodoRecords
      BY <1>1 DEF Sprints
    <3> HIDE DEF x
    <3> QED BY <2>2, <3>1 DEF TodoRecords
  <2> HIDE DEF y, x
  <2> QED BY <1>1, <2>3, <2>4 DEF Sprints, SameSprint
<1>8. stage # "idle" =>
        /\ Tracks(mem', request')
        /\ \A u \in Todos : Same(mem.todo[u], mem'.todo[u])
                            /\ mem'.todo[u].status = mem.todo[u].status
        /\ \A u \in Todos : u # t => mem'.todo[u] = mem.todo[u]
        /\ \A m \in Tries : Going(mem.todo[t], m, request[t]) =>
             /\ Going(mem'.todo[t], m, request'[t])
             /\ m = n \/ mem.todo[t].stamp < 2 * m => mem'.todo[t].stamp < 2 * m
  <2>1. Dead(request[t][n]) => Dead(q)
    BY <1>5
  <2>2. stage # "idle" => Outdates(mem, mem', t, n, q, request, request')
    BY <1>1, <1>3, <1>5, <2>1, OutdatedTracks
  <2> QED BY <2>2 DEF Outdates
<1>9. Recovers(d, r, request')
  BY <1>6, RecoveredTracks
<1> HIDE DEF r
<1>10. r \in Sprints /\ SameSprint(disk, r) /\ Tracks(r, request')
       /\ \A u \in Todos : Same(disk.todo[u], r.todo[u])
  BY <1>6, <1>9 DEF Recovers, SameSprint, Same
<1>11. t \in interrupted \/ (stage = "running" /\ cur = t)
  BY DEF IInv, OpenIsAwaited
<1>12. Kept /\ changes' \in {changes, changes \cup {t}}
  BY DEF ChangesMade, Kept
<1>13. /\ backlog' \in [Todos -> {"none", "selected", "done", "blocked", "carried_over"}]
       /\ \A u \in Todos : r.todo[u].status = "queued" => backlog'[u] = "selected"
  BY <1>1, <1>3, <1>10, BacklogSynced DEF TypeOK
<1>14. TypeOK'
  <2>1. request' \in [Todos -> [Tries -> Requests]]
    BY <1>6 DEF AllShapes, RequestShapes, NoRequest, Requests, Terminal
  <2> QED BY <1>1, <1>3, <1>7, <1>10, <1>12, <1>13, <2>1 DEF TypeOK, asking, wishing
<1>15. (heard = [w \in Wishes |-> heard[w]])' /\ (request \in AllShapes)'
  BY <1>1, <1>6 DEF asking, wishing
<1>16. (Tracks(disk, request) /\ (stage # "idle" => Tracks(mem, request)))'
  BY <1>3, <1>8, <1>10
<1>17. StatusesAgree'
  BY <1>3, <1>7, <1>10, <1>12 DEF IInv, StatusesAgree, SameSprint, Kept
<1>18. OpenIsAwaited'
  <2>1. \A u \in Todos, m \in Tries : Open(u, m)' => Open(u, m)
    BY <1>4, <1>6 DEF Open
  <2> QED BY <1>12, <2>1 DEF IInv, OpenIsAwaited, Kept
<1>19. LoopIsAtWork'
  <2>1. stage \in {"running", "committing"} =>
          \E m \in Tries : /\ Going(mem.todo[cur], m, request[cur]) /\ mem.todo[cur].request = m
                           /\ mem.todo[cur].stamp < 2 * m
    BY DEF IInv, LoopIsAtWork, Going, First, Second, Follows, Tries, SprintAssumption
  <2>2. cur \in Todos /\ cur' = cur /\ stage' = stage
    BY <1>1, <1>12 DEF TypeOK, Kept
  <2>3. CASE stage \in {"running", "committing"}
    <3>1. PICK m \in Tries : /\ Going(mem.todo[cur], m, request[cur])
                             /\ mem.todo[cur].request = m /\ mem.todo[cur].stamp < 2 * m
      BY <2>1, <2>3
    <3>2. /\ Going(mem'.todo[cur], m, request'[cur]) /\ mem'.todo[cur].stamp < 2 * m
          /\ mem'.todo[cur].request = m
      <4>1. CASE cur = t
        BY <1>8, <2>2, <2>3, <3>1, <4>1 DEF Same
      <4>2. CASE cur # t
        BY <1>6, <1>8, <2>2, <2>3, <3>1, <4>2
      <4> QED BY <4>1, <4>2
    <3>3. stage = "running" => request'[cur][m].result \notin {"committed", "uncommitted"}
      <4>1. stage = "running" => request[cur][m].result \notin {"committed", "uncommitted"}
        BY <3>1 DEF IInv, LoopIsAtWork
      <4> QED BY <1>4, <1>6, <2>2, <4>1
    <3>4. stage = "committing" => request'[cur][m].status = "uncommitted"
      <4>1. stage = "committing" => request[cur][m].status = "uncommitted"
        BY <3>1 DEF IInv, LoopIsAtWork
      <4>2. stage = "committing" /\ cur = t => m # n
        BY <1>4, <4>1
      <4> QED BY <1>4, <1>6, <2>2, <4>1, <4>2
    <3>5. First(mem'.todo[cur], request'[cur]) \/ Second(mem'.todo[cur], request'[cur])
      BY <3>2 DEF Going
    <3> QED BY <2>2, <2>3, <3>2, <3>3, <3>4, <3>5 DEF LoopIsAtWork
  <2> QED BY <2>2, <2>3 DEF LoopIsAtWork
<1>20. ChangesAreOwed'
  <2>1. ASSUME NEW u \in changes' \ interrupted'
        PROVE  (stage = "running" /\ cur = u)' \/ \A m \in Tries : request'[u][m].result \notin Done
    <3>1. u # t => u \in changes \ interrupted /\ request'[u] = request[u]
      BY <1>1, <1>6, <1>12, <2>1 DEF Kept, TypeOK
    <3> QED BY <1>11, <1>12, <2>1, <3>1 DEF IInv, ChangesAreOwed, Kept
  <2> QED BY <2>1 DEF ChangesAreOwed
<1>21. NothingForgotten'
  <2>1. \A u \in Todos, m \in Tries :
            request'[u][m].status = "uncommitted" => request[u][m].status = "uncommitted"
    BY <1>4, <1>6
  <2> QED BY <1>8, <1>12, <2>1 DEF IInv, NothingForgotten, Kept
<1>22. DoneIsCommitted'
  BY <1>8, <1>11, <1>12 DEF IInv, DoneIsCommitted, Kept
<1>23. QueuedIsSelected'
  <2>1. SUFFICES ASSUME stage = "review", NEW u \in Todos, mem'.todo[u].status = "queued"
                 PROVE  StaysQueued(r.todo[u], request'[u]) /\ backlog'[u] = "selected"
    BY <1>3, <1>12 DEF QueuedIsSelected, Kept
  <2>2. StaysQueued(disk.todo[u], request[u])
    BY <1>8, <2>1 DEF IInv, QueuedIsSelected
  <2>3. u # t
    <3>1. disk.todo[t].request = n
      BY <1>4, OpenIsLast
    <3> QED BY <1>4, <2>2, <3>1 DEF StaysQueued, Tries
  <2>4. r.todo[u] = RecoverTodo(d.todo[u], request'[u])
    BY <1>6, RecoveredTracks DEF r
  <2>5. /\ d.todo[u] \in TodoRecords /\ request'[u] \in [Tries -> RequestShapes]
        /\ Shape(d.todo[u], request'[u]) /\ StaysQueued(d.todo[u], request'[u])
    BY <1>6, <2>2, <2>3 DEF Sprints, AllShapes, Tracks
  <2>6. StaysQueued(r.todo[u], request'[u])
    BY <2>4, <2>5, QueuedStays
  <2> QED BY <1>13, <2>6 DEF StaysQueued
<1>24. CloseoutIsMet'
  <2>1. ASSUME stage = "closeout" PROVE MetBy(mem)'
    <3>1. MetBy(mem)
      BY <2>1 DEF IInv, CloseoutIsMet
    <3>2. /\ mem'.ledger = mem.ledger /\ t \in interrupted /\ interrupted' = interrupted
          /\ \A u \in Todos : mem'.todo[u].covers = mem.todo[u].covers
                              /\ mem'.todo[u].status = mem.todo[u].status
          /\ \A u \in Todos : u # t => request'[u] = request[u]
      BY <1>6, <1>7, <1>8, <1>11, <1>12, <2>1 DEF Same, SameSprint, Kept
    <3> QED BY <3>1, <3>2 DEF MetBy
  <2>2. ASSUME disk'.status = "completed" PROVE MetBy(disk)' /\ WorktreeIsClean'
    <3>1. disk.status = "completed"
      BY <1>3, <1>10, <2>2 DEF SameSprint
    <3>2. MetBy(disk) /\ WorktreeIsClean
      BY <3>1 DEF IInv, CloseoutIsMet
    <3>3. stage # "running"
      BY <3>1 DEF IInv, StatusesAgree
    <3>4. t \in interrupted /\ interrupted' = interrupted
      BY <1>11, <1>12, <3>3 DEF Kept
    <3>5. \A u \in Todos : u # t =>
            ((\E m \in Tries : request[u][m].result \in Done) => disk'.todo[u].status \in Done)
      BY <1>3, <1>6, <1>9, StaysDone
    <3>6. \A u \in Todos : u # t => request'[u] = request[u]
      BY <1>6
    <3>7. disk'.ledger = disk.ledger /\ \A u \in Todos : disk'.todo[u].covers = disk.todo[u].covers
      BY <1>3, <1>10 DEF SameSprint, Same
    <3>8. MetBy(disk)'
      BY <3>2, <3>4, <3>5, <3>6, <3>7 DEF MetBy
    <3> QED BY <1>12, <3>2, <3>4, <3>8 DEF WorktreeIsClean
  <2> QED BY <1>12, <2>1, <2>2 DEF CloseoutIsMet, Kept
<1>25. WishesHaveFates'
  BY <1>3, <1>7, <1>10, <1>12 DEF IInv, WishesHaveFates, SameSprint, asking, wishing, Kept
<1> QED BY <1>14, <1>15, <1>16, <1>17, <1>18, <1>19, <1>20, <1>21, <1>22, <1>23, <1>24, <1>25 DEF IInv

-----------------------------------------------------------------------------
(* So does the cancellation of a request *)

\* An operator's cancellation of a todo's last request keeps the invariant.
LEMMA CancelKeeps ==
    ASSUME SprintAssumption, RequirementsAssumption, IInv,
           NEW t \in Todos, NEW n \in Tries, Cancel(t, n)
    PROVE  IInv'
<1> DEFINE q == [status |-> "cancelled", result |-> request[t][n].result]
<1>1. /\ TypeOK /\ request \in AllShapes /\ heard = [w \in Wishes |-> heard[w]]
      /\ Tracks(disk, request) /\ (stage # "idle" => Tracks(mem, request))
      /\ disk \in Sprints /\ mem \in Sprints
  BY DEF IInv, TypeOK
<1>2. /\ request[t] \in [Tries -> RequestShapes] /\ request[t][n] \in RequestShapes
      /\ request[t][n].status \notin {"none", "uncommitted", "cancelled"}
      /\ \A k \in Tries : k > n => request[t][k].status = "none"
  BY <1>1 DEF AllShapes, Cancel
<1>3. q \in RequestShapes
  BY <1>2 DEF RequestShapes, NoRequest
<1>4. Made(q) /\ Made(request[t][n]) /\ (Dead(request[t][n]) => Dead(q))
  BY <1>2 DEF Made, Dead
<1>5. /\ request' = [request EXCEPT ![t][n] = q]
      /\ disk' = Outdated(disk, t, n) /\ mem' = Outdated(mem, t, n)
      /\ UNCHANGED <<stage, cur, asking, changes, backlog, active, interrupted>>
      /\ faults' \in 0..MaxFaults
  BY <1>1 DEF Cancel, SetRequest, Fault, TypeOK, SprintAssumption
<1>6. /\ q.status = "cancelled" /\ q.result = request[t][n].result
  OBVIOUS
<1> HIDE DEF q
<1>7. /\ request' \in AllShapes /\ Tracks(disk', request')
      /\ disk' \in Sprints /\ SameSprint(disk, disk')
      /\ \A u \in Todos : Same(disk.todo[u], disk'.todo[u])
                          /\ disk'.todo[u].status = disk.todo[u].status
      /\ \A u \in Todos : u # t => disk'.todo[u] = disk.todo[u] /\ request'[u] = request[u]
      /\ request'[t] = [request[t] EXCEPT ![n] = q]
  <2>1. Outdates(disk, disk', t, n, q, request, request')
    BY <1>1, <1>3, <1>4, <1>5, OutdatedTracks
  <2> QED BY <2>1 DEF Outdates
<1>8. mem' \in Sprints /\ SameSprint(mem, mem')
  <2>1. mem' = [mem EXCEPT !.todo[t].stamp = IF @ = 2 * n THEN 2 * n - 1 ELSE @]
    BY <1>5 DEF Outdated
  <2>2. 2 * n - 1 \in 0..(2 * MaxTries)
    BY DEF Tries, SprintAssumption
  <2> DEFINE x == mem.todo[t]
             y == [x EXCEPT !.stamp = IF @ = 2 * n THEN 2 * n - 1 ELSE @]
  <2>3. mem' = [mem EXCEPT !.todo = [mem.todo EXCEPT ![t] = y]]
    BY <1>1, <2>1 DEF Sprints
  <2>4. y \in TodoRecords
    <3>1. x \in TodoRecords
      BY <1>1 DEF Sprints
    <3> HIDE DEF x
    <3> QED BY <2>2, <3>1 DEF TodoRecords
  <2> HIDE DEF y, x
  <2> QED BY <1>1, <2>3, <2>4 DEF Sprints, SameSprint
<1>9. stage # "idle" =>
        /\ Tracks(mem', request')
        /\ \A u \in Todos : Same(mem.todo[u], mem'.todo[u])
                            /\ mem'.todo[u].status = mem.todo[u].status
        /\ \A u \in Todos : u # t => mem'.todo[u] = mem.todo[u]
        /\ \A m \in Tries : Going(mem.todo[t], m, request[t]) =>
             /\ Going(mem'.todo[t], m, request'[t])
             /\ m = n \/ mem.todo[t].stamp < 2 * m => mem'.todo[t].stamp < 2 * m
  <2>1. stage # "idle" => Outdates(mem, mem', t, n, q, request, request')
    BY <1>1, <1>3, <1>4, <1>5, OutdatedTracks
  <2> QED BY <2>1 DEF Outdates
<1>10. \A u \in Todos, m \in Tries :
          /\ request'[u][m].result = request[u][m].result
          /\ request'[u][m].status \in {"uncommitted", "delegated"} =>
               request[u][m].status = request'[u][m].status
  BY <1>2, <1>6, <1>7
<1>11. TypeOK'
  <2>1. request' \in [Todos -> [Tries -> Requests]]
    BY <1>7 DEF AllShapes, RequestShapes, NoRequest, Requests, Terminal
  <2> QED BY <1>1, <1>5, <1>7, <1>8, <2>1 DEF TypeOK, asking, wishing
<1>12. (heard = [w \in Wishes |-> heard[w]])' /\ (request \in AllShapes)'
  BY <1>1, <1>5, <1>7 DEF asking, wishing
<1>13. (Tracks(disk, request) /\ (stage # "idle" => Tracks(mem, request)))'
  BY <1>5, <1>7, <1>9
<1>14. StatusesAgree'
  BY <1>5, <1>7, <1>8 DEF IInv, StatusesAgree, SameSprint
<1>15. OpenIsAwaited'
  BY <1>5, <1>10 DEF IInv, OpenIsAwaited, Open
<1>16. LoopIsAtWork'
  <2>1. stage \in {"running", "committing"} =>
          \E m \in Tries : /\ Going(mem.todo[cur], m, request[cur]) /\ mem.todo[cur].request = m
                           /\ mem.todo[cur].stamp < 2 * m
    BY DEF IInv, LoopIsAtWork, Going, First, Second, Follows, Tries, SprintAssumption
  <2>2. cur \in Todos /\ cur' = cur /\ stage' = stage
    BY <1>1, <1>5 DEF TypeOK
  <2>3. CASE stage \in {"running", "committing"}
    <3>1. PICK m \in Tries : /\ Going(mem.todo[cur], m, request[cur])
                             /\ mem.todo[cur].request = m /\ mem.todo[cur].stamp < 2 * m
      BY <2>1, <2>3
    <3>2. /\ Going(mem'.todo[cur], m, request'[cur]) /\ mem'.todo[cur].stamp < 2 * m
          /\ mem'.todo[cur].request = m
      <4>1. CASE cur = t
        BY <1>9, <2>2, <2>3, <3>1, <4>1 DEF Same
      <4>2. CASE cur # t
        BY <1>7, <1>9, <2>2, <2>3, <3>1, <4>2
      <4> QED BY <4>1, <4>2
    <3>3. stage = "running" => request'[cur][m].result \notin {"committed", "uncommitted"}
      BY <1>10, <2>2, <3>1 DEF IInv, LoopIsAtWork
    <3>4. stage = "committing" => request'[cur][m].status = "uncommitted"
      <4>1. stage = "committing" => request[cur][m].status = "uncommitted"
        BY <3>1 DEF IInv, LoopIsAtWork
      <4>2. stage = "committing" /\ cur = t => m # n
        BY <1>2, <4>1
      <4> QED BY <1>2, <1>7, <2>2, <4>1, <4>2
    <3>5. First(mem'.todo[cur], request'[cur]) \/ Second(mem'.todo[cur], request'[cur])
      BY <3>2 DEF Going
    <3> QED BY <2>2, <2>3, <3>2, <3>3, <3>4, <3>5 DEF LoopIsAtWork
  <2> QED BY <2>2, <2>3 DEF LoopIsAtWork
<1>17. ChangesAreOwed'
  <2>1. \A u \in changes : u \in Todos
    BY <1>1 DEF TypeOK
  <2> QED BY <1>5, <1>10, <2>1 DEF IInv, ChangesAreOwed
<1>18. NothingForgotten'
  BY <1>5, <1>9, <1>10 DEF IInv, NothingForgotten
<1>19. DoneIsCommitted'
  BY <1>5, <1>9 DEF IInv, DoneIsCommitted
<1>20. QueuedIsSelected'
  <2>1. SUFFICES ASSUME stage = "review", NEW u \in Todos, mem'.todo[u].status = "queued"
                 PROVE  StaysQueued(disk'.todo[u], request'[u]) /\ backlog[u] = "selected"
    BY <1>5 DEF QueuedIsSelected
  <2>2. StaysQueued(disk.todo[u], request[u]) /\ backlog[u] = "selected"
    BY <1>9, <2>1 DEF IInv, QueuedIsSelected
  <2>3. CASE u # t
    BY <1>7, <2>2, <2>3
  <2>4. CASE u = t /\ disk.todo[u].request = 0
    BY <1>7, <2>2, <2>4 DEF StaysQueued, Same
  <2>5. u = t => disk.todo[u].request = 0
    <3>1. SUFFICES ASSUME u = t, disk.todo[t].request # 0 PROVE FALSE
      OBVIOUS
    <3> DEFINE x == disk.todo[t]
               k == x.request
    <3>2. Shape(x, request[t]) /\ x.status = "queued"
      BY <1>1, <2>2, <3>1 DEF Tracks, StaysQueued
    <3> HIDE DEF x
    <3>3. First(x, request[t]) \/ Second(x, request[t])
      BY <3>1, <3>2 DEF Shape, Unmade, Retired, Back, x
    <3>4. k \in Tries /\ NoneAfter(k, request[t]) /\ Made(request[t][k])
      BY <3>3 DEF First, Second, Follows, Tries, SprintAssumption
    <3>5. k \in Nat /\ n \in Nat
      BY <3>4 DEF Tries
    <3>6. ~(k < n) /\ ~(k > n)
      BY <1>2, <3>4, <3>5 DEF NoneAfter, Made
    <3>7. k = n
      BY <3>5, <3>6
    <3>8. request[t][k].status = "cancelled"
      BY <2>2, <3>1 DEF StaysQueued, x
    <3> QED BY <1>2, <3>7, <3>8
  <2> QED BY <2>3, <2>4, <2>5
<1>21. CloseoutIsMet'
  <2>1. ASSUME stage = "closeout" PROVE MetBy(mem)'
    <3>1. MetBy(mem)
      BY <2>1 DEF IInv, CloseoutIsMet
    <3>2. /\ mem'.ledger = mem.ledger /\ interrupted' = interrupted
          /\ \A u \in Todos : mem'.todo[u].covers = mem.todo[u].covers
                              /\ mem'.todo[u].status = mem.todo[u].status
      BY <1>5, <1>8, <1>9, <2>1 DEF Same, SameSprint
    <3> QED BY <1>10, <3>1, <3>2 DEF MetBy
  <2>2. ASSUME disk'.status = "completed" PROVE MetBy(disk)' /\ WorktreeIsClean'
    <3>1. disk.status = "completed"
      BY <1>7, <2>2 DEF SameSprint
    <3>2. MetBy(disk) /\ WorktreeIsClean
      BY <3>1 DEF IInv, CloseoutIsMet
    <3>3. /\ disk'.ledger = disk.ledger /\ interrupted' = interrupted
          /\ \A u \in Todos : disk'.todo[u].covers = disk.todo[u].covers
                              /\ disk'.todo[u].status = disk.todo[u].status
      BY <1>5, <1>7 DEF Same, SameSprint
    <3>4. MetBy(disk)'
      BY <1>10, <3>2, <3>3 DEF MetBy
    <3> QED BY <1>5, <3>2, <3>4 DEF WorktreeIsClean
  <2> QED BY <1>5, <2>1, <2>2 DEF CloseoutIsMet
<1>22. WishesHaveFates'
  BY <1>5, <1>7, <1>8 DEF IInv, WishesHaveFates, SameSprint, asking, wishing
<1> QED BY <1>11, <1>12, <1>13, <1>14, <1>15, <1>16, <1>17, <1>18, <1>19, <1>20, <1>21, <1>22
        DEF IInv

-----------------------------------------------------------------------------
(* And what operators and users have written to the file *)

\* A save that changes only the file, and no todo but by recovering it, keeps the
\* invariant.
LEMMA FileKeeps ==
    ASSUME SprintAssumption, RequirementsAssumption, IInv,
           NEW d, d \in Sprints, d.status = disk.status,
           Requirements(d.ledger) = Requirements(disk.ledger),
           Tracks(d, request),
           \A t \in Todos : Same(disk.todo[t], d.todo[t]),
           \A t \in Todos : StaysQueued(disk.todo[t], request[t])
                              => StaysQueued(d.todo[t], request[t]),
           SaveFile(Recovered(d, request)),
           UNCHANGED <<mem, stage, cur, review, request, changes, interrupted>>,
           active' \in BOOLEAN, faults' \in 0..MaxFaults, taken' \subseteq Wishes,
           heard' = [w \in Wishes |-> heard'[w]], \A w \in Wishes : heard'[w] \subseteq Sprints,
           WishesHaveFates'
    PROVE  IInv'
<1> DEFINE r == Recovered(d, request)
<1>1. /\ TypeOK /\ request \in AllShapes
      /\ Tracks(disk, request) /\ (stage # "idle" => Tracks(mem, request))
  BY DEF IInv, TypeOK
<1>2. Recovers(d, r, request)
  BY <1>1, RecoveredTracks
<1>3. disk' = r /\ SyncBacklog(r)
  BY DEF SaveFile
<1> HIDE DEF r
<1>4. r \in Sprints /\ SameSprint(d, r) /\ Tracks(r, request)
      /\ \A u \in Todos : r.todo[u].covers = disk.todo[u].covers
  BY <1>2 DEF Recovers, Same
<1>5. /\ backlog' \in [Todos -> {"none", "selected", "done", "blocked", "carried_over"}]
      /\ \A u \in Todos : r.todo[u].status = "queued" => backlog'[u] = "selected"
  BY <1>1, <1>3, <1>4, BacklogSynced DEF TypeOK
<1>6. TypeOK'
  BY <1>1, <1>3, <1>4, <1>5 DEF TypeOK
<1>7. (Tracks(disk, request) /\ (stage # "idle" => Tracks(mem, request)))'
  BY <1>1, <1>3, <1>4
<1>8. StatusesAgree'
  BY <1>3, <1>4 DEF IInv, StatusesAgree, SameSprint
<1>9. OpenIsAwaited' /\ LoopIsAtWork' /\ ChangesAreOwed' /\ NothingForgotten' /\ DoneIsCommitted'
  BY DEF IInv, OpenIsAwaited, LoopIsAtWork, ChangesAreOwed, NothingForgotten, DoneIsCommitted, Open
<1>10. QueuedIsSelected'
  <2>1. SUFFICES ASSUME stage = "review", NEW u \in Todos, mem.todo[u].status = "queued"
                 PROVE  StaysQueued(r.todo[u], request[u]) /\ backlog'[u] = "selected"
    BY <1>3 DEF QueuedIsSelected
  <2>2. StaysQueued(d.todo[u], request[u])
    BY <2>1 DEF IInv, QueuedIsSelected
  <2>3. r.todo[u] = RecoverTodo(d.todo[u], request[u])
    BY <1>1, RecoveredTracks DEF r
  <2>4. /\ d.todo[u] \in TodoRecords /\ request[u] \in [Tries -> RequestShapes]
        /\ Shape(d.todo[u], request[u])
    BY <1>1 DEF Sprints, AllShapes, Tracks
  <2>5. StaysQueued(r.todo[u], request[u])
    BY <2>2, <2>3, <2>4, QueuedStays
  <2> QED BY <1>5, <2>5 DEF StaysQueued
<1>11. CloseoutIsMet'
  <2>1. stage = "closeout" => MetBy(mem)'
    BY DEF IInv, CloseoutIsMet, MetBy
  <2>2. ASSUME disk'.status = "completed" PROVE MetBy(disk)' /\ WorktreeIsClean'
    <3>1. MetBy(disk) /\ WorktreeIsClean
      BY <1>3, <1>4, <2>2 DEF IInv, CloseoutIsMet, SameSprint
    <3>2. \A u \in Todos : (\E m \in Tries : request[u][m].result \in Done)
                             => disk'.todo[u].status \in Done
      BY <1>1, <1>2, <1>3, StaysDone
    <3>3. disk'.ledger = d.ledger
      BY <1>3, <1>4 DEF SameSprint
    <3>4. \A u \in Todos : disk'.todo[u].covers = disk.todo[u].covers
      BY <1>3, <1>4
    <3>5. MetBy(disk)'
      BY <3>1, <3>2, <3>3, <3>4 DEF MetBy
    <3> QED BY <3>1, <3>5 DEF WorktreeIsClean
  <2> QED BY <2>1, <2>2 DEF CloseoutIsMet
<1> QED BY <1>1, <1>6, <1>7, <1>8, <1>9, <1>10, <1>11 DEF IInv

\* The file as it is recovered from the records.
LEMMA LoadedFile ==
    ASSUME SprintAssumption, IInv
    PROVE  LET r == Recovered(disk, request) IN
           /\ Recovers(disk, r, request)
           /\ \A t \in Todos : StaysQueued(disk.todo[t], request[t])
                                 => StaysQueued(r.todo[t], request[t])
<1>1. /\ disk \in Sprints /\ request \in AllShapes /\ Tracks(disk, request)
  BY DEF IInv, TypeOK
<1>2. ASSUME NEW t \in Todos, StaysQueued(disk.todo[t], request[t])
      PROVE  StaysQueued(Recovered(disk, request).todo[t], request[t])
  <2>1. Recovered(disk, request).todo[t] = RecoverTodo(disk.todo[t], request[t])
    BY <1>1, RecoveredTracks
  <2>2. /\ disk.todo[t] \in TodoRecords /\ request[t] \in [Tries -> RequestShapes]
        /\ Shape(disk.todo[t], request[t])
    BY <1>1 DEF Sprints, AllShapes, Tracks
  <2> QED BY <1>2, <2>1, <2>2, QueuedStays
<1> QED BY <1>1, <1>2, RecoveredTracks

\* An operator who stops or restarts the sprint while its loop runs keeps the invariant.
LEMMA CommandsKeep ==
    ASSUME SprintAssumption, RequirementsAssumption, IInv, Stop \/ Restart
    PROVE  IInv'
<1>1. /\ disk \in Sprints /\ TypeOK /\ Tracks(disk, request)
      /\ heard = [w \in Wishes |-> heard[w]]
  BY DEF IInv, TypeOK
<1> DEFINE stopped == [disk EXCEPT !.wrapUp = TRUE]
           restarted == [disk EXCEPT !.restart = TRUE]
<1>2. PICK d \in {stopped, restarted} :
         /\ SaveFile(Recovered(d, request))
         /\ UNCHANGED <<mem, stage, cur, asking, request, changes, interrupted>>
         /\ active' \in BOOLEAN /\ faults' \in 0..MaxFaults
  <2>1. /\ faults' \in 0..MaxFaults /\ active' \in BOOLEAN
        /\ UNCHANGED <<mem, stage, cur, asking, request, changes, interrupted>>
    <3>1. UNCHANGED <<mem, stage, cur, asking, request, changes, interrupted>>
      BY DEF Stop, Restart
    <3>2. faults' \in 0..MaxFaults
      BY <1>1 DEF Stop, Restart, Fault, TypeOK, SprintAssumption
    <3>3. active' = active \/ active' = TRUE
      BY DEF Stop, Restart
    <3>4. active' \in BOOLEAN
      BY <1>1, <3>3 DEF TypeOK
    <3> QED BY <3>1, <3>2, <3>4
  <2>2. SaveFile(Recovered(stopped, request)) \/ SaveFile(Recovered(restarted, request))
    BY DEF Stop, Restart
  <2> HIDE DEF stopped, restarted
  <2> QED BY <2>1, <2>2
<1>3. /\ d \in Sprints /\ d.status = disk.status /\ d.ledger = disk.ledger
      /\ d.todo = disk.todo
  BY <1>1 DEF Sprints
<1>4. disk'.ledger = disk.ledger /\ disk'.status = disk.status
  BY <1>2, <1>3 DEF SaveFile, Recovered, Sprints
<1>5. WishesHaveFates'
  BY <1>2, <1>4 DEF IInv, WishesHaveFates, asking, wishing
<1>6. Tracks(d, request) /\ \A t \in Todos : Same(disk.todo[t], d.todo[t])
  BY <1>1, <1>3 DEF Tracks, Same
<1> HIDE DEF stopped, restarted
<1>7. /\ UNCHANGED <<mem, stage, cur, review, request, changes, interrupted>>
      /\ taken' \subseteq Wishes
      /\ heard' = [w \in Wishes |-> heard'[w]] /\ \A w \in Wishes : heard'[w] \subseteq Sprints
  BY <1>1, <1>2 DEF TypeOK, asking, wishing
<1> QED BY <1>2, <1>3, <1>5, <1>6, <1>7, FileKeeps

\* Loading the sprint for a user's wish keeps the invariant.
LEMMA HearKeeps ==
    ASSUME SprintAssumption, RequirementsAssumption, IInv, NEW w \in Wishes, Hear(w)
    PROVE  IInv'
<1> DEFINE r == Recovered(disk, request)
<1>1. /\ disk \in Sprints /\ TypeOK /\ Tracks(disk, request)
      /\ heard = [v \in Wishes |-> heard[v]]
  BY DEF IInv, TypeOK
<1>2. r \in Sprints /\ SameSprint(disk, r)
  BY LoadedFile DEF Recovers
<1>3. /\ r.ledger.fate[w] = "none" /\ disk' = r /\ SaveFile(r)
      /\ heard' = [heard EXCEPT ![w] = {r}]
      /\ UNCHANGED <<mem, stage, cur, review, request, changes, active, interrupted, taken>>
      /\ faults' \in 0..MaxFaults
  BY <1>1 DEF Hear, SaveFile, Fault, TypeOK, SprintAssumption
<1> HIDE DEF r
<1>4. heard' = [v \in Wishes |-> heard'[v]] /\ \A v \in Wishes : heard'[v] \subseteq Sprints
  BY <1>1, <1>2, <1>3 DEF TypeOK
<1>5. w \notin taken /\ \A v \in Wishes : v # w => heard'[v] = heard[v]
  BY <1>1, <1>2, <1>3 DEF IInv, WishesHaveFates, SameSprint
<1>6. WishesHaveFates'
  BY <1>1, <1>2, <1>3, <1>5 DEF IInv, WishesHaveFates, SameSprint, TypeOK
<1>7. \A t \in Todos : Same(disk.todo[t], disk.todo[t])
  BY DEF Same
<1>8. SaveFile(Recovered(disk, request)) /\ active' \in BOOLEAN /\ taken' \subseteq Wishes
  BY <1>1, <1>3 DEF r, TypeOK
<1> QED BY <1>1, <1>3, <1>4, <1>6, <1>7, <1>8, FileKeeps

\* Filing a wish in the open sprint keeps the invariant.
LEMMA CaptureKeeps ==
    ASSUME SprintAssumption, RequirementsAssumption, IInv, NEW w \in Wishes, Capture(w), active
    PROVE  IInv'
<1> DEFINE r == Recovered(disk, request)
           d == [r EXCEPT !.ledger = Captured(@, w)]
<1>1. /\ disk \in Sprints /\ TypeOK /\ request \in AllShapes
      /\ heard = [v \in Wishes |-> heard[v]]
  BY DEF IInv, TypeOK
<1>2. /\ Recovers(disk, r, request)
      /\ \A t \in Todos : StaysQueued(disk.todo[t], request[t])
                            => StaysQueued(r.todo[t], request[t])
  BY LoadedFile
<1>3. /\ heard[w] # {} /\ SaveFile(Recovered(d, request))
      /\ heard' = [heard EXCEPT ![w] = {}]
      /\ taken' \in {taken, taken \cup {w}}
      /\ w \in taken' \ taken => stage = "idle" /\ disk.status \notin {"completed", "failed"}
      /\ UNCHANGED <<mem, stage, cur, review, request, changes, active, interrupted, faults>>
  BY DEF Capture, CaptureInto
<1> HIDE DEF r
<1>4. r \in Sprints /\ SameSprint(disk, r) /\ Tracks(r, request)
      /\ \A t \in Todos : Same(disk.todo[t], r.todo[t])
  BY <1>2 DEF Recovers
<1>5. /\ d \in Sprints /\ d.status = disk.status /\ d.todo = r.todo
      /\ d.ledger.required = disk.ledger.required
      /\ d.ledger.fate = [disk.ledger.fate EXCEPT ![w] = "pending"]
  <2>1. disk.ledger \in Ledger /\ r.ledger = disk.ledger
    BY <1>1, <1>4 DEF Sprints, SameSprint
  <2> DEFINE c == Captured(r.ledger, w)
  <2>2. c \in Ledger /\ c.required = disk.ledger.required
        /\ c.fate = [disk.ledger.fate EXCEPT ![w] = "pending"]
    BY <2>1 DEF Captured, Ledger, Fates
  <2>3. d = [r EXCEPT !.ledger = c]
    BY <1>4 DEF Sprints
  <2> HIDE DEF c, d
  <2> QED BY <1>4, <2>2, <2>3 DEF Sprints, SameSprint
<1>6. Recovers(d, Recovered(d, request), request) /\ Tracks(d, request)
  <2>1. Tracks(d, request)
    BY <1>4, <1>5 DEF Tracks
  <2> HIDE DEF d
  <2> QED BY <1>1, <1>5, <2>1, RecoveredTracks
<1> HIDE DEF d
<1>7. disk'.ledger = d.ledger /\ disk'.status = disk.status
  BY <1>3, <1>5, <1>6 DEF SaveFile, Recovers, SameSprint
<1>8. w \notin taken
  BY <1>3 DEF IInv, WishesHaveFates
<1>9. /\ heard' = [v \in Wishes |-> heard'[v]] /\ \A v \in Wishes : heard'[v] \subseteq Sprints
      /\ heard'[w] = {} /\ \A v \in Wishes : v # w => heard'[v] = heard[v]
  BY <1>1, <1>3 DEF TypeOK
<1>10. taken' \subseteq Wishes /\ faults' \in 0..MaxFaults /\ active' \in BOOLEAN
  BY <1>1, <1>3 DEF TypeOK
<1>11. WishesHaveFates'
  <2>0. disk.ledger.fate \in [Wishes -> Fates]
    BY <1>1 DEF Sprints, Ledger
  <2>1. disk'.ledger.fate[w] = "pending"
        /\ \A v \in Wishes : v # w => disk'.ledger.fate[v] = disk.ledger.fate[v]
    BY <1>5, <1>7, <2>0
  <2>2. ASSUME NEW v \in taken', v # w
        PROVE  /\ heard'[v] = {} /\ disk'.ledger.fate[v] # "none"
               /\ stage' # "idle" => mem'.ledger.fate[v] # "none"
               /\ disk'.status \in {"completed", "failed"} => disk'.ledger.fate[v] # "pending"
    BY <1>3, <1>7, <1>9, <1>10, <2>1, <2>2 DEF IInv, WishesHaveFates
  <2>3. w \in taken' => /\ stage' = "idle" /\ disk'.status \notin {"completed", "failed"}
    BY <1>3, <1>7, <1>8
  <2> QED BY <1>9, <2>1, <2>2, <2>3 DEF WishesHaveFates
<1>12. Requirements(d.ledger) = Requirements(disk.ledger)
  BY <1>5 DEF Requirements
<1>13. /\ \A t \in Todos : Same(disk.todo[t], d.todo[t])
       /\ \A t \in Todos : StaysQueued(disk.todo[t], request[t])
                             => StaysQueued(d.todo[t], request[t])
  BY <1>2, <1>4, <1>5
<1> QED BY <1>3, <1>5, <1>6, <1>9, <1>10, <1>11, <1>12, <1>13, FileKeeps

-----------------------------------------------------------------------------
(* The steps of the loop that save neither sprint nor request *)

\* What writes no record may leave the loop, lose a review or a wish that was heard,
\* or commit changes, and keeps the invariant.
LEMMA QuietKeeps ==
    ASSUME SprintAssumption, RequirementsAssumption, IInv,
           UNCHANGED <<disk, mem, cur, request, backlog, taken>>,
           stage' = stage \/ (stage' = "idle" /\ (stage = "running" => cur \in interrupted')),
           changes' \subseteq changes,
           interrupted \subseteq interrupted', interrupted' \subseteq Todos,
           review' \in {"none", "plain", "checkpoint"},
           heard' = heard \/ heard' = [w \in Wishes |-> {}],
           active' \in BOOLEAN, faults' \in 0..MaxFaults
    PROVE  IInv'
<1>1. /\ TypeOK /\ heard = [w \in Wishes |-> heard[w]] /\ request \in AllShapes
      /\ Tracks(disk, request) /\ (stage # "idle" => Tracks(mem, request))
  BY DEF IInv, TypeOK
<1>2. heard' = [w \in Wishes |-> heard'[w]] /\ \A w \in Wishes : heard'[w] \in {heard[w], {}}
  <2>1. CASE heard' = heard
    BY <1>1, <2>1
  <2>2. CASE heard' = [w \in Wishes |-> {}]
    BY <2>2
  <2> QED BY <2>1, <2>2
<1>3. TypeOK'
  <2>1. stage' \in Stages
    BY <1>1 DEF TypeOK, Stages
  <2> QED BY <1>1, <1>2, <2>1 DEF TypeOK
<1>4. StatusesAgree' /\ NothingForgotten' /\ QueuedIsSelected'
  BY DEF IInv, StatusesAgree, NothingForgotten, QueuedIsSelected
<1>5. OpenIsAwaited'
  BY DEF IInv, OpenIsAwaited, Open
<1>6. LoopIsAtWork'
  BY DEF IInv, LoopIsAtWork
<1>7. ChangesAreOwed'
  BY DEF IInv, ChangesAreOwed
<1>8. DoneIsCommitted'
  BY DEF IInv, DoneIsCommitted
<1>9. CloseoutIsMet'
  <2>1. MetBy(mem) => MetBy(mem)'
    BY DEF MetBy
  <2>2. MetBy(disk) => MetBy(disk)'
    BY DEF MetBy
  <2> QED BY <2>1, <2>2 DEF IInv, CloseoutIsMet, WorktreeIsClean
<1>10. WishesHaveFates'
  BY <1>1, <1>2 DEF IInv, WishesHaveFates, TypeOK
<1> QED BY <1>1, <1>2, <1>3, <1>4, <1>5, <1>6, <1>7, <1>8, <1>9, <1>10 DEF IInv

\* The steps that write no record.
LEMMA QuietSteps ==
    ASSUME SprintAssumption, RequirementsAssumption, IInv,
           ResumeCompleted \/ StopFailed \/ Reported \/ CommitMade \/ CloseoutCommits \/ Crash
    PROVE  IInv'
<1>1. TypeOK
  BY DEF IInv
<1>2. UNCHANGED <<disk, mem, cur, request, backlog, taken>>
  BY DEF ResumeCompleted, StopFailed, Reported, CommitMade, CloseoutCommits, Crash, asking, wishing
<1>3. stage' = stage \/ (stage' = "idle" /\ (stage = "running" => cur \in interrupted'))
  BY DEF ResumeCompleted, StopFailed, Reported, CommitMade, CloseoutCommits, Crash
<1>4. changes' \subseteq changes
  BY DEF ResumeCompleted, StopFailed, Reported, CommitMade, CloseoutCommits, Crash
<1>5. interrupted \subseteq interrupted' /\ interrupted' \subseteq Todos
  BY <1>1 DEF ResumeCompleted, StopFailed, Reported, CommitMade, CloseoutCommits, Crash, TypeOK
<1>6. /\ review' \in {"none", "plain", "checkpoint"}
      /\ heard' = heard \/ heard' = [w \in Wishes |-> {}]
  BY <1>1 DEF ResumeCompleted, StopFailed, Reported, CommitMade, CloseoutCommits, Crash, TypeOK,
      asking, wishing
<1>7. active' \in BOOLEAN
  BY <1>1 DEF ResumeCompleted, StopFailed, Reported, CommitMade, CloseoutCommits, Crash, TypeOK
<1>8. faults' \in 0..MaxFaults
  BY <1>1 DEF ResumeCompleted, StopFailed, Reported, CommitMade, CloseoutCommits, Crash, TypeOK,
      Fault, SprintAssumption
<1> QED BY <1>2, <1>3, <1>4, <1>5, <1>6, <1>7, <1>8, QuietKeeps

-----------------------------------------------------------------------------
(* Those that save the sprint only, between two todos *)

\* The copy has the wishes that count.
Carries(s) == \A w \in taken : s.ledger.fate[w] # "none"

\* A save by the loop of the sprint it carries, with the wishes filed before, keeps
\* the invariant at every stage the loop saves for.
LEMMA LoopSaves ==
    ASSUME SprintAssumption, RequirementsAssumption, IInv, stage # "running",
           NEW s, s \in Sprints, Tracks(s, request), Carries(s),
           SaveBoth(Recovered(s, request)),
           <<stage', s.status>> \in {<<"review", "running">>, <<"closeout", "closeout">>,
               <<"reporting", "completed">>, <<"reporting", "failed">>, <<"idle", "recovery">>},
           stage' = "closeout" => MetBy(mem)',
           s.status = "completed" => MetBy(disk)' /\ changes \subseteq interrupted,
           s.status \in {"completed", "failed"} => Pending(s.ledger) = {},
           UNCHANGED <<cur, request, changes, active, interrupted, wishing>>,
           review' \in {"none", "plain", "checkpoint"}, faults' \in 0..MaxFaults
    PROVE  IInv'
<1> DEFINE r == Recovered(s, request)
<1>1. /\ TypeOK /\ heard = [w \in Wishes |-> heard[w]] /\ request \in AllShapes
  BY DEF IInv, TypeOK
<1>2. Recovers(s, r, request)
  BY <1>1, RecoveredTracks
<1>3. disk' = r /\ mem' = r /\ SyncBacklog(r)
  BY DEF SaveBoth, SaveFile
<1> HIDE DEF r
<1>4. r \in Sprints /\ SameSprint(s, r) /\ Tracks(r, request)
      /\ \A u \in Todos : Fresh(r.todo[u], request[u])
  BY <1>2 DEF Recovers
<1>5. /\ backlog' \in [Todos -> {"none", "selected", "done", "blocked", "carried_over"}]
      /\ \A u \in Todos : r.todo[u].status = "queued" => backlog'[u] = "selected"
  BY <1>1, <1>3, <1>4, BacklogSynced DEF TypeOK
<1>6. r.status = s.status /\ r.ledger = s.ledger
  BY <1>4 DEF SameSprint
<1>7. stage' \in {"review", "closeout", "reporting", "idle"}
  OBVIOUS
<1>8. \A u \in Todos : /\ r.todo[u] \in TodoRecords /\ request[u] \in [Tries -> RequestShapes]
                       /\ Fresh(r.todo[u], request[u])
  BY <1>1, <1>4 DEF Sprints, AllShapes
<1>9. TypeOK'
  BY <1>1, <1>3, <1>4, <1>5, <1>7 DEF TypeOK, Stages, wishing
<1>10. /\ (heard = [w \in Wishes |-> heard[w]])' /\ (request \in AllShapes)'
       /\ (Tracks(disk, request) /\ (stage # "idle" => Tracks(mem, request)))'
  BY <1>1, <1>3, <1>4 DEF wishing
<1>11. StatusesAgree'
  BY <1>3, <1>6 DEF StatusesAgree
<1>12. OpenIsAwaited'
  BY DEF IInv, OpenIsAwaited, Open
<1>13. LoopIsAtWork'
  BY <1>7 DEF LoopIsAtWork
<1>14. ChangesAreOwed'
  BY DEF IInv, ChangesAreOwed
<1>15. NothingForgotten'
  <2>1. \A u \in Todos : \A n \in Tries :
            request[u][n].status = "uncommitted" => r.todo[u].status = "uncommitted"
    BY <1>8, FreshSays
  <2> QED BY <1>3, <2>1 DEF NothingForgotten
<1>16. DoneIsCommitted'
  <2>1. \A u \in Todos : r.todo[u].status \in Done => \E n \in Tries : request[u][n].result \in Done
    BY <1>8, FreshSays
  <2>2. \A u \in Todos \ interrupted : u \in changes => \A n \in Tries : request[u][n].result \notin Done
    BY DEF IInv, ChangesAreOwed
  <2> QED BY <1>3, <2>1, <2>2 DEF DoneIsCommitted
<1>17. QueuedIsSelected'
  <2>1. \A u \in Todos : r.todo[u].status = "queued" => StaysQueued(r.todo[u], request[u])
    BY <1>8, FreshStaysQueued
  <2> QED BY <1>3, <1>5, <2>1 DEF QueuedIsSelected
<1>18. CloseoutIsMet'
  BY <1>3, <1>6 DEF CloseoutIsMet, WorktreeIsClean
<1>19. WishesHaveFates'
  <2>1. \A w \in taken : heard'[w] = {} /\ r.ledger.fate[w] # "none" /\ w \in Wishes
    BY <1>1, <1>6 DEF IInv, WishesHaveFates, Carries, wishing, TypeOK
  <2>2. s.status \in {"completed", "failed"} => \A w \in Wishes : r.ledger.fate[w] # "pending"
    BY <1>6 DEF Pending
  <2> QED BY <1>3, <1>6, <2>1, <2>2 DEF WishesHaveFates, wishing
<1> QED BY <1>9, <1>10, <1>11, <1>12, <1>13, <1>14, <1>15, <1>16, <1>17, <1>18, <1>19 DEF IInv

\* The ledger when the sprint ends.
LEMMA ExpiredLedger ==
    ASSUME NEW l \in Ledger
    PROVE  /\ Expired(l) \in Ledger
           /\ Requirements(Expired(l)) = Requirements(l)
           /\ Pending(Expired(l)) = {}
           /\ \A w \in Wishes : l.fate[w] # "none" => Expired(l).fate[w] # "none"
<1>1. /\ Expired(l).required = l.required
      /\ Expired(l).fate = [w \in Wishes |-> IF l.fate[w] = "pending" THEN "expired" ELSE l.fate[w]]
      /\ Expired(l) \in Ledger
  BY DEF Expired, Ledger, Fates
<1> QED BY <1>1 DEF Requirements, Pending

\* The sprint ends with what it has.
LEMMA EndKeeps ==
    ASSUME SprintAssumption, RequirementsAssumption, IInv, stage # "running",
           NEW s, s \in Sprints, Tracks(s, request), Carries(s),
           NEW status \in {"completed", "failed"},
           status = "completed" => MetBy(s) /\ changes \subseteq interrupted,
           EndSprint(s, status),
           UNCHANGED <<cur, request, changes, active, interrupted, wishing>>,
           review' \in {"none", "plain", "checkpoint"}, faults' \in 0..MaxFaults
    PROVE  IInv'
<1> DEFINE e == [s EXCEPT !.status = status, !.ledger = Expired(@)]
<1>1. SaveBoth(Recovered(e, request)) /\ stage' = "reporting"
  BY DEF EndSprint
<1>2. s.ledger \in Ledger /\ taken \subseteq Wishes /\ request \in AllShapes
  BY DEF IInv, TypeOK, Sprints
<1>3. /\ Expired(s.ledger) \in Ledger
      /\ Requirements(Expired(s.ledger)) = Requirements(s.ledger)
      /\ Pending(Expired(s.ledger)) = {}
      /\ \A w \in Wishes : s.ledger.fate[w] # "none" => Expired(s.ledger).fate[w] # "none"
  BY <1>2, ExpiredLedger
<1>4. /\ e \in Sprints /\ e.status = status /\ e.todo = s.todo
      /\ e.ledger = Expired(s.ledger)
  BY <1>3 DEF Sprints, SprintStatuses
<1> HIDE DEF e
<1>5. Tracks(e, request) /\ Carries(e)
  BY <1>2, <1>3, <1>4 DEF Tracks, Carries
<1>6. Recovers(e, Recovered(e, request), request)
  BY <1>2, <1>4, <1>5, RecoveredTracks
<1>7. disk' = Recovered(e, request)
  BY <1>1 DEF SaveBoth, SaveFile
<1>8. e.status = "completed" => MetBy(disk)' /\ changes \subseteq interrupted
  <2>1. disk'.ledger = e.ledger /\ \A u \in Todos : disk'.todo[u].covers = s.todo[u].covers
    BY <1>4, <1>6, <1>7 DEF Recovers, SameSprint, Same
  <2>2. \A u \in Todos : (\E m \in Tries : request[u][m].result \in Done)
                           => disk'.todo[u].status \in Done
    BY <1>2, <1>6, <1>7, StaysDone
  <2>3. MetBy(s) => MetBy(disk)'
    BY <1>3, <1>4, <2>1, <2>2 DEF MetBy
  <2> QED BY <1>4, <2>3
<1>9. <<stage', e.status>> \in {<<"review", "running">>, <<"closeout", "closeout">>,
               <<"reporting", "completed">>, <<"reporting", "failed">>, <<"idle", "recovery">>}
  BY <1>1, <1>4
<1>10. stage' # "closeout" /\ Pending(e.ledger) = {}
  BY <1>1, <1>3, <1>4
<1> QED BY <1>1, <1>4, <1>5, <1>8, <1>9, <1>10, LoopSaves

\* The end of a closeout, verified or failed, keeps the invariant.
LEMMA CloseoutKeeps ==
    ASSUME SprintAssumption, RequirementsAssumption, IInv, CloseoutVerified \/ CloseoutFails
    PROVE  IInv'
<1>1. /\ mem \in Sprints /\ stage = "closeout" /\ Tracks(mem, request)
      /\ review' \in {"none", "plain", "checkpoint"}
      /\ UNCHANGED <<cur, request, changes, active, interrupted, wishing>>
  BY DEF IInv, TypeOK, CloseoutVerified, CloseoutFails, asking
<1>2. faults' \in 0..MaxFaults
  BY DEF IInv, TypeOK, CloseoutVerified, CloseoutFails, Fault, SprintAssumption
<1>3. Carries(mem) /\ MetBy(mem)
  BY <1>1 DEF IInv, WishesHaveFates, Carries, CloseoutIsMet
<1>4. PICK status \in {"completed", "failed"} :
         EndSprint(mem, status) /\ (status = "completed" => changes = {})
  BY DEF CloseoutVerified, CloseoutFails
<1>5. status = "completed" => MetBy(mem) /\ changes \subseteq interrupted
  BY <1>3, <1>4
<1>6. stage # "running"
  BY <1>1
<1> QED BY <1>1, <1>2, <1>3, <1>4, <1>5, <1>6, EndKeeps

\* A todo that waits for its place in the queue has no requests.
LEMMA AbsentIsUnmade ==
    ASSUME NEW x, NEW qs, Shape(x, qs), x.status = "absent"
    PROVE  Unmade(x, qs)
BY DEF Shape, First, Second, Retired, Back, Follows

\* A todo without requests may be queued, or dropped.
LEMMA NewTodoShape ==
    ASSUME SprintAssumption, NEW x, NEW qs, Unmade(x, qs), NEW st \in {"absent", "queued"},
           NEW covers \in SUBSET (Kickoff \cup Wishes)
    PROVE  LET y == NewTodo(st, covers) IN
           y \in TodoRecords /\ Unmade(y, qs) /\ y.covers = covers /\ y.status = st
BY DEF NewTodo, TodoRecords, TodoStatuses, Executable, Unmade, SprintAssumption

\* The todos a closeout queues for what is missing have no requests yet.
LEMMA QueueKeeps ==
    ASSUME SprintAssumption, NEW s \in Sprints, NEW reqs, Tracks(s, reqs)
    PROVE  LET q == QueueRecovery(s) IN q \in Sprints /\ SameSprint(s, q) /\ Tracks(q, reqs)
<1> DEFINE open == {t \in Recovery : s.todo[t].status \in Executable}
           wanted == Missing(s) \ UNION {s.todo[t].covers : t \in open}
           free == {t \in Recovery : s.todo[t].status = "absent"}
           fixes == {f \in [wanted -> free] : \A q, r \in wanted : f[q] = f[r] => q = r}
           fix == CHOOSE f \in fixes : TRUE
           todo == [t \in Todos |-> IF \E r \in wanted : fix[r] = t
                                    THEN NewTodo("queued", {r \in wanted : fix[r] = t})
                                    ELSE s.todo[t]]
<1>1. QueueRecovery(s) = (IF fixes = {} THEN s ELSE [s EXCEPT !.todo = todo])
  BY DEF QueueRecovery, Sprints
<1>2. wanted \subseteq Kickoff \cup Wishes
  BY DEF Missing, Requirements, Sprints, Ledger
<1>3. fixes # {} => \A r \in wanted : fix[r] \in free
  <2> HIDE DEF wanted, free
  <2> QED OBVIOUS
<1>4. ASSUME fixes # {}, NEW t \in Todos
      PROVE  todo[t] \in TodoRecords /\ Shape(todo[t], reqs[t])
  <2>1. s.todo[t] \in TodoRecords /\ Shape(s.todo[t], reqs[t])
    BY DEF Sprints, Tracks
  <2>2. CASE \E r \in wanted : fix[r] = t
    <3>1. t \in free
      <4> HIDE DEF fix, fixes, wanted, free
      <4>1. PICK r \in wanted : fix[r] = t
        BY <2>2
      <4> QED BY <1>3, <1>4, <4>1
    <3>2. Unmade(s.todo[t], reqs[t])
      BY <2>1, <3>1, AbsentIsUnmade
    <3> DEFINE covers == {r \in wanted : fix[r] = t}
    <3>3. todo[t] = NewTodo("queued", covers) /\ covers \in SUBSET (Kickoff \cup Wishes)
      BY <1>2, <2>2
    <3> HIDE DEF covers, todo
    <3>4. todo[t] \in TodoRecords /\ Unmade(todo[t], reqs[t])
      BY <3>2, <3>3, NewTodoShape
    <3> QED BY <3>4 DEF Shape
  <2>3. CASE ~ \E r \in wanted : fix[r] = t
    BY <2>1, <2>3
  <2> QED BY <2>2, <2>3
<1> HIDE DEF fixes, fix, wanted
<1>5. fixes # {} => todo \in [Todos -> TodoRecords]
  BY <1>4
<1>6. CASE fixes = {}
  BY <1>1, <1>6 DEF SameSprint
<1>7. CASE fixes # {}
  <2>1. QueueRecovery(s) = [s EXCEPT !.todo = todo] /\ todo \in [Todos -> TodoRecords]
        /\ \A t \in Todos : Shape(todo[t], reqs[t])
    BY <1>1, <1>4, <1>5, <1>7
  <2> HIDE DEF todo
  <2> QED BY <2>1 DEF Sprints, SameSprint, Tracks
<1> QED BY <1>6, <1>7

\* Ending a sprint, by a closeout, a failure or a recovery, keeps the invariant.
LEMMA FinalizeKeeps ==
    ASSUME SprintAssumption, RequirementsAssumption, IInv, stage # "running",
           NEW s, s \in Sprints, Tracks(s, request), Carries(s), Finalize(s), request' = request,
           review' \in {"none", "plain", "checkpoint"}
    PROVE  IInv'
<1> DEFINE closed == [s EXCEPT !.status = "closeout"]
           c == Recovered(closed, request)
<1>1. /\ closed \in Sprints /\ closed.status = "closeout" /\ closed.ledger = s.ledger
      /\ closed.todo = s.todo
  BY DEF Sprints, SprintStatuses
<1>2. request \in AllShapes
  BY DEF IInv
<1>3. /\ UNCHANGED <<cur, request, changes, active, interrupted, wishing>>
      /\ \/ Fault("docs") /\ EndSprint(c, "failed")
         \/ NoFault /\ Missing(c) # {} /\ BackToRecovery(c)
         \/ NoFault /\ Missing(c) = {} /\ SaveBoth(c) /\ stage' = "closeout"
  BY DEF Finalize
<1>4. faults' \in 0..MaxFaults
  BY <1>3 DEF Fault, NoFault, IInv, TypeOK, SprintAssumption
<1> HIDE DEF closed
<1>5. Tracks(closed, request) /\ Carries(closed)
  BY <1>1 DEF Tracks, Carries
<1>6. Recovers(closed, c, request)
  BY <1>1, <1>2, <1>5, RecoveredTracks
<1>7. c \in Sprints /\ Tracks(c, request) /\ Carries(c) /\ c.ledger = s.ledger
  BY <1>1, <1>5, <1>6 DEF Recovers, SameSprint, Carries
<1>8. CASE Fault("docs") /\ EndSprint(c, "failed")
  <2> HIDE DEF c
  <2> QED BY <1>3, <1>4, <1>7, <1>8, EndKeeps
<1>9. CASE NoFault /\ Missing(c) # {} /\ BackToRecovery(c)
  <2> DEFINE q == QueueRecovery(c)
             b == [q EXCEPT !.status = "recovery", !.wrapUp = FALSE]
  <2>1. SaveBoth(Recovered(b, request)) /\ stage' = "idle"
    BY <1>9 DEF BackToRecovery
  <2>2. q \in Sprints /\ SameSprint(c, q) /\ Tracks(q, request)
    BY <1>7, QueueKeeps
  <2> HIDE DEF q, c
  <2>3. /\ b \in Sprints /\ b.status = "recovery" /\ b.ledger = c.ledger /\ b.todo = q.todo
    BY <2>2 DEF Sprints, SprintStatuses, SameSprint
  <2> HIDE DEF b
  <2>4. Tracks(b, request) /\ Carries(b)
    BY <1>7, <2>2, <2>3 DEF Tracks, Carries
  <2>5. <<stage', b.status>> \in {<<"review", "running">>, <<"closeout", "closeout">>,
               <<"reporting", "completed">>, <<"reporting", "failed">>, <<"idle", "recovery">>}
    BY <2>1, <2>3
  <2> QED BY <1>3, <1>4, <2>1, <2>3, <2>4, <2>5, LoopSaves
<1>10. CASE NoFault /\ Missing(c) = {} /\ SaveBoth(c) /\ stage' = "closeout"
  <2>1. mem' = c /\ SaveBoth(Recovered(closed, request))
    BY <1>10 DEF SaveBoth
  <2>2. MetBy(mem)'
    <3>1. \A t \in Todos : c.todo[t].status \in Done => \E n \in Tries : request[t][n].result \in Done
      BY <1>2, <1>6, StaysDone
    <3>2. \A r \in Requirements(c.ledger) : \E t \in Todos :
            r \in c.todo[t].covers /\ c.todo[t].status \in Done
      BY <1>10 DEF Missing, Implemented
    <3> HIDE DEF c
    <3> QED BY <1>3, <2>1, <3>1, <3>2 DEF MetBy
  <2>3. <<stage', closed.status>> \in {<<"review", "running">>, <<"closeout", "closeout">>,
               <<"reporting", "completed">>, <<"reporting", "failed">>, <<"idle", "recovery">>}
    BY <1>1, <1>10
  <2> HIDE DEF c
  <2> QED BY <1>1, <1>3, <1>4, <1>5, <2>1, <2>2, <2>3, LoopSaves
<1> QED BY <1>3, <1>8, <1>9, <1>10

\* The top of the loop keeps the invariant.
LEMMA EnterKeeps ==
    ASSUME SprintAssumption, RequirementsAssumption, IInv, stage # "running",
           NEW s, s \in Sprints, s.status = "running", Tracks(s, request), Carries(s),
           NEW checkpoint, EnterLoop(s, checkpoint)
    PROVE  IInv'
<1>1. request \in AllShapes /\ review \in {"none", "plain", "checkpoint"}
      /\ faults \in 0..MaxFaults
  BY DEF IInv, TypeOK
<1> DEFINE r == Recovered(s, request)
<1>2. Recovers(s, r, request)
  BY <1>1, RecoveredTracks
<1>3. CASE s.wrapUp
  <2>1. Finalize(r) /\ UNCHANGED <<request, review>>
    BY <1>3 DEF EnterLoop
  <2> HIDE DEF r
  <2>2. r \in Sprints /\ Tracks(r, request) /\ Carries(r)
    BY <1>2 DEF Recovers, SameSprint, Carries
  <2> QED BY <1>1, <2>1, <2>2, FinalizeKeeps
<1>4. CASE ~s.wrapUp
  <2>1. /\ SaveBoth(r) /\ stage' = "review" /\ review' = Asked(checkpoint) /\ faults' = faults
        /\ UNCHANGED <<cur, request, changes, active, interrupted, wishing>>
    BY <1>4 DEF EnterLoop, NoFault
  <2>2. review' \in {"none", "plain", "checkpoint"}
    BY <1>1, <2>1 DEF Asked
  <2>3. <<stage', s.status>> \in {<<"review", "running">>, <<"closeout", "closeout">>,
               <<"reporting", "completed">>, <<"reporting", "failed">>, <<"idle", "recovery">>}
    BY <2>1
  <2> QED BY <1>1, <2>1, <2>2, <2>3, LoopSaves
<1> QED BY <1>3, <1>4

\* The save of a finished todo's outcome keeps the invariant.
LEMMA SaveTodoKeeps ==
    ASSUME SprintAssumption, RequirementsAssumption, IInv, SaveTodo
    PROVE  IInv'
<1>1. stage = "saving" /\ EnterLoop(mem, mem.todo[cur].status \in Done)
  BY DEF SaveTodo
<1>2. mem \in Sprints /\ mem.status = "running" /\ Tracks(mem, request) /\ Carries(mem)
  BY <1>1 DEF IInv, TypeOK, StatusesAgree, WishesHaveFates, Carries
<1>3. stage # "running"
  BY <1>1
<1> QED BY <1>1, <1>2, <1>3, EnterKeeps

\* Resuming the sprint, from the checkpoint of a restart too, keeps the invariant.
LEMMA ResumeKeeps ==
    ASSUME SprintAssumption, RequirementsAssumption, IInv, Resume
    PROVE  IInv'
<1> DEFINE l == Recovered(disk, request)
<1>1. /\ stage = "idle" /\ request \in AllShapes /\ taken \subseteq Wishes
      /\ \A w \in taken : disk.ledger.fate[w] # "none"
  BY DEF IInv, TypeOK, WishesHaveFates, Resume
<1>2. Recovers(disk, l, request)
  BY LoadedFile
<1>3. PICK p \in Prepared(l) : EnterLoop([p EXCEPT !.status = "running"], FALSE)
  BY DEF Resume
<1> HIDE DEF l
<1>4. l \in Sprints /\ Tracks(l, request) /\ l.ledger = disk.ledger
      /\ \A t \in Todos : Fresh(l.todo[t], request[t])
  BY <1>2 DEF Recovers, SameSprint
<1>5. ASSUME NEW t \in Todos
      PROVE  LET f == RestartFrom(l, t) IN
             /\ f \in Sprints /\ f.ledger = l.ledger
             /\ LET g == Recovered(f, request) IN
                g \in Sprints /\ g.ledger = l.ledger /\ Tracks(g, request)
  <2> DEFINE x == l.todo[t]
             y == IF x.status = "blocked" THEN Requeued(x) ELSE x
             f == RestartFrom(l, t)
             g == Recovered(f, request)
  <2>1. \A u \in Todos : l.todo[u] \in TodoRecords /\ request[u] \in [Tries -> RequestShapes]
                         /\ Shape(l.todo[u], request[u])
    BY <1>1, <1>4 DEF Sprints, AllShapes, Tracks
  <2>2. /\ y \in TodoRecords
        /\ RecoverTodo(y, request[t]) \in TodoRecords
        /\ Shape(RecoverTodo(y, request[t]), request[t])
    <3>1. CASE x.status = "blocked"
      <4>1. Fresh(x, request[t])
        BY <1>4
      <4>2. RecoverTodo(Requeued(x), request[t]) \in TodoRecords
            /\ Shape(RecoverTodo(Requeued(x), request[t]), request[t])
        BY <2>1, <3>1, <4>1, RequeueShape
      <4>3. Requeued(x) \in TodoRecords
        <5>1. x \in TodoRecords /\ 0 \in 0..MaxTries /\ "queued" \in TodoStatuses
          BY <2>1 DEF SprintAssumption, TodoStatuses, Executable
        <5> HIDE DEF x
        <5>2. (IF x.request # 0 THEN x.request ELSE x.retired) \in 0..MaxTries
          BY <5>1 DEF TodoRecords
        <5>3. Requeued(x) = [x EXCEPT !.status = "queued", !.request = 0, !.bypass = TRUE,
                                      !.retired = IF x.request # 0 THEN x.request ELSE x.retired]
          BY <5>1 DEF Requeued, TodoRecords
        <5> QED BY <5>1, <5>2, <5>3 DEF TodoRecords
      <4> HIDE DEF x
      <4> QED BY <3>1, <4>2, <4>3
    <3>2. CASE x.status # "blocked"
      <4>1. RecoverTodo(x, request[t]) \in TodoRecords /\ Fresh(RecoverTodo(x, request[t]), request[t])
        BY <2>1, RecoverShape
      <4> QED BY <2>1, <3>2, <4>1 DEF Fresh
    <3> QED BY <3>1, <3>2
  <2>3. f = [l EXCEPT !.restart = FALSE, !.todo = [l.todo EXCEPT ![t] = y]]
    BY <1>4 DEF RestartFrom, Sprints
  <2> HIDE DEF y, f
  <2>4. /\ f \in Sprints /\ f.ledger = l.ledger /\ f.todo[t] = y
        /\ \A u \in Todos : u # t => f.todo[u] = l.todo[u]
    BY <1>4, <2>2, <2>3 DEF Sprints
  <2>5. \A u \in Todos : /\ RecoverTodo(f.todo[u], request[u]) \in TodoRecords
                         /\ Shape(RecoverTodo(f.todo[u], request[u]), request[u])
    <3>1. \A u \in Todos : /\ RecoverTodo(l.todo[u], request[u]) \in TodoRecords
                           /\ Fresh(RecoverTodo(l.todo[u], request[u]), request[u])
      BY <2>1, RecoverShape
    <3> QED BY <2>2, <2>4, <3>1 DEF Fresh
  <2>6. g = [f EXCEPT !.todo = [u \in Todos |-> RecoverTodo(f.todo[u], request[u])]]
    BY <2>4 DEF Recovered, Sprints
  <2>7. [u \in Todos |-> RecoverTodo(f.todo[u], request[u])] \in [Todos -> TodoRecords]
    BY <2>5
  <2> DEFINE todo == [u \in Todos |-> RecoverTodo(f.todo[u], request[u])]
  <2>8. \A u \in Todos : Shape(todo[u], request[u])
    BY <2>5
  <2> HIDE DEF todo, g
  <2>9. g \in Sprints /\ g.ledger = l.ledger /\ g.todo = todo
    BY <2>4, <2>6, <2>7 DEF Sprints, todo
  <2>10. Tracks(g, request)
    BY <2>8, <2>9 DEF Tracks
  <2> QED BY <2>4, <2>9, <2>10 DEF f, g
<1>6. p \in Sprints /\ p.ledger = l.ledger /\ Tracks(p, request)
  <2>1. CASE p = l
    BY <1>4, <2>1
  <2>2. CASE p = [l EXCEPT !.restart = FALSE]
    BY <1>4, <2>2 DEF Sprints, Tracks
  <2>3. CASE \E t \in Checkpoints(l) : p = Recovered(RestartFrom(l, t), request)
    <3>1. PICK t \in Todos : p = Recovered(RestartFrom(l, t), request)
      BY <2>3 DEF Checkpoints
    <3> QED BY <1>5, <3>1
  <2> QED BY <1>3, <2>1, <2>2, <2>3 DEF Prepared
<1> DEFINE s == [p EXCEPT !.status = "running"]
<1>7. s \in Sprints /\ s.status = "running" /\ s.ledger = l.ledger /\ s.todo = p.todo
  BY <1>6 DEF Sprints, SprintStatuses
<1> HIDE DEF s
<1>8. Tracks(s, request) /\ Carries(s)
  BY <1>1, <1>4, <1>6, <1>7 DEF Tracks, Carries
<1>9. stage # "running" /\ EnterLoop(s, FALSE)
  BY <1>1, <1>3 DEF s
<1> QED BY <1>7, <1>8, <1>9, EnterKeeps

-----------------------------------------------------------------------------
(* Those in which the loop works on a todo *)

\* What the steps of executing one todo have in common keeps the invariant.
LEMMA WorkKeeps ==
    ASSUME SprintAssumption, RequirementsAssumption, IInv,
           NEW t \in Todos, cur' = t, stage = "running" => cur = t,
           stage' \in {"running", "committing", "saving"},
           request' \in AllShapes, \A u \in Todos : u # t => request'[u] = request[u],
           disk' \in Sprints, mem' \in Sprints,
           Tracks(disk', request'), Tracks(mem', request'),
           disk'.status = "running", mem'.status = "running",
           \A w \in taken : disk'.ledger.fate[w] # "none" /\ mem'.ledger.fate[w] # "none",
           stage' = "running" \/ (\A m \in Tries : ~Open(t, m)'),
           \/ stage' = "running" \/ t \notin changes
           \/ \A m \in Tries : request'[t][m].result \notin Done,
           LoopIsAtWork',
           backlog' \in [Todos -> {"none", "selected", "done", "blocked", "carried_over"}],
           review' \in {"none", "plain", "checkpoint"}, faults' \in 0..MaxFaults,
           UNCHANGED <<changes, active, interrupted, wishing>>
    PROVE  IInv'
<1>1. /\ TypeOK /\ heard = [w \in Wishes |-> heard[w]] /\ request \in AllShapes
  BY DEF IInv, TypeOK
<1>2. TypeOK'
  <2>1. request' \in [Todos -> [Tries -> Requests]]
    BY DEF AllShapes, RequestShapes, NoRequest, Requests, Terminal
  <2>2. stage' \in Stages
    BY DEF Stages
  <2> QED BY <1>1, <2>1, <2>2 DEF TypeOK, wishing
<1>3. /\ (heard = [w \in Wishes |-> heard[w]])'
      /\ (Tracks(disk, request) /\ (stage # "idle" => Tracks(mem, request)))'
  BY <1>1 DEF wishing
<1>4. StatusesAgree' /\ NothingForgotten' /\ DoneIsCommitted' /\ QueuedIsSelected' /\ CloseoutIsMet'
  BY DEF StatusesAgree, NothingForgotten, DoneIsCommitted, QueuedIsSelected, CloseoutIsMet
<1>5. OpenIsAwaited'
  <2>1. ASSUME NEW u \in Todos, NEW m \in Tries, Open(u, m)'
        PROVE  u \in interrupted \/ (stage' = "running" /\ cur' = u)
    <3>1. CASE u = t
      BY <2>1, <3>1
    <3>2. CASE u # t
      <4>1. Open(u, m)
        BY <2>1, <3>2 DEF Open
      <4> QED BY <3>2, <4>1 DEF IInv, OpenIsAwaited
    <3> QED BY <3>1, <3>2
  <2> QED BY <2>1 DEF OpenIsAwaited
<1>6. ChangesAreOwed'
  <2>1. ASSUME NEW u \in changes \ interrupted
        PROVE  (stage' = "running" /\ cur' = u) \/ \A m \in Tries : request'[u][m].result \notin Done
    <3>1. CASE u = t
      BY <3>1
    <3>2. CASE u # t
      <4>1. request'[u] = request[u]
        BY <1>1, <3>2 DEF TypeOK
      <4> QED BY <3>2, <4>1 DEF IInv, ChangesAreOwed
    <3> QED BY <3>1, <3>2
  <2> QED BY <2>1 DEF ChangesAreOwed
<1>7. WishesHaveFates'
  BY DEF IInv, WishesHaveFates, wishing
<1> QED BY <1>2, <1>3, <1>4, <1>5, <1>6, <1>7 DEF IInv

\* The other requests of a todo that follows its last are dead.
LEMMA OthersAreOver ==
    ASSUME SprintAssumption, NEW x, NEW qs \in [Tries -> RequestShapes], NEW n \in Tries,
           Going(x, n, qs), NEW m \in Tries, m # n
    PROVE  qs[m].result \notin Done /\ qs[m].status # "delegated"
<1>1. ~Made(qs[m]) \/ Dead(qs[m])
  BY DEF Going, First, Second, NoneAfter, Tries
<1>2. qs[m] \in RequestShapes
  OBVIOUS
<1> QED BY <1>1, <1>2 DEF Made, Dead, RequestShapes, NoRequest, Done

\* The loop is done with a todo.
LEMMA FinishKeeps ==
    ASSUME SprintAssumption, RequirementsAssumption, IInv,
           stage \in {"review", "running", "committing"},
           NEW s, s \in Sprints, s.status = "running", Tracks(s, request), Carries(s),
           NEW t \in Todos, stage = "running" => cur = t, NEW n \in Tries,
           Going(s.todo[t], n, request[t]),
           NEW q \in RequestShapes, Made(q), q.status # "delegated",
           Dead(request[t][n]) => Dead(q),
           t \in changes => q.result \notin Done,
           request' = [request EXCEPT ![t][n] = q],
           NEW status, FinalStatus(status) = Settled(q), Finish(s, t, n, status),
           review' \in {"none", "plain", "checkpoint"}, faults' \in 0..MaxFaults,
           UNCHANGED <<changes, active, interrupted, wishing>>
    PROVE  IInv'
<1> DEFINE x == s.todo[t]
           y == [x EXCEPT !.status = Settled(q), !.stamp = 2 * n]
<1>1. /\ TypeOK /\ request \in AllShapes /\ disk \in Sprints /\ Tracks(disk, request)
      /\ disk.status = "running" /\ taken \subseteq Wishes
      /\ \A w \in taken : disk.ledger.fate[w] # "none"
  BY DEF IInv, TypeOK, StatusesAgree, WishesHaveFates
<1>2. /\ x \in TodoRecords /\ request[t] \in [Tries -> RequestShapes]
  BY <1>1 DEF Sprints, AllShapes
<1>3. Made(request[t][n])
  BY DEF Going, First, Second, Follows
<1>4. Outdates(disk, Outdated(disk, t, n), t, n, q, request, request')
  BY <1>1, <1>3, OutdatedTracks
<1>5. /\ disk' = Outdated(disk, t, n) /\ stage' = "saving" /\ cur' = t
      /\ SyncBacklog(mem')
      /\ mem' = [s EXCEPT !.todo[t] = [@ EXCEPT !.status = FinalStatus(status), !.stamp = 2 * n]]
  BY DEF Finish
<1>6. /\ request' \in AllShapes /\ Tracks(disk', request') /\ disk' \in Sprints
      /\ SameSprint(disk, disk')
      /\ \A u \in Todos : u # t => request'[u] = request[u]
      /\ request'[t] = [request[t] EXCEPT ![n] = q]
  BY <1>4, <1>5 DEF Outdates
<1>7. y \in TodoRecords /\ Going(y, n, request'[t])
  <2>1. Going(x, n, request[t])
    OBVIOUS
  <2> HIDE DEF x
  <2>2. y \in TodoRecords /\ Going(y, n, [request[t] EXCEPT ![n] = q])
    BY <1>2, <2>1, FinishShape
  <2> HIDE DEF y
  <2> QED BY <1>6, <2>2
<1>8. mem' = [s EXCEPT !.todo = [s.todo EXCEPT ![t] = y]]
  BY <1>5 DEF Sprints
<1> HIDE DEF y, x
<1>9. /\ mem' \in Sprints /\ SameSprint(s, mem') /\ mem'.todo[t] = y
      /\ \A u \in Todos : u # t => mem'.todo[u] = s.todo[u]
  BY <1>7, <1>8 DEF Sprints, SameSprint
<1>10. Tracks(mem', request')
  BY <1>6, <1>7, <1>9 DEF Tracks, Going, Shape
<1>11. backlog' \in [Todos -> {"none", "selected", "done", "blocked", "carried_over"}]
  BY <1>1, <1>5, <1>9, BacklogSynced DEF TypeOK
<1>12. \A m \in Tries : ~Open(t, m)'
  <2>1. \A m \in Tries : request'[t][m].status # "delegated"
    BY <1>2, <1>6, OthersAreOver
  <2> QED BY <2>1 DEF Open
<1>13. t \in changes => \A m \in Tries : request'[t][m].result \notin Done
  BY <1>2, <1>6, OthersAreOver
<1>14. \A w \in taken : disk'.ledger.fate[w] # "none" /\ mem'.ledger.fate[w] # "none"
  BY <1>1, <1>6, <1>9 DEF SameSprint, Carries
<1>15. disk'.status = "running" /\ mem'.status = "running"
  BY <1>1, <1>6, <1>9 DEF SameSprint
<1>16. LoopIsAtWork' /\ stage' \in {"running", "committing", "saving"}
  BY <1>5 DEF LoopIsAtWork
<1> QED BY <1>5, <1>6, <1>9, <1>10, <1>11, <1>12, <1>13, <1>14, <1>15, <1>16, WorkKeeps

\* What a role's result makes the loop do.
LEMMA EnforceKeeps ==
    ASSUME SprintAssumption, RequirementsAssumption, IInv,
           stage \in {"review", "running"},
           NEW s, s \in Sprints, s.status = "running", Tracks(s, request), Carries(s),
           NEW t \in Todos, stage = "running" => cur = t, NEW n \in Tries,
           Going(s.todo[t], n, request[t]), ~Dead(request[t][n]),
           EnforceCommit(s, t, n),
           review' \in {"none", "plain", "checkpoint"}, faults' \in 0..MaxFaults,
           UNCHANGED <<changes, active, interrupted, wishing>>
    PROVE  IInv'
<1>1. CASE /\ t \notin changes
           /\ SetRequest(t, n, "completed", "completed")
           /\ Finish(s, t, n, "completed")
  <2> DEFINE q == [status |-> "completed", result |-> "completed"]
  <2>1. /\ q \in RequestShapes /\ Made(q) /\ q.status # "delegated"
        /\ FinalStatus("completed") = Settled(q)
    BY DEF RequestShapes, Made, Settled, FinalStatus
  <2>2. request' = [request EXCEPT ![t][n] = q]
    BY <1>1 DEF SetRequest
  <2>3. stage \in {"review", "running", "committing"}
    OBVIOUS
  <2> HIDE DEF q
  <2> QED BY <1>1, <2>1, <2>2, <2>3, FinishKeeps
<1>2. CASE /\ t \in changes
           /\ SetRequest(t, n, "uncommitted", "uncommitted")
           /\ SaveBoth(Outdated(Recovered([s EXCEPT !.todo[t].status = "uncommitted"], request), t, n))
           /\ stage' = "committing"
           /\ cur' = t
  <2> DEFINE q == [status |-> "uncommitted", result |-> "uncommitted"]
             x == s.todo[t]
             b == [s EXCEPT !.todo[t].status = "uncommitted"]
             r == Recovered(b, request)
             y == RecoverTodo([x EXCEPT !.status = "uncommitted"], request[t])
             z == OutdatedTodo(y, n)
             todo == [u \in Todos |-> IF u = t THEN z ELSE RecoverTodo(s.todo[u], request[u])]
  <2>1. q \in RequestShapes /\ Made(q) /\ q.status = "uncommitted" /\ q.result = "uncommitted"
    BY DEF RequestShapes, Made
  <2>2. request' = [request EXCEPT ![t][n] = q]
    BY <1>2 DEF SetRequest
  <2> HIDE DEF q
  <2>3. /\ request \in AllShapes /\ TypeOK /\ taken \subseteq Wishes
    BY DEF IInv, TypeOK
  <2>4. \A u \in Todos : /\ s.todo[u] \in TodoRecords /\ request[u] \in [Tries -> RequestShapes]
                         /\ Shape(s.todo[u], request[u])
    BY <2>3 DEF Sprints, AllShapes, Tracks
  <2>5. /\ request' \in AllShapes /\ request'[t] = [request[t] EXCEPT ![n] = q]
        /\ \A u \in Todos : u # t => request'[u] = request[u]
    <3>1. request' = [request EXCEPT ![t] = [request[t] EXCEPT ![n] = q]]
      BY <2>2, <2>3 DEF AllShapes
    <3> QED BY <2>1, <2>3, <2>4, <3>1 DEF AllShapes
  <2>6. z \in TodoRecords /\ Same(x, z) /\ Going(z, n, request'[t]) /\ z.stamp < 2 * n
    BY <2>1, <2>4, <2>5, EnforceShape
  <2>7. \A u \in Todos : /\ RecoverTodo(s.todo[u], request[u]) \in TodoRecords
                         /\ Shape(RecoverTodo(s.todo[u], request[u]), request[u])
    BY <2>4, RecoverShape DEF Fresh
  <2>8. Outdated(r, t, n) = [s EXCEPT !.todo = todo]
    <3>1. b = [s EXCEPT !.todo = [s.todo EXCEPT ![t] = [x EXCEPT !.status = "uncommitted"]]]
      BY <2>4 DEF Sprints
    <3>2. r = [s EXCEPT !.todo = [u \in Todos |-> IF u = t THEN y
                                                  ELSE RecoverTodo(s.todo[u], request[u])]]
      <4>1. r = [b EXCEPT !.todo = [u \in Todos |-> RecoverTodo(b.todo[u], request[u])]]
        BY <3>1 DEF Recovered, Sprints
      <4>2. b.todo[t] = [x EXCEPT !.status = "uncommitted"]
            /\ \A u \in Todos : u # t => b.todo[u] = s.todo[u]
        BY <3>1 DEF Sprints
      <4>3. [u \in Todos |-> RecoverTodo(b.todo[u], request[u])]
            = [u \in Todos |-> IF u = t THEN y ELSE RecoverTodo(s.todo[u], request[u])]
        <5> HIDE DEF b, x
        <5> QED BY <4>2
      <4> HIDE DEF r, y
      <4> QED BY <3>1, <4>1, <4>3 DEF Sprints
    <3> HIDE DEF r, y
    <3>3. Outdated(r, t, n) = [r EXCEPT !.todo = [r.todo EXCEPT ![t] = OutdatedTodo(r.todo[t], n)]]
      BY <3>2 DEF Outdated, OutdatedTodo, Sprints
    <3>4. r.todo[t] = y /\ \A u \in Todos : u # t => r.todo[u] = RecoverTodo(s.todo[u], request[u])
      BY <3>2 DEF Sprints
    <3>5. [r.todo EXCEPT ![t] = OutdatedTodo(r.todo[t], n)] = todo
      BY <3>2, <3>4 DEF Sprints
    <3> HIDE DEF todo
    <3> QED BY <3>2, <3>3, <3>5 DEF Sprints
  <2> HIDE DEF r, z, y
  <2>9. todo \in [Todos -> TodoRecords]
    BY <2>6, <2>7
  <2>10. \A u \in Todos : Shape(todo[u], request'[u])
    BY <2>5, <2>6, <2>7 DEF Going, Shape
  <2>11. todo[t] = z
    OBVIOUS
  <2> HIDE DEF todo
  <2>12. /\ disk' = [s EXCEPT !.todo = todo] /\ mem' = disk' /\ SyncBacklog(mem')
    BY <1>2, <2>8 DEF SaveBoth, SaveFile, r
  <2>13. /\ mem' \in Sprints /\ SameSprint(s, mem') /\ mem'.todo = todo
    BY <2>9, <2>12 DEF Sprints, SameSprint
  <2>14. Tracks(mem', request')
    BY <2>10, <2>13 DEF Tracks
  <2>15. backlog' \in [Todos -> {"none", "selected", "done", "blocked", "carried_over"}]
    BY <2>3, <2>12, <2>13, BacklogSynced DEF TypeOK
  <2>16. \A m \in Tries : ~Open(t, m)' /\ request'[t][m].result \notin Done
    <3>1. \A m \in Tries : request'[t][m].status # "delegated" /\ request'[t][m].result \notin Done
      BY <2>1, <2>4, <2>5, OthersAreOver DEF Done
    <3> QED BY <3>1 DEF Open
  <2>17. LoopIsAtWork'
    <3>1. z.request = n /\ (First(z, request'[t]) \/ Second(z, request'[t]))
      BY <2>6 DEF Going, First, Second, Follows
    <3>2. request'[t][n].status = "uncommitted"
      BY <2>1, <2>4, <2>5
    <3> QED BY <1>2, <2>6, <2>11, <2>13, <3>1, <3>2 DEF LoopIsAtWork
  <2>18. \A w \in taken : disk'.ledger.fate[w] # "none" /\ mem'.ledger.fate[w] # "none"
    BY <2>12, <2>13 DEF SameSprint, Carries
  <2>19. disk'.status = "running" /\ mem'.status = "running"
    BY <2>12, <2>13 DEF SameSprint
  <2>20. cur' = t /\ stage' \in {"running", "committing", "saving"}
    BY <1>2
  <2> QED BY <2>5, <2>12, <2>13, <2>14, <2>15, <2>16, <2>17, <2>18, <2>19, <2>20, WorkKeeps
<1> QED BY <1>1, <1>2 DEF EnforceCommit

\* A todo gets its request.
LEMMA StartKeeps ==
    ASSUME SprintAssumption, RequirementsAssumption, IInv, stage = "review",
           NEW s, s \in Sprints, s.status = "running", Tracks(s, request), Carries(s),
           NEW t \in Todos, s.todo[t].request = 0, s.todo[t].status # "absent",
           StartRequest(s, t), stage' = "running", cur' = t,
           review' \in {"none", "plain", "checkpoint"}, faults' \in 0..MaxFaults,
           UNCHANGED <<changes, active, interrupted, wishing>>
    PROVE  IInv'
<1> DEFINE n == Cardinality({k \in Tries : request[t][k].status # "none"}) + 1
           x == s.todo[t]
           made == [request EXCEPT ![t][n] = Early]
           b == [s EXCEPT !.todo[t].request = n]
           named == Recovered(b, made)
           y == RecoverTodo([x EXCEPT !.request = n], [request[t] EXCEPT ![n] = Early])
           todo == [u \in Todos |-> IF u = t THEN y ELSE RecoverTodo(s.todo[u], request[u])]
<1>1. /\ request \in AllShapes /\ TypeOK /\ taken \subseteq Wishes
  BY DEF IInv, TypeOK
<1>2. /\ n \in Tries /\ request' = [request EXCEPT ![t][n] = Delegated]
      /\ mem' = named
      /\ SaveFile(Recovered(Outdated(named, t, n), request'))
  BY DEF StartRequest, SetRequest, Early, Delegated
<1>3. \A u \in Todos : /\ s.todo[u] \in TodoRecords /\ request[u] \in [Tries -> RequestShapes]
                       /\ Shape(s.todo[u], request[u])
  BY <1>1 DEF Sprints, AllShapes, Tracks
<1>4. n = NextTry(request[t])
  BY DEF NextTry
<1>5. Unmade(x, request[t]) \/ Retired(x, request[t])
  BY <1>3 DEF Shape, First, Second, Back, Follows
<1> HIDE DEF n
<1>6. Delegated \in RequestShapes
  BY DEF Delegated, RequestShapes
<1>7. /\ request' \in AllShapes /\ request'[t] = [request[t] EXCEPT ![n] = Delegated]
      /\ \A u \in Todos : u # t => request'[u] = request[u]
  <2>1. request' = [request EXCEPT ![t] = [request[t] EXCEPT ![n] = Delegated]]
    BY <1>1, <1>2 DEF AllShapes
  <2> QED BY <1>1, <1>3, <1>6, <2>1 DEF AllShapes
<1>8. /\ y \in TodoRecords /\ y.covers = x.covers
      /\ Going(y, n, request'[t]) /\ y.stamp < 2 * n /\ y.request = n
  <2>1. x \in TodoRecords /\ request[t] \in [Tries -> RequestShapes]
    BY <1>3
  <2> HIDE DEF x
  <2>2. y = RecoverTodo([x EXCEPT !.request = n], [request[t] EXCEPT ![n] = Early])
    OBVIOUS
  <2>3. n \in Tries /\ request'[t] = [request[t] EXCEPT ![n] = Delegated]
    BY <1>2, <1>7
  <2> HIDE DEF y
  <2> QED BY <1>4, <1>5, <2>1, <2>2, <2>3, NewShape
<1>9. \A u \in Todos : /\ RecoverTodo(s.todo[u], request[u]) \in TodoRecords
                       /\ Shape(RecoverTodo(s.todo[u], request[u]), request[u])
  BY <1>3, RecoverShape DEF Fresh
<1>10. named = [s EXCEPT !.todo = todo]
  <2>1. b = [s EXCEPT !.todo = [s.todo EXCEPT ![t] = [x EXCEPT !.request = n]]]
    BY <1>3 DEF Sprints
  <2>2. b.todo[t] = [x EXCEPT !.request = n] /\ \A u \in Todos : u # t => b.todo[u] = s.todo[u]
    BY <2>1 DEF Sprints
  <2>3. named = [b EXCEPT !.todo = [u \in Todos |-> RecoverTodo(b.todo[u], made[u])]]
    BY <2>1 DEF Recovered, Sprints
  <2>4. made[t] = [request[t] EXCEPT ![n] = Early] /\ \A u \in Todos : u # t => made[u] = request[u]
    <3>1. made = [request EXCEPT ![t] = [request[t] EXCEPT ![n] = Early]]
      BY <1>1 DEF AllShapes
    <3> HIDE DEF made
    <3> QED BY <1>1, <3>1 DEF AllShapes
  <2>5. [u \in Todos |-> RecoverTodo(b.todo[u], made[u])] = todo
    <3> HIDE DEF b, x, made
    <3> QED BY <2>2, <2>4
  <2> HIDE DEF named, todo
  <2> QED BY <2>1, <2>3, <2>5 DEF Sprints
<1>11. todo \in [Todos -> TodoRecords] /\ todo[t] = y
  BY <1>8, <1>9
<1>12. \A u \in Todos : Shape(todo[u], request'[u])
  BY <1>7, <1>8, <1>9 DEF Going, Shape
<1> HIDE DEF todo, named, y, x
<1>13. /\ mem' \in Sprints /\ SameSprint(s, mem') /\ mem'.todo = todo
  BY <1>2, <1>10, <1>11 DEF Sprints, SameSprint
<1>14. Tracks(mem', request')
  BY <1>12, <1>13 DEF Tracks
<1>15. Outdated(mem', t, n) = mem'
  <2>1. n \in Nat /\ y.stamp \in Nat /\ y.stamp # 2 * n
    BY <1>2, <1>8 DEF Tries, TodoRecords
  <2>2. mem'.todo[t] = y
    BY <1>11, <1>13
  <2>3. [y EXCEPT !.stamp = IF @ = 2 * n THEN 2 * n - 1 ELSE @] = y
    BY <1>8, <2>1 DEF TodoRecords
  <2>4. Outdated(mem', t, n)
        = [mem' EXCEPT !.todo = [mem'.todo EXCEPT ![t] =
                [mem'.todo[t] EXCEPT !.stamp = IF @ = 2 * n THEN 2 * n - 1 ELSE @]]]
    BY <1>13 DEF Outdated, Sprints
  <2>5. [mem'.todo EXCEPT ![t] =
            [mem'.todo[t] EXCEPT !.stamp = IF @ = 2 * n THEN 2 * n - 1 ELSE @]] = mem'.todo
    BY <1>13, <2>2, <2>3 DEF Sprints
  <2> QED BY <1>13, <2>4, <2>5 DEF Sprints
<1>16. disk' = Recovered(mem', request') /\ SyncBacklog(disk')
  BY <1>2, <1>15 DEF SaveFile
<1>17. Recovers(mem', disk', request')
  BY <1>7, <1>13, <1>14, <1>16, RecoveredTracks
<1>18. /\ disk' \in Sprints /\ Tracks(disk', request')
       /\ SameSprint(s, disk')
  BY <1>13, <1>17 DEF Recovers, SameSprint
<1>19. backlog' \in [Todos -> {"none", "selected", "done", "blocked", "carried_over"}]
  BY <1>1, <1>16, <1>18, BacklogSynced DEF TypeOK
<1>20. LoopIsAtWork'
  <2>1. First(y, request'[t]) \/ Second(y, request'[t])
    BY <1>8 DEF Going
  <2>2. request'[t][n] = Delegated
    BY <1>2, <1>3, <1>7
  <2>3. mem'.todo[t] = y
    BY <1>11, <1>13
  <2> QED BY <1>8, <2>1, <2>2, <2>3 DEF LoopIsAtWork, Delegated
<1>21. \A w \in taken : disk'.ledger.fate[w] # "none" /\ mem'.ledger.fate[w] # "none"
  BY <1>13, <1>18 DEF SameSprint, Carries
<1>22. disk'.status = "running" /\ mem'.status = "running"
  BY <1>13, <1>18 DEF SameSprint
<1>23. stage' \in {"running", "committing", "saving"} /\ stage # "running"
  OBVIOUS
<1> QED BY <1>7, <1>13, <1>14, <1>18, <1>19, <1>20, <1>21, <1>22, <1>23, WorkKeeps

\* A todo is run, with its request or with a new one.
LEMMA RunKeeps ==
    ASSUME SprintAssumption, RequirementsAssumption, IInv, stage = "review",
           NEW s, s \in Sprints, s.status = "running", Carries(s),
           \A u \in Todos : Fresh(s.todo[u], request[u]),
           NEW t \in Todos, s.todo[t].status \in Executable, ~Recovering(s, t), RunTodo(s, t),
           review' \in {"none", "plain", "checkpoint"}, faults' \in 0..MaxFaults,
           UNCHANGED <<changes, active, interrupted, wishing>>
    PROVE  IInv'
<1> DEFINE x == s.todo[t]
           y == [x EXCEPT !.status = "running"]
           b == [s EXCEPT !.todo[t].status = "running"]
           r == Recovered(b, request)
<1>1. /\ request \in AllShapes /\ TypeOK /\ taken \subseteq Wishes
  BY DEF IInv, TypeOK
<1>2. \A u \in Todos : /\ s.todo[u] \in TodoRecords /\ request[u] \in [Tries -> RequestShapes]
                       /\ Shape(s.todo[u], request[u]) /\ Fresh(s.todo[u], request[u])
  BY <1>1 DEF Sprints, AllShapes, Fresh
<1>3. x.status \in {"queued", "running"}
  BY DEF Recovering, Executable
<1>4. /\ x.request = 0 => Unmade(x, request[t]) \/ Retired(x, request[t])
      /\ x.request # 0 => /\ Going(x, x.request, request[t]) /\ x.stamp < 2 * x.request
                          /\ x.request \in Tries
                          /\ request[t][x.request].status \in {"cancelled", "delegated"}
                          /\ request[t][x.request].result = "none"
  BY <1>2, <1>3, FreshSays
<1>5. b = [s EXCEPT !.todo = [s.todo EXCEPT ![t] = y]]
  BY <1>2 DEF Sprints
<1>6. y \in TodoRecords /\ Same(x, y) /\ y.status = "running" /\ y.stamp = x.stamp
  <2>1. x \in TodoRecords
    BY <1>2
  <2> HIDE DEF x
  <2> QED BY <2>1 DEF TodoRecords, Same, TodoStatuses, Executable
<1>7. /\ x.request = 0 => Unmade(y, request[t]) \/ Retired(y, request[t])
      /\ x.request # 0 => Going(y, x.request, request[t]) /\ y.stamp < 2 * x.request
  <2>1. CASE x.request = 0
    <3> HIDE DEF y, x
    <3> QED BY <1>4, <1>6, <2>1 DEF Unmade, Retired, Same
  <2>2. CASE x.request # 0
    <3>1. "running" \in TodoStatuses /\ x \in TodoRecords
      BY <1>2 DEF TodoStatuses, Executable
    <3> HIDE DEF x
    <3> QED BY <1>4, <2>2, <3>1, RunShape
  <2> QED BY <2>1, <2>2
<1>8. Shape(y, request[t])
  BY <1>7 DEF Shape, Going
<1> HIDE DEF y, x, b
<1>9. /\ b \in Sprints /\ SameSprint(s, b) /\ b.todo[t] = y
      /\ \A u \in Todos : u # t => b.todo[u] = s.todo[u]
  BY <1>5, <1>6 DEF Sprints, SameSprint
<1>10. Tracks(b, request)
  BY <1>2, <1>8, <1>9 DEF Tracks
<1>11. Recovers(b, r, request) /\ r.todo[t] = RecoverTodo(y, request[t])
  BY <1>1, <1>9, <1>10, RecoveredTracks
<1>12. /\ stage' = "running" /\ cur' = t
       /\ IF r.todo[t].request = 0 THEN StartRequest(r, t)
          ELSE SaveBoth(Recovered(r, request)) /\ UNCHANGED request
  BY DEF RunTodo, b
<1> HIDE DEF r
<1>13. /\ r \in Sprints /\ r.status = "running" /\ Tracks(r, request) /\ Carries(r)
       /\ r.todo[t].request = x.request
  BY <1>6, <1>9, <1>11 DEF Recovers, SameSprint, Same, Carries
<1>14. CASE x.request = 0
  <2>1. r.todo[t] = y
    <3>1. Unmade(y, request[t]) \/ Retired(y, request[t])
      BY <1>7, <1>14
    <3> QED BY <1>2, <1>6, <1>8, <1>11, <3>1, RecoverShape
  <2>2. r.todo[t].request = 0 /\ r.todo[t].status # "absent" /\ StartRequest(r, t)
    BY <1>6, <1>12, <1>13, <1>14, <2>1
  <2> QED BY <1>12, <1>13, <2>2, StartKeeps
<1>15. CASE x.request # 0
  <2> DEFINE n == x.request
             f == Recovered(r, request)
             z == f.todo[t]
  <2>1. disk' = f /\ mem' = f /\ SyncBacklog(f) /\ request' = request
    BY <1>12, <1>13, <1>15 DEF SaveBoth, SaveFile
  <2>2. Recovers(r, f, request) /\ z = RecoverTodo(r.todo[t], request[t])
    BY <1>1, <1>13, RecoveredTracks
  <2>3. n \in Tries /\ Going(y, n, request[t]) /\ y.stamp < 2 * n
    BY <1>4, <1>7, <1>15
  <2> HIDE DEF n
  <2>4. /\ r.todo[t] \in TodoRecords /\ Going(r.todo[t], n, request[t])
        /\ r.todo[t].stamp < 2 * n
    BY <1>2, <1>6, <1>11, <2>3, RecoverGoing
  <2> HIDE DEF f, z
  <2>5. /\ Going(z, n, request[t]) /\ z.stamp < 2 * n
    <3>1. request[t] \in [Tries -> RequestShapes]
      BY <1>2
    <3> QED BY <2>2, <2>3, <2>4, <3>1, RecoverGoing
  <2>6. /\ f \in Sprints /\ f.status = "running" /\ Tracks(f, request) /\ Carries(f)
    BY <1>13, <2>2 DEF Recovers, SameSprint, Carries
  <2>7. backlog' \in [Todos -> {"none", "selected", "done", "blocked", "carried_over"}]
    BY <1>1, <2>1, <2>6, BacklogSynced DEF TypeOK
  <2>8. LoopIsAtWork'
    <3>1. z.request = n /\ (First(z, request[t]) \/ Second(z, request[t]))
      BY <2>5 DEF Going, First, Second, Follows
    <3>2. request[t][n].result = "none"
      BY <1>4, <1>15 DEF n
    <3>3. mem'.todo[t] = z
      BY <2>1 DEF z
    <3> QED BY <1>12, <2>1, <2>5, <3>1, <3>2, <3>3 DEF LoopIsAtWork
  <2>9. \A w \in taken : disk'.ledger.fate[w] # "none" /\ mem'.ledger.fate[w] # "none"
    BY <2>1, <2>6 DEF Carries
  <2>10. stage' \in {"running", "committing", "saving"} /\ stage # "running"
    BY <1>12
  <2> QED BY <1>1, <1>12, <2>1, <2>6, <2>7, <2>8, <2>9, <2>10, WorkKeeps
<1> QED BY <1>14, <1>15

-----------------------------------------------------------------------------
(* The next todo is picked *)

\* What the planner makes of the wishes.
LEMMA ReconciledLedger ==
    ASSUME NEW l \in Ledger, NEW k \in Reconciled(l)
    PROVE  k \in Ledger /\ \A w \in Wishes : l.fate[w] # "none" => k.fate[w] # "none"
<1>1. \A d : Decided(d) \in Fates \ {"none"}
  BY DEF Decided, Fates
<1>2. PICK answer \in [Pending(l) -> Decisions] :
        \E must \in SUBSET {w \in Pending(l) : "registered" \in answer[w]} :
          k = [fate |-> [w \in Wishes |-> IF w \in Pending(l) THEN Decided(answer[w]) ELSE l.fate[w]],
               required |-> l.required \cup must]
  BY DEF Reconciled
<1>3. PICK must \in SUBSET {w \in Pending(l) : "registered" \in answer[w]} :
          k = [fate |-> [w \in Wishes |-> IF w \in Pending(l) THEN Decided(answer[w]) ELSE l.fate[w]],
               required |-> l.required \cup must]
  BY <1>2
<1>4. must \subseteq Wishes
  BY <1>3 DEF Pending
<1>5. k.required \in SUBSET Wishes
  BY <1>3, <1>4 DEF Ledger
<1>6. k.fate \in [Wishes -> Fates]
  BY <1>1, <1>3 DEF Ledger
<1>7. k = [fate |-> k.fate, required |-> k.required]
  BY <1>3
<1> QED BY <1>1, <1>3, <1>5, <1>6, <1>7 DEF Ledger

\* The queue only gains todos: what the loop has queued is still selected.
LEMMA SyncKeeps ==
    ASSUME SprintAssumption, IInv, stage = "review",
           NEW s, s \in Sprints, s.status = "running", s.todo = mem.todo, Carries(s)
    PROVE  LET q == SyncQueue(s) IN
           q \in Sprints /\ q.status = "running" /\ Tracks(q, request) /\ Carries(q)
<1> DEFINE todo == [t \in Todos |->
              IF s.todo[t].status = "absent" /\ backlog[t] = "selected"
              THEN NewTodo("queued", s.todo[t].covers)
              ELSE IF s.todo[t].status = "queued" /\ backlog[t] # "selected"
              THEN NewTodo("absent", s.todo[t].covers) ELSE s.todo[t]]
<1>1. SyncQueue(s) = [s EXCEPT !.todo = todo]
  BY DEF SyncQueue, Sprints
<1>2. ASSUME NEW t \in Todos PROVE todo[t] \in TodoRecords /\ Shape(todo[t], request[t])
  <2>1. s.todo[t] \in TodoRecords /\ Shape(s.todo[t], request[t])
    BY DEF Sprints, IInv, Tracks
  <2>2. s.todo[t].status = "queued" => backlog[t] = "selected"
    BY DEF IInv, QueuedIsSelected
  <2>3. CASE s.todo[t].status = "absent" /\ backlog[t] = "selected"
    <3>1. Unmade(s.todo[t], request[t])
      BY <2>1, <2>3, AbsentIsUnmade
    <3>2. s.todo[t].covers \in SUBSET (Kickoff \cup Wishes)
      BY <2>1 DEF TodoRecords
    <3>3. todo[t] = NewTodo("queued", s.todo[t].covers)
      BY <2>3
    <3> HIDE DEF todo
    <3>4. todo[t] \in TodoRecords /\ Unmade(todo[t], request[t])
      BY <3>1, <3>2, <3>3, NewTodoShape
    <3> QED BY <3>4 DEF Shape
  <2>4. CASE ~(s.todo[t].status = "absent" /\ backlog[t] = "selected")
    BY <2>1, <2>2, <2>4
  <2> QED BY <2>3, <2>4
<1>3. todo \in [Todos -> TodoRecords]
  BY <1>2
<1> HIDE DEF todo
<1> DEFINE q == SyncQueue(s)
<1>4. q \in Sprints /\ q.status = s.status /\ q.ledger = s.ledger /\ q.todo = todo
  BY <1>1, <1>3 DEF Sprints
<1>5. Tracks(q, request) /\ Carries(q)
  BY <1>2, <1>4 DEF Tracks, Carries
<1> QED BY <1>4, <1>5

\* s is the loop's copy as Pick looks for work in it: reviewed, and recovered.
Looks(s) ==
    /\ s \in Sprints /\ s.status = "running" /\ Tracks(s, request) /\ Carries(s)
    /\ \A u \in Todos : Fresh(s.todo[u], request[u])
    /\ \/ NextTodos(s) = {} /\ Finalize(s) /\ UNCHANGED request
       \/ \E t \in NextTodos(s) :
            /\ IF Recovering(s, t) THEN EnforceCommit(s, t, s.todo[t].request) ELSE RunTodo(s, t)
            /\ NoFault
            /\ UNCHANGED <<changes, active, interrupted>>

\* The loop picks a todo, or ends the sprint, from a copy it has just recovered.
LEMMA PickLooks ==
    ASSUME SprintAssumption, RequirementsAssumption, IInv, Pick
    PROVE  \E s : Looks(s)
<1>1. /\ mem \in Sprints /\ mem.status = "running" /\ request \in AllShapes
      /\ Tracks(mem, request) /\ stage = "review" /\ taken \subseteq Wishes
      /\ \A w \in taken : mem.ledger.fate[w] # "none"
  BY DEF Pick, IInv, TypeOK, StatusesAgree, WishesHaveFates
<1>2. PICK reviewed \in Reviewed(mem) :
        LET sprint == Recovered(SyncQueue(reviewed), request) IN
        \/ /\ NextTodos(sprint) = {}
           /\ Finalize(sprint)
           /\ UNCHANGED request
        \/ \E t \in NextTodos(sprint) :
            /\ IF Recovering(sprint, t)
               THEN EnforceCommit(sprint, t, sprint.todo[t].request)
               ELSE RunTodo(sprint, t)
            /\ NoFault
            /\ UNCHANGED <<changes, active, interrupted>>
  BY DEF Pick
<1>3. reviewed \in Sprints /\ reviewed.status = "running" /\ reviewed.todo = mem.todo
      /\ Carries(reviewed)
  <2>1. CASE reviewed = mem
    BY <1>1, <2>1 DEF Carries
  <2>2. CASE \E ledger \in Reconciled(mem.ledger) : reviewed = [mem EXCEPT !.ledger = ledger]
    <3>1. PICK ledger \in Reconciled(mem.ledger) : reviewed = [mem EXCEPT !.ledger = ledger]
      BY <2>2
    <3>2. mem.ledger \in Ledger
      BY <1>1 DEF Sprints
    <3>3. ledger \in Ledger /\ \A w \in Wishes : mem.ledger.fate[w] # "none" => ledger.fate[w] # "none"
      BY <3>2, ReconciledLedger
    <3> QED BY <1>1, <3>1, <3>3 DEF Sprints, Carries
  <2> QED BY <2>1, <2>2 DEF Reviewed
<1> DEFINE q == SyncQueue(reviewed)
           s == Recovered(q, request)
<1>4. q \in Sprints /\ q.status = "running" /\ Tracks(q, request) /\ Carries(q)
  BY <1>1, <1>3, SyncKeeps
<1> HIDE DEF q
<1>5. Recovers(q, s, request)
  BY <1>1, <1>4, RecoveredTracks
<1>6. \/ NextTodos(s) = {} /\ Finalize(s) /\ UNCHANGED request
      \/ \E t \in NextTodos(s) :
            /\ IF Recovering(s, t) THEN EnforceCommit(s, t, s.todo[t].request) ELSE RunTodo(s, t)
            /\ NoFault
            /\ UNCHANGED <<changes, active, interrupted>>
  BY <1>2 DEF q
<1> HIDE DEF s
<1>7. /\ s \in Sprints /\ s.status = "running" /\ Tracks(s, request) /\ Carries(s)
      /\ \A u \in Todos : Fresh(s.todo[u], request[u])
  BY <1>4, <1>5 DEF Recovers, SameSprint, Carries
<1> QED BY <1>6, <1>7 DEF Looks

\* Picking a todo, or ending a sprint that has none left, keeps the invariant.
LEMMA PickKeeps ==
    ASSUME SprintAssumption, RequirementsAssumption, IInv, Pick
    PROVE  IInv'
<1>1. /\ stage = "review" /\ review' = "none" /\ UNCHANGED wishing
      /\ mem \in Sprints /\ mem.status = "running" /\ request \in AllShapes
      /\ taken \subseteq Wishes /\ faults \in 0..MaxFaults
      /\ \A w \in taken : mem.ledger.fate[w] # "none"
  BY DEF Pick, IInv, TypeOK, StatusesAgree, WishesHaveFates
<1>2. PICK s : Looks(s)
  BY PickLooks
<1>6. \/ NextTodos(s) = {} /\ Finalize(s) /\ UNCHANGED request
      \/ \E t \in NextTodos(s) :
            /\ IF Recovering(s, t) THEN EnforceCommit(s, t, s.todo[t].request) ELSE RunTodo(s, t)
            /\ NoFault
            /\ UNCHANGED <<changes, active, interrupted>>
  BY <1>2 DEF Looks
<1>7. /\ s \in Sprints /\ s.status = "running" /\ Tracks(s, request) /\ Carries(s)
      /\ \A u \in Todos : Fresh(s.todo[u], request[u])
  BY <1>2 DEF Looks
<1>8. review' \in {"none", "plain", "checkpoint"} /\ stage # "running"
  BY <1>1
<1>9. CASE NextTodos(s) = {} /\ Finalize(s) /\ UNCHANGED request
  BY <1>7, <1>8, <1>9, FinalizeKeeps
<1>10. ASSUME NEW t \in NextTodos(s),
              IF Recovering(s, t) THEN EnforceCommit(s, t, s.todo[t].request) ELSE RunTodo(s, t),
              NoFault, UNCHANGED <<changes, active, interrupted>>
       PROVE  IInv'
  <2>1. t \in Todos /\ s.todo[t].status \in Executable
    BY DEF NextTodos, Ready
  <2>2. faults' \in 0..MaxFaults
    BY <1>1, <1>10 DEF NoFault
  <2>3. s.todo[t] \in TodoRecords /\ request[t] \in [Tries -> RequestShapes]
        /\ Fresh(s.todo[t], request[t])
    BY <1>1, <1>7, <2>1 DEF Sprints, AllShapes
  <2>4. CASE Recovering(s, t)
    <3> DEFINE n == s.todo[t].request
    <3>1. s.todo[t].status = "uncommitted"
      BY <2>3, <2>4, FreshSays DEF Recovering
    <3>2. n # 0 /\ n \in Tries /\ Going(s.todo[t], n, request[t])
      BY <2>3, <3>1, FreshSays
    <3>3. request[t][n].status = "uncommitted"
      <4>1. Made(request[t][n]) /\ request[t][n] \in RequestShapes
        BY <2>3, <3>2 DEF Going, First, Second, Follows
      <4>2. TodoStatus(request[t][n]) = "uncommitted"
        BY <2>3, <3>1, <3>2 DEF Fresh
      <4> QED BY <4>1, <4>2, RequestsSay
    <3>4. ~Dead(request[t][n])
      BY <2>3, <3>2, <3>3 DEF Dead, RequestShapes, NoRequest
    <3>5. EnforceCommit(s, t, n) /\ stage \in {"review", "running"}
      BY <1>1, <1>10, <2>4
    <3> HIDE DEF n
    <3> QED BY <1>1, <1>7, <1>8, <1>10, <2>1, <2>2, <3>2, <3>4, <3>5, EnforceKeeps
  <2>5. CASE ~Recovering(s, t)
    <3>1. RunTodo(s, t)
      BY <1>10, <2>5
    <3> QED BY <1>1, <1>7, <1>8, <1>10, <2>1, <2>2, <2>5, <3>1, RunKeeps
  <2> QED BY <2>4, <2>5
<1> QED BY <1>6, <1>9, <1>10

-----------------------------------------------------------------------------
(* Requests end and are committed *)

\* The todo in execution follows its last request.
LEMMA AtWork ==
    ASSUME SprintAssumption, IInv, stage \in {"running", "committing"}
    PROVE  LET n == mem.todo[cur].request IN
           /\ cur \in Todos /\ n \in Tries /\ Going(mem.todo[cur], n, request[cur])
           /\ request[cur][n] \in RequestShapes /\ Made(request[cur][n])
           /\ mem \in Sprints /\ mem.status = "running" /\ Tracks(mem, request) /\ Carries(mem)
           /\ request \in AllShapes
           /\ review \in {"none", "plain", "checkpoint"} /\ faults \in 0..MaxFaults
           /\ stage = "running" => request[cur][n].result \notin {"committed", "uncommitted"}
           /\ stage = "committing" => request[cur][n].status = "uncommitted"
<1> DEFINE x == mem.todo[cur]
           n == x.request
<1>1. /\ cur \in Todos /\ mem \in Sprints /\ mem.status = "running" /\ Tracks(mem, request)
      /\ Carries(mem) /\ request \in AllShapes
      /\ review \in {"none", "plain", "checkpoint"} /\ faults \in 0..MaxFaults
  BY DEF IInv, TypeOK, StatusesAgree, WishesHaveFates, Carries
<1>2. /\ First(x, request[cur]) \/ Second(x, request[cur])
      /\ stage = "running" => request[cur][n].result \notin {"committed", "uncommitted"}
      /\ stage = "committing" => request[cur][n].status = "uncommitted"
  BY DEF IInv, LoopIsAtWork
<1> HIDE DEF x
<1>3. n \in Tries /\ Going(x, n, request[cur]) /\ Made(request[cur][n])
  BY <1>2 DEF Going, First, Second, Follows, Tries, SprintAssumption
<1>4. request[cur][n] \in RequestShapes
  BY <1>1, <1>3 DEF AllShapes
<1> QED BY <1>1, <1>2, <1>3, <1>4 DEF x

\* The return of the awaited request keeps the invariant.
LEMMA RequestEndsKeeps ==
    ASSUME SprintAssumption, RequirementsAssumption, IInv, RequestEnds
    PROVE  IInv'
<1> DEFINE n == mem.todo[cur].request
           q == request[cur][n]
           result == IF q.result = "none" THEN q.status ELSE q.result
<1>1. /\ stage = "running" /\ q.status \in Terminal
      /\ IF result = "completed" THEN EnforceCommit(mem, cur, n)
         ELSE Finish(mem, cur, n, result) /\ UNCHANGED request
      /\ NoFault /\ UNCHANGED <<asking, changes, active, interrupted>>
  BY DEF RequestEnds, Answered
<1>2. /\ cur \in Todos /\ n \in Tries /\ Going(mem.todo[cur], n, request[cur])
      /\ q \in RequestShapes /\ Made(q)
      /\ mem \in Sprints /\ mem.status = "running" /\ Tracks(mem, request) /\ Carries(mem)
      /\ request \in AllShapes
      /\ review \in {"none", "plain", "checkpoint"} /\ faults \in 0..MaxFaults
      /\ q.result \notin {"committed", "uncommitted"}
  BY <1>1, AtWork
<1>3. /\ review' \in {"none", "plain", "checkpoint"} /\ faults' \in 0..MaxFaults
      /\ UNCHANGED <<changes, active, interrupted, wishing>>
  BY <1>1, <1>2 DEF NoFault, asking
<1>4. stage \in {"review", "running"} /\ stage \in {"review", "running", "committing"}
  BY <1>1
<1>5. q.status # "delegated" /\ (result # "completed" => q.result \notin Done)
      /\ FinalStatus(result) = Settled(q)
  BY <1>1, <1>2 DEF Terminal, Done, Settled
<1>6. result = "completed" => ~Dead(q)
  BY <1>2 DEF Dead
<1>7. [request EXCEPT ![cur][n] = q] = request
  BY <1>2 DEF AllShapes
<1> HIDE DEF n, q, result
<1>8. CASE result = "completed"
  <2>1. EnforceCommit(mem, cur, n) /\ ~Dead(request[cur][n])
    BY <1>1, <1>6, <1>8 DEF q
  <2> QED BY <1>2, <1>3, <1>4, <2>1, EnforceKeeps
<1>9. CASE result # "completed"
  <2>1. Finish(mem, cur, n, result) /\ request' = [request EXCEPT ![cur][n] = q]
    BY <1>1, <1>7, <1>9
  <2>2. Dead(request[cur][n]) => Dead(q)
    BY DEF q
  <2>3. cur \in changes => q.result \notin Done
    BY <1>5, <1>9
  <2> QED BY <1>2, <1>3, <1>4, <1>5, <2>1, <2>2, <2>3, FinishKeeps
<1> QED BY <1>8, <1>9

\* The end of a commit, made or failed, keeps the invariant.
LEMMA CommitKeeps ==
    ASSUME SprintAssumption, RequirementsAssumption, IInv, CommitReturns \/ CommitFails
    PROVE  IInv'
<1> DEFINE n == mem.todo[cur].request
<1>1. PICK status \in {"committed", "uncommitted"} :
        /\ SetRequest(cur, n, status, status)
        /\ Finish(mem, cur, n, status)
        /\ status = "committed" => cur \notin changes
  BY DEF CommitReturns, CommitFails
<1>2. /\ stage = "committing" /\ UNCHANGED <<asking, changes, active, interrupted>>
      /\ faults' = faults \/ (faults < MaxFaults /\ faults' = faults + 1)
  BY DEF CommitReturns, CommitFails, Fault
<1>3. /\ cur \in Todos /\ n \in Tries /\ Going(mem.todo[cur], n, request[cur])
      /\ request[cur][n] \in RequestShapes
      /\ mem \in Sprints /\ mem.status = "running" /\ Tracks(mem, request) /\ Carries(mem)
      /\ review \in {"none", "plain", "checkpoint"} /\ faults \in 0..MaxFaults
      /\ request[cur][n].status = "uncommitted"
  BY <1>2, AtWork
<1> HIDE DEF n
<1> DEFINE q == [status |-> status, result |-> status]
<1>4. /\ q \in RequestShapes /\ Made(q) /\ q.status # "delegated"
      /\ FinalStatus(status) = Settled(q)
      /\ status = "uncommitted" => q.result \notin Done
  BY DEF RequestShapes, Made, Settled, FinalStatus, Done
<1>5. request' = [request EXCEPT ![cur][n] = q]
  BY <1>1 DEF SetRequest
<1>6. cur \in changes => q.result \notin Done
  BY <1>1, <1>4
<1>7. Dead(request[cur][n]) => Dead(q)
  BY <1>3 DEF Dead, RequestShapes, NoRequest
<1>8. /\ review' \in {"none", "plain", "checkpoint"} /\ faults' \in 0..MaxFaults
      /\ UNCHANGED <<changes, active, interrupted, wishing>>
  BY <1>2, <1>3 DEF asking, SprintAssumption
<1>9. stage \in {"review", "running", "committing"} /\ stage # "running"
  BY <1>2
<1> HIDE DEF q
<1> QED BY <1>1, <1>3, <1>4, <1>5, <1>6, <1>7, <1>8, <1>9, FinishKeeps

\* Whatever a role reports of a request that is open keeps the invariant.
LEMMA ReportsKeep ==
    ASSUME SprintAssumption, RequirementsAssumption, IInv, NEW t \in Todos, NEW n \in Tries,
           RoleReports(t, n) \/ RoleFinishes(t, n) \/ RoleFails(t, n)
    PROVE  IInv'
<1>1. Open(t, n) /\ ChangesMade(t)
      /\ UNCHANGED <<stage, cur, asking, active, interrupted>>
  BY DEF RoleReports, RoleFinishes, RoleFails
<1>2. faults' \in 0..MaxFaults
  BY DEF RoleReports, RoleFinishes, RoleFails, IInv, TypeOK, Fault, SprintAssumption
<1>3. \/ RecordRequest(t, n, "delegated", "completed")
      \/ RecordRequest(t, n, "completed", "completed")
      \/ RecordRequest(t, n, "failed", "failed")
      \/ RecordRequest(t, n, "blocked", "blocked")
  BY DEF RoleReports, RoleFinishes, RoleFails
<1>4. PICK q \in {[status |-> "delegated", result |-> "completed"],
                  [status |-> "completed", result |-> "completed"],
                  [status |-> "failed", result |-> "failed"],
                  [status |-> "blocked", result |-> "blocked"]} :
         RecordRequest(t, n, q.status, q.result)
  BY <1>3
<1>5. /\ q \in RequestShapes /\ q.status \notin {"none", "uncommitted"}
      /\ q.result \notin {"none", "uncommitted", "committed"}
  BY DEF RequestShapes
<1> QED BY <1>1, <1>2, <1>4, <1>5, ReportKeeps

-----------------------------------------------------------------------------
(* The invariant *)

\* The invariant holds in a sprint whose kickoff has queued its todos.
LEMMA InitHolds ==
    ASSUME SprintAssumption, RequirementsAssumption, Init
    PROVE  IInv
<1> DEFINE todo == [t \in Todos |-> IF t \in Recovery THEN NewTodo("absent", {})
                                    ELSE NewTodo("queued", Implements[t])]
<1>1. /\ disk = [status |-> "running", wrapUp |-> FALSE, restart |-> FALSE,
                 ledger |-> NewLedger, todo |-> todo]
      /\ mem = disk /\ stage = "idle"
      /\ request = [t \in Todos |-> [n \in Tries |-> NoRequest]]
      /\ changes = {} /\ active = TRUE /\ review = "none" /\ heard = [w \in Wishes |-> {}]
      /\ backlog = [t \in Todos |-> IF t \in Recovery THEN "none" ELSE "selected"]
      /\ interrupted = {} /\ taken = {} /\ faults = 0
  BY DEF Init
<1>2. request \in AllShapes /\ \A t \in Todos, n \in Tries : request[t][n] = NoRequest
  BY <1>1 DEF AllShapes, RequestShapes
<1>3. ASSUME NEW t \in Todos PROVE todo[t] \in TodoRecords /\ Unmade(todo[t], request[t])
  <2> DEFINE x == [status |-> "queued", request |-> 0, retired |-> 0, stamp |-> 0]
  <2>1. Unmade(x, request[t])
    BY <1>2 DEF Unmade, NoneAfter, Made, NoRequest
  <2>2. {} \in SUBSET (Kickoff \cup Wishes)
        /\ (t \notin Recovery => Implements[t] \in SUBSET (Kickoff \cup Wishes))
    BY DEF SprintAssumption
  <2>3. CASE t \in Recovery
    <3>1. todo[t] = NewTodo("absent", {})
      BY <2>3
    <3> HIDE DEF x, todo
    <3> QED BY <2>1, <2>2, <3>1, NewTodoShape
  <2>4. CASE t \notin Recovery
    <3>1. todo[t] = NewTodo("queued", Implements[t])
      BY <2>4
    <3> HIDE DEF x, todo
    <3> QED BY <2>1, <2>2, <2>4, <3>1, NewTodoShape
  <2> QED BY <2>3, <2>4
<1>4. cur \in Todos
  <2>1. (CHOOSE t \in Todos : TRUE) \in Todos
    BY DEF SprintAssumption
  <2> QED BY <2>1 DEF Init
<1>5. todo \in [Todos -> TodoRecords]
  BY <1>3
<1>6. \A t \in Todos : Shape(todo[t], request[t])
  BY <1>3 DEF Shape
<1> HIDE DEF todo
<1>7. NewLedger \in Ledger
  BY DEF NewLedger, Ledger, Fates
<1>8. disk \in Sprints /\ Tracks(disk, request)
  BY <1>1, <1>5, <1>6, <1>7 DEF Sprints, SprintStatuses, Tracks
<1>9. TypeOK
  <2>1. request \in [Todos -> [Tries -> Requests]]
    BY <1>1 DEF NoRequest, Requests
  <2> QED BY <1>1, <1>4, <1>8, <2>1 DEF TypeOK, Stages, SprintAssumption
<1>10. /\ heard = [w \in Wishes |-> heard[w]]
       /\ StatusesAgree /\ LoopIsAtWork /\ ChangesAreOwed /\ NothingForgotten /\ DoneIsCommitted
       /\ QueuedIsSelected /\ WishesHaveFates
  BY <1>1 DEF StatusesAgree, LoopIsAtWork, ChangesAreOwed, NothingForgotten,
      DoneIsCommitted, QueuedIsSelected, WishesHaveFates
<1>11. OpenIsAwaited /\ CloseoutIsMet
  BY <1>1, <1>2 DEF OpenIsAwaited, Open, NoRequest, CloseoutIsMet
<1> QED BY <1>1, <1>2, <1>8, <1>9, <1>10, <1>11 DEF IInv

\* Every step keeps the invariant, but the filing of a wish that puts an old copy back.
LEMMA NextHolds ==
    ASSUME SprintAssumption, RequirementsAssumption, IInv, Next, ~PutsOldBack
    PROVE  IInv'
<1>1. CASE Loop
  BY <1>1, ResumeKeeps, QuietSteps, PickKeeps, RequestEndsKeeps, CommitKeeps, SaveTodoKeeps,
     CloseoutKeeps DEF Loop
<1>2. CASE Mishap
  <2>1. CASE CommitFails \/ CloseoutFails \/ Stop \/ StopFailed \/ Restart \/ Crash
    BY <2>1, CommitKeeps, CloseoutKeeps, CommandsKeep, QuietSteps
  <2>2. ASSUME NEW t \in Todos, NEW n \in Tries, RoleFails(t, n) \/ Cancel(t, n)
        PROVE  IInv'
    BY <2>2, ReportsKeep, CancelKeeps
  <2> QED BY <1>2, <2>1, <2>2 DEF Mishap
<1>3. ASSUME NEW t \in Todos, NEW n \in Tries, RoleReports(t, n) \/ RoleFinishes(t, n)
      PROVE  IInv'
  BY <1>3, ReportsKeep
<1>4. ASSUME NEW w \in Wishes, Hear(w) \/ Capture(w)
      PROVE  IInv'
  <2>1. CASE Hear(w)
    BY <2>1, HearKeeps
  <2>2. CASE Capture(w)
    <3>1. active
      BY <2>2 DEF PutsOldBack
    <3> QED BY <2>2, <3>1, CaptureKeeps
  <2> QED BY <1>4, <2>1, <2>2
<1> QED BY <1>1, <1>2, <1>3, <1>4 DEF Next

\* So does a step that changes nothing.
LEMMA StutterHolds ==
    ASSUME IInv, UNCHANGED vars
    PROVE  IInv'
<1>1. UNCHANGED <<disk, mem, stage, cur, review, heard, request, changes, backlog, active,
                  interrupted, taken, faults>>
  BY DEF vars
<1>2. TypeOK' /\ (heard = [w \in Wishes |-> heard[w]])' /\ (request \in AllShapes)'
  BY <1>1 DEF IInv, TypeOK
<1>3. (Tracks(disk, request) /\ (stage # "idle" => Tracks(mem, request)))'
  BY <1>1 DEF IInv
<1>4. StatusesAgree' /\ OpenIsAwaited' /\ LoopIsAtWork' /\ ChangesAreOwed'
  BY <1>1 DEF IInv, StatusesAgree, OpenIsAwaited, Open, LoopIsAtWork, ChangesAreOwed
<1>5. NothingForgotten' /\ DoneIsCommitted' /\ QueuedIsSelected' /\ WishesHaveFates'
  BY <1>1 DEF IInv, NothingForgotten, DoneIsCommitted, QueuedIsSelected, WishesHaveFates
<1>6. CloseoutIsMet'
  BY <1>1 DEF IInv, CloseoutIsMet, MetBy, WorktreeIsClean
<1> QED BY <1>2, <1>3, <1>4, <1>5, <1>6 DEF IInv

\* The inductive invariant holds in every state of a behaviour in which no old copy
\* is put back.
LEMMA InvariantHolds == Spec /\ NoneIsPutBack => []IInv
<1>1. Init => IInv
  BY InitHolds, SprintAssumption, RequirementsAssumption
<1>2. IInv /\ [Next]_vars /\ [~PutsOldBack]_vars => IInv'
  BY NextHolds, StutterHolds, SprintAssumption, RequirementsAssumption
<1> QED BY <1>1, <1>2, PTL DEF Spec, NoneIsPutBack

-----------------------------------------------------------------------------
(* What follows from it *)

\* The parts of the invariant that the runs check by name.
LEMMA TracksFollow ==
    ASSUME SprintAssumption, IInv
    PROVE  TodosAreTracked
<1>1. TypeOK /\ NothingForgotten /\ WishesAreKept
  BY DEF IInv, WishesHaveFates, WishesAreKept
<1>2. ASSUME NEW t \in Todos, NEW u \in Todos, NEW m \in Tries, NEW n \in Tries,
             Open(t, m), Open(u, n)
      PROVE  IF t = u THEN m = n ELSE interrupted \cap {t, u} # {}
  <2>1. CASE t = u
    <3> DEFINE x == disk.todo[t]
               qs == request[t]
    <3>1. Shape(x, qs) /\ qs \in [Tries -> RequestShapes]
      BY DEF IInv, Tracks, AllShapes
    <3>2. qs[m].status \in {"delegated", "uncommitted"}
          /\ qs[n].status \in {"delegated", "uncommitted"}
      BY <1>2, <2>1 DEF Open
    <3> HIDE DEF x, qs
    <3>3. x.request = m /\ x.request = n
      BY <3>1, <3>2, OpenIsLast
    <3> QED BY <2>1, <3>3
  <2>2. CASE t # u
    BY <1>2, <2>2 DEF IInv, OpenIsAwaited
  <2> QED BY <2>1, <2>2
<1>3. OneAtATime
  BY <1>2 DEF OneAtATime
<1> QED BY <1>1, <1>3 DEF TodosAreTracked

\* A completed sprint met its requirements and left nothing behind.
LEMMA CompletedFollows ==
    ASSUME IInv
    PROVE  CompletedIsClean
<1>1. ASSUME disk.status = "completed"
      PROVE  WorktreeIsClean /\ RequirementsAreMet
  <2>1. MetBy(disk) /\ WorktreeIsClean
    BY <1>1 DEF IInv, CloseoutIsMet
  <2> QED BY <2>1 DEF MetBy, RequirementsAreMet
<1> QED BY <1>1 DEF CompletedIsClean

\* A todo with a committed request tells so once it is recovered, and is not picked.
LEMMA CommittedIsOver ==
    ASSUME SprintAssumption, RequirementsAssumption, IInv, Next,
           NEW t \in Todos, Starts(t), NEW n \in Tries
    PROVE  request[t][n].status # "committed"
<1>1. stage = "review" /\ stage' \in {"running", "committing"} /\ cur' = t
  BY DEF Starts
<1>2. Pick
  <2>1. ~(Mishap \/ \E u \in Todos, k \in Tries : RoleReports(u, k) \/ RoleFinishes(u, k))
    BY <1>1 DEF Mishap, CommitFails, CloseoutFails, Stop, StopFailed, Restart, Crash, RoleFails,
        Cancel, RoleReports, RoleFinishes
  <2>2. ~\E w \in Wishes : Hear(w) \/ Capture(w)
    BY <1>1 DEF Hear, Capture
  <2>3. ~(Resume \/ ResumeCompleted \/ RequestEnds \/ CommitMade \/ CommitReturns \/ SaveTodo
          \/ CloseoutCommits \/ CloseoutVerified \/ Reported)
    BY <1>1 DEF Resume, ResumeCompleted, RequestEnds, CommitMade, CommitReturns, SaveTodo,
        CloseoutCommits, CloseoutVerified, Reported
  <2> QED BY <2>1, <2>2, <2>3 DEF Next, Loop
<1>3. PICK s : Looks(s)
  BY <1>2, PickLooks
<1>4. ~Finalize(s)
  BY <1>1 DEF Finalize, EndSprint, BackToRecovery
<1>5. PICK u \in NextTodos(s) :
        IF Recovering(s, u) THEN EnforceCommit(s, u, s.todo[u].request) ELSE RunTodo(s, u)
  BY <1>3, <1>4 DEF Looks
<1>6. u = t
  <2>1. CASE Recovering(s, u)
    BY <1>1, <1>5, <2>1 DEF EnforceCommit, Finish
  <2>2. CASE ~Recovering(s, u)
    BY <1>1, <1>5, <2>2 DEF RunTodo
  <2> QED BY <2>1, <2>2
<1> DEFINE x == s.todo[t]
           qs == request[t]
<1>7. x \in TodoRecords /\ qs \in [Tries -> RequestShapes] /\ Fresh(x, qs)
  BY <1>3 DEF Looks, Sprints, IInv, AllShapes
<1>8. x.status \in Executable
  BY <1>5, <1>6 DEF NextTodos, Ready
<1> HIDE DEF x, qs
<1>9. qs[n].status = "committed" => x.status = "committed"
  BY <1>7, FreshSays
<1> QED BY <1>8, <1>9 DEF Executable, qs

\* The file, the loop's copy, the requests and the ledger agree on every todo and
\* wish: no todo has two open requests, two todos' requests are open together only
\* where a crash left one behind, uncommitted work is seen by every pass of the
\* loop, and a wish that was filed keeps its fate through every later save.
THEOREM TodosStayTracked == Spec /\ NoneIsPutBack => []TodosAreTracked
<1>1. IInv => TodosAreTracked
  BY TracksFollow, SprintAssumption
<1> QED BY <1>1, InvariantHolds, PTL

\* Whenever the loop looks for work, what counts as done has been committed.
THEOREM DoneStaysCommitted == Spec /\ NoneIsPutBack => []DoneIsCommitted
<1>1. IInv => DoneIsCommitted
  BY DEF IInv
<1> QED BY <1>1, InvariantHolds, PTL

\* A sprint that completed has every requirement implemented by a todo that is
\* done, and no changes left in its worktree but those of a crashed request.
THEOREM CompletedStaysClean == Spec /\ NoneIsPutBack => []CompletedIsClean
<1>1. IInv => CompletedIsClean
  BY CompletedFollows
<1> QED BY <1>1, InvariantHolds, PTL

\* The loop never starts a todo again one of whose requests was committed.
THEOREM CommittedWorkStays == Spec /\ NoneIsPutBack => CommittedOnce
<1> DEFINE A == \A t \in Todos : Starts(t) => \A n \in Tries : request[t][n].status # "committed"
<1>1. IInv /\ Next => A
  BY CommittedIsOver, SprintAssumption, RequirementsAssumption
<1>2. IInv /\ [Next]_vars => [A]_vars
  BY <1>1
<1>3. Spec => [][Next]_vars
  BY PTL DEF Spec
<1> QED BY <1>2, <1>3, InvariantHolds, PTL DEF CommittedOnce

\* A todo gets a second request when its first one ended blocked and a restart retired it,
\* and never a third: a restart of a todo whose second one is dead as well takes the
\* first up again (load_sprint_state's recovery gives the retired todo a request back).
\* So two tries are all that a run of the model has to offer.
AtMostTwo == \A t \in Todos, n \in Tries : n > 2 => request[t][n].status = "none"

THEOREM RequestsAreTwo == Spec /\ NoneIsPutBack => []AtMostTwo
<1>1. ASSUME IInv, NEW t \in Todos, NEW n \in Tries, n > 2
      PROVE  request[t][n].status = "none"
  <2>1. Shape(disk.todo[t], request[t])
    BY <1>1 DEF IInv, Tracks
  <2>2. n > 0 /\ n > 1
    BY <1>1 DEF Tries
  <2>3. ~Made(request[t][n])
    BY <1>1, <2>1, <2>2 DEF Shape, Unmade, First, Retired, Second, Back, NoneAfter
  <2> QED BY <2>3 DEF Made
<1>2. IInv => AtMostTwo
  BY <1>1 DEF AtMostTwo
<1> QED BY <1>2, InvariantHolds, PTL

=============================================================================
