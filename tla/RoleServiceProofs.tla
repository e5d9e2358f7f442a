------------------------- MODULE RoleServiceProofs -------------------------
(***************************************************************************)
(* Theorems about RoleService: whatever commands race and whatever befalls *)
(* the processes, one serves, an accepted stop ends those it found, and    *)
(* commands given one after the other leave files that know the service    *)
(* and start one that gets through.  And about DiscordMessages: what is    *)
(* put together is what was sent, and a send that has the lock moves on.   *)
(***************************************************************************)
EXTENDS RoleService, DiscordMessages, FiniteSetTheorems, SequenceTheorems, TLAPS

Starting == {p \in Procs : proc[p] \in {"launched", "clear", "locked"}}
CommandSteps == {"idle", "start", "probing", "launching", "watching", "stopping", "forcing", "done"}
Stopping(c) == cmd[c].step \in {"stopping", "forcing"}

\* What TypeOK says of the commands.
CommandsTyped ==
    /\ cmd \in [Commands -> [step : CommandSteps, targets : SUBSET Procs]]
    /\ \A c \in Commands : cmd[c].step \in {"stopping", "forcing", "watching"} => cmd[c].targets # {}

\* Whoever got as far as the lock has it, until it lets go of it.
LockIsHeld ==
    /\ \A p \in Procs : proc[p] \in {"locked", "serving", "leaving"} => lock = p
    /\ \A c \in Commands : cmd[c].step = "probing" => lock = c

\* A stop has every process it found among its targets until it is over, and none
\* of them comes back.
StopsFollow ==
    \A c \in Commands :
        /\ \A p \in lived[c] : proc[p] # "none"
        /\ lived[c] \cap Living \subseteq IF Stopping(c) THEN cmd[c].targets ELSE {}

\* Without an overlap one command is at work, a process that starts is the one
\* it watches, and nobody serves whom the files do not name.
Orderly ==
    ~overlap =>
        /\ \A c, d \in AtWork : c = d
        /\ \A c \in AtWork, p \in Starting :
               cmd[c].step = "watching" /\ p \in cmd[c].targets
        /\ \A c \in AtWork, p \in Procs : proc[p] = "serving" =>
               /\ cmd[c].step \notin {"probing", "launching"}
               /\ cmd[c].step = "watching" \/ Stopping(c) => p \in cmd[c].targets
        /\ \A p \in Procs : proc[p] = "serving" =>
               pidFile = p /\ state = [pid |-> p, status |-> "running"]

WatchesOne ==
    \A c \in Commands : cmd[c].step = "watching" =>
        \A p, q \in cmd[c].targets : p = q

IInv == TypeOK /\ LockIsHeld /\ StopsFollow /\ Orderly /\ WatchesOne

\* What a start does once it has looked (_role_service_start_conflict).
LEMMA LookCases ==
    ASSUME TypeOK, NEW c \in Commands, Look(c)
    PROVE  /\ cmd[c].step = "start"
           /\ cmd' \in [Commands -> [step : CommandSteps, targets : SUBSET Procs]]
           /\ \A d \in Commands \ {c} : cmd'[d] = cmd[d]
           /\ cmd'[c].targets = cmd[c].targets
           /\ \/ cmd'[c].step = "done" /\ lock' = lock
              \/ cmd'[c].step = "probing" /\ lock = None /\ lock' = c
           /\ \/ state' = state
              \/ /\ pidFile \notin Running \cup {None}
                 /\ state' = [pid |-> pidFile, status |-> "stopped"]
           /\ UNCHANGED <<proc, pidFile, signalled, hidden, lived, overlap, faults>>
<1>1. CASE Discovered # {} \/ pidFile \in Running \/ lock # None
  BY <1>1 DEF Look, To, ghosts, TypeOK, CommandSteps
<1>2. CASE ~(Discovered # {} \/ pidFile \in Running \/ lock # None)
  BY <1>2 DEF Look, To, ghosts, TypeOK, CommandSteps
<1>3. QED BY <1>1, <1>2

\* What a stop does once it has looked (stop_background_role_service).
LEMMA LookToStopCases ==
    ASSUME TypeOK, NEW c \in Commands, LookToStop(c)
    PROVE  /\ cmd[c].step = "idle"
           /\ cmd' \in [Commands -> [step : CommandSteps, targets : SUBSET Procs]]
           /\ \A d \in Commands \ {c} : cmd'[d] = cmd[d]
           /\ \/ /\ Targets = {} /\ pidFile' = None /\ UNCHANGED signalled
                 /\ cmd'[c].step \in {"start", "done"}
              \/ /\ Targets # {} /\ UNCHANGED pidFile
                 /\ signalled' = signalled \cup Targets
                 /\ cmd'[c].step = "stopping" /\ cmd'[c].targets = Targets
<1>1. Targets \subseteq Procs
  BY DEF Targets, Discovered, Living, Running
<1>2. cmd[c].step = "idle" /\ cmd \in [Commands -> [step : CommandSteps, targets : SUBSET Procs]]
  BY DEF LookToStop, TypeOK, CommandSteps
<1>3. CASE Targets = {}
  <2>1. pidFile' = None /\ Stopped(c) /\ UNCHANGED signalled
    BY <1>3, Zenon DEF LookToStop
  <2>2. PICK s \in {"start", "done"} : cmd' = [cmd EXCEPT ![c].step = s]
    BY <2>1 DEF Stopped, To
  <2>3. /\ cmd' \in [Commands -> [step : CommandSteps, targets : SUBSET Procs]]
        /\ \A d \in Commands \ {c} : cmd'[d] = cmd[d]
        /\ cmd'[c].step = s
    BY <1>2, <2>2 DEF CommandSteps
  <2>4. QED BY <1>2, <1>3, <2>1, <2>3
<1>4. CASE Targets # {}
  <2>1. /\ cmd' = [cmd EXCEPT ![c] = [step |-> "stopping", targets |-> Targets]]
        /\ signalled' = signalled \cup Targets
        /\ UNCHANGED pidFile
    BY <1>4, Zenon DEF LookToStop
  <2>2. /\ cmd' \in [Commands -> [step : CommandSteps, targets : SUBSET Procs]]
        /\ \A d \in Commands \ {c} : cmd'[d] = cmd[d]
        /\ cmd'[c].step = "stopping" /\ cmd'[c].targets = Targets
    BY <1>1, <1>2, <2>1 DEF CommandSteps
  <2>3. QED BY <1>2, <1>4, <2>1, <2>2
<1>5. QED BY <1>3, <1>4

\* Every step keeps the types.
LEMMA TypesKept ==
    ASSUME TypeOK, [Next]_vars
    PROVE  TypeOK'
<1> USE ServiceAssumption DEF Procs
<1>1. ASSUME NEW c \in Commands, Begin(c) PROVE TypeOK'
  BY <1>1 DEF Begin, To, Overlap, files, TypeOK, Service
<1>2. ASSUME NEW c \in Commands, Look(c) PROVE TypeOK'
  <2>1. CommandsTyped'
    BY LookCases, <1>2 DEF CommandsTyped, TypeOK, CommandSteps
  <2>2. lock' \in Procs \cup Commands \cup {None}
    BY LookCases, <1>2 DEF TypeOK
  <2>3. state' \in [pid : Procs \cup {None}, status : {"none", "running", "stopped", "failed"}]
    BY LookCases, <1>2 DEF TypeOK
  <2>4. UNCHANGED <<proc, pidFile, signalled, hidden, lived, overlap, faults>>
    BY LookCases, <1>2
  <2>5. QED BY <2>1, <2>2, <2>3, <2>4 DEF CommandsTyped, TypeOK, Service, CommandSteps
<1>3. ASSUME NEW c \in Commands, Probed(c) PROVE TypeOK'
  BY <1>3 DEF Probed, To, files, ghosts, TypeOK, Service
<1>4. ASSUME NEW c \in Commands, Launch(c) PROVE TypeOK'
  <2>1. PICK q \in Procs : /\ proc' = [proc EXCEPT ![q] = "launched"]
                          /\ cmd' = [cmd EXCEPT ![c] = [step |-> "watching", targets |-> {q}]]
    BY <1>4 DEF Launch
  <2>2. CommandsTyped'
    BY <2>1 DEF CommandsTyped, TypeOK, CommandSteps
  <2>3. proc' \in [Procs -> Service \cup {"none", "dead", "other"}]
    BY <2>1 DEF TypeOK, Service
  <2>4. UNCHANGED <<lock, pidFile, state, hidden, signalled, lived, overlap, faults>>
    BY <1>4 DEF Launch, files, ghosts
  <2>5. QED BY <2>2, <2>3, <2>4 DEF CommandsTyped, TypeOK, CommandSteps
<1>5. ASSUME NEW c \in Commands, Run(c) PROVE TypeOK'
  <2>1. PICK q \in Procs : /\ proc' = [proc EXCEPT ![q] = "launched"]
                          /\ hidden' = hidden \cup {q}
    BY <1>5 DEF Run
  <2>2. overlap' \in BOOLEAN
    BY <1>5 DEF Run, Overlap, TypeOK
  <2>3. CommandsTyped'
    BY <1>5 DEF Run, To, CommandsTyped, TypeOK, CommandSteps
  <2>4. proc' \in [Procs -> Service \cup {"none", "dead", "other"}] /\ hidden' \subseteq Procs
    BY <2>1 DEF TypeOK, Service
  <2>5. UNCHANGED <<lock, pidFile, state, signalled, lived, faults>>
    BY <1>5 DEF Run, files
  <2>6. QED BY <2>2, <2>3, <2>4, <2>5 DEF CommandsTyped, TypeOK, CommandSteps
<1>6. ASSUME NEW c \in Commands, Watch(c) PROVE TypeOK'
  BY <1>6 DEF Watch, To, ghosts, TypeOK, Service, Running
<1>7. ASSUME NEW c \in Commands, LookToStop(c) PROVE TypeOK'
  <2>0. Targets \subseteq Procs /\ Discovered \subseteq Procs
    BY DEF Targets, Discovered, Living, Running
  <2>1. overlap' \in BOOLEAN
    BY <1>7 DEF LookToStop, Overlap, TypeOK
  <2>2. CommandsTyped'
    <3>1. cmd' \in [Commands -> [step : CommandSteps, targets : SUBSET Procs]]
      BY LookToStopCases, <1>7
    <3>2. \A d \in Commands \ {c} : cmd'[d] = cmd[d]
      BY LookToStopCases, <1>7
    <3>3. cmd'[c].step \in {"start", "done"} \/ cmd'[c].targets # {}
      BY LookToStopCases, <1>7
    <3>4. \A d \in Commands : cmd[d].step \in {"stopping", "forcing", "watching"}
                                  => cmd[d].targets # {}
      BY DEF TypeOK
    <3>5. QED BY <3>1, <3>2, <3>3, <3>4 DEF CommandsTyped
  <2>3. pidFile' \in Procs \cup {None} /\ signalled' \subseteq Procs
    BY LookToStopCases, <1>7, <2>0 DEF TypeOK
  <2>4. lived' \in [Commands -> SUBSET Procs]
    BY <1>7, <2>0 DEF LookToStop, TypeOK
  <2>5. UNCHANGED <<proc, lock, state, hidden, faults>>
    BY <1>7 DEF LookToStop
  <2>6. QED BY <2>1, <2>2, <2>3, <2>4, <2>5 DEF CommandsTyped, TypeOK, CommandSteps
<1>8. ASSUME NEW c \in Commands, Kill(c) PROVE TypeOK'
  <2>1. cmd[c].step = "stopping" /\ cmd' = [cmd EXCEPT ![c].step = "forcing"]
    BY <1>8 DEF Kill, To
  <2>2. CommandsTyped'
    BY <2>1 DEF CommandsTyped, TypeOK, CommandSteps
  <2>3. signalled' \subseteq Procs
    BY <1>8 DEF Kill, Running, TypeOK
  <2>4. UNCHANGED <<proc, lock, pidFile, state, hidden, lived, overlap, faults>>
    BY <1>8 DEF Kill, files, ghosts
  <2>5. QED BY <2>2, <2>3, <2>4 DEF CommandsTyped, TypeOK, CommandSteps
<1>9. ASSUME NEW c \in Commands, GiveUp(c) PROVE TypeOK'
  BY <1>9 DEF GiveUp, To, Stopped, files, TypeOK, Service, Running
<1>10. ASSUME NEW c \in Commands, Recorded(c) PROVE TypeOK'
  BY <1>10 DEF Recorded, To, Stopped, ghosts, TypeOK, Service, Running
<1>11. ASSUME NEW p \in Procs, Check(p) PROVE TypeOK'
  BY <1>11 DEF Check, At, files, ghosts, TypeOK, Service, Discovered, Living
<1>12. ASSUME NEW p \in Procs, Acquire(p) PROVE TypeOK'
  BY <1>12 DEF Acquire, At, files, ghosts, TypeOK, Service
<1>13. ASSUME NEW p \in Procs, Serve(p) PROVE TypeOK'
  BY <1>13 DEF Serve, At, ghosts, TypeOK, Service
<1>14. ASSUME NEW p \in Procs, Unlock(p) PROVE TypeOK'
  BY <1>14 DEF Unlock, At, files, ghosts, TypeOK, Service
<1>15. ASSUME NEW p \in Procs, Leave(p) PROVE TypeOK'
  BY <1>15 DEF Leave, At, ghosts, Fault, TypeOK, Service
<1>16. ASSUME NEW p \in Procs, Die(p) PROVE TypeOK'
  BY <1>16 DEF Die, files, ghosts, Fault, TypeOK, Service, Running
<1>17. ASSUME NEW p \in Procs, Reuse(p) PROVE TypeOK'
  BY <1>17 DEF Reuse, At, files, ghosts, Fault, TypeOK, Service
<1>18. CASE UNCHANGED vars
  BY <1>18 DEF vars, TypeOK, Service
<1>19. QED BY <1>1, <1>2, <1>3, <1>4, <1>5, <1>6, <1>7, <1>8, <1>9, <1>10, <1>11, <1>12,
       <1>13, <1>14, <1>15, <1>16, <1>17, <1>18 DEF Next, Invoked, AtItsWork, Own

\* No step gives the lock to another while its holder has it.
LEMMA LockKept ==
    ASSUME TypeOK, LockIsHeld, [Next]_vars
    PROVE  LockIsHeld'
<1> USE ServiceAssumption DEF Procs
<1>1. ASSUME NEW c \in Commands, Begin(c) PROVE LockIsHeld'
  BY <1>1 DEF Begin, To, files, TypeOK, Service, LockIsHeld
<1>2. ASSUME NEW c \in Commands, Look(c) PROVE LockIsHeld'
  BY <1>2 DEF Look, To, ghosts, TypeOK, Service, LockIsHeld
<1>3. ASSUME NEW c \in Commands, Probed(c) PROVE LockIsHeld'
  BY <1>3 DEF Probed, To, files, ghosts, TypeOK, Service, LockIsHeld
<1>4. ASSUME NEW c \in Commands, Launch(c) PROVE LockIsHeld'
  BY <1>4 DEF Launch, files, ghosts, IsNext, TypeOK, Service, LockIsHeld
<1>5. ASSUME NEW c \in Commands, Run(c) PROVE LockIsHeld'
  BY <1>5 DEF Run, To, files, IsNext, TypeOK, Service, LockIsHeld
<1>6. ASSUME NEW c \in Commands, Watch(c) PROVE LockIsHeld'
  BY <1>6 DEF Watch, To, ghosts, TypeOK, Service, LockIsHeld
<1>7. ASSUME NEW c \in Commands, LookToStop(c) PROVE LockIsHeld'
  BY <1>7 DEF LookToStop, To, Stopped, TypeOK, Service, LockIsHeld
<1>8. ASSUME NEW c \in Commands, Kill(c) PROVE LockIsHeld'
  BY <1>8 DEF Kill, To, files, ghosts, TypeOK, Service, LockIsHeld
<1>9. ASSUME NEW c \in Commands, GiveUp(c) PROVE LockIsHeld'
  BY <1>9 DEF GiveUp, To, Stopped, files, TypeOK, Service, LockIsHeld
<1>10. ASSUME NEW c \in Commands, Recorded(c) PROVE LockIsHeld'
  BY <1>10 DEF Recorded, To, Stopped, ghosts, TypeOK, Service, LockIsHeld
<1>11. ASSUME NEW p \in Procs, Check(p) PROVE LockIsHeld'
  BY <1>11 DEF Check, At, files, ghosts, TypeOK, Service, LockIsHeld
<1>12. ASSUME NEW p \in Procs, Acquire(p) PROVE LockIsHeld'
  BY <1>12 DEF Acquire, At, files, ghosts, TypeOK, Service, LockIsHeld
<1>13. ASSUME NEW p \in Procs, Serve(p) PROVE LockIsHeld'
  BY <1>13 DEF Serve, At, ghosts, TypeOK, Service, LockIsHeld
<1>14. ASSUME NEW p \in Procs, Unlock(p) PROVE LockIsHeld'
  BY <1>14 DEF Unlock, At, files, ghosts, TypeOK, Service, LockIsHeld
<1>15. ASSUME NEW p \in Procs, Leave(p) PROVE LockIsHeld'
  BY <1>15 DEF Leave, At, ghosts, Fault, TypeOK, Service, LockIsHeld
<1>16. ASSUME NEW p \in Procs, Die(p) PROVE LockIsHeld'
  <2>1. /\ proc' = [proc EXCEPT ![p] = "dead"] /\ UNCHANGED cmd
        /\ lock # p => lock' = lock
    BY <1>16 DEF Die, ghosts
  <2>2. ASSUME NEW q \in Procs, proc'[q] \in {"locked", "serving", "leaving"}
        PROVE  lock' = q
    BY <2>1, <2>2 DEF LockIsHeld, TypeOK
  <2>3. ASSUME NEW c \in Commands, cmd'[c].step = "probing"
        PROVE  lock' = c
    <3>1. lock = c BY <2>1, <2>3 DEF LockIsHeld
    <3>2. c # p OBVIOUS
    <3>3. QED BY <2>1, <3>1, <3>2
  <2>4. QED BY <2>2, <2>3 DEF LockIsHeld
<1>17. ASSUME NEW p \in Procs, Reuse(p) PROVE LockIsHeld'
  BY <1>17 DEF Reuse, At, files, ghosts, Fault, TypeOK, Service, LockIsHeld
<1>18. CASE UNCHANGED vars
  BY <1>18 DEF vars, TypeOK, Service, LockIsHeld
<1>19. QED BY <1>1, <1>2, <1>3, <1>4, <1>5, <1>6, <1>7, <1>8, <1>9, <1>10, <1>11, <1>12,
       <1>13, <1>14, <1>15, <1>16, <1>17, <1>18 DEF Next, Invoked, AtItsWork, Own

\* No step brings back what a stop has found, or lets it forget one.
LEMMA StopsKept ==
    ASSUME TypeOK, StopsFollow, [Next]_vars
    PROVE  StopsFollow'
<1> USE ServiceAssumption DEF Procs
<1>1. ASSUME NEW c \in Commands, Begin(c) PROVE StopsFollow'
  BY <1>1 DEF Begin, To, files, TypeOK, Service, StopsFollow, Stopping, Living
<1>2. ASSUME NEW c \in Commands, Look(c) PROVE StopsFollow'
  BY LookCases, <1>2 DEF CommandSteps, TypeOK, Service, StopsFollow, Stopping, Living
<1>3. ASSUME NEW c \in Commands, Probed(c) PROVE StopsFollow'
  BY <1>3 DEF Probed, To, files, ghosts, TypeOK, Service, StopsFollow, Stopping, Living
<1>4. ASSUME NEW c \in Commands, Launch(c) PROVE StopsFollow'
  BY <1>4 DEF Launch, files, ghosts, IsNext, TypeOK, Service, StopsFollow, Stopping, Living
<1>5. ASSUME NEW c \in Commands, Run(c) PROVE StopsFollow'
  BY <1>5 DEF Run, To, files, IsNext, TypeOK, Service, StopsFollow, Stopping, Living
<1>6. ASSUME NEW c \in Commands, Watch(c) PROVE StopsFollow'
  BY <1>6 DEF Watch, To, ghosts, TypeOK, Service, StopsFollow, Stopping, Living, Running
<1>7. ASSUME NEW c \in Commands, LookToStop(c) PROVE StopsFollow'
    BY <1>7 DEF LookToStop, To, Stopped, TypeOK, Service, StopsFollow, Stopping, Living,
      Discovered, Running, Targets
<1>8. ASSUME NEW c \in Commands, Kill(c) PROVE StopsFollow'
  BY <1>8 DEF Kill, To, files, ghosts, TypeOK, Service, StopsFollow, Stopping, Living, Running
<1>9. ASSUME NEW c \in Commands, GiveUp(c) PROVE StopsFollow'
    BY <1>9 DEF GiveUp, To, Stopped, files, TypeOK, Service, StopsFollow, Stopping, Living,
      Running
<1>10. ASSUME NEW c \in Commands, Recorded(c) PROVE StopsFollow'
    BY <1>10 DEF Recorded, To, Stopped, ghosts, TypeOK, Service, StopsFollow, Stopping,
      Living, Running
<1>11. ASSUME NEW p \in Procs, Check(p) PROVE StopsFollow'
    BY <1>11 DEF Check, At, files, ghosts, TypeOK, Service, StopsFollow, Stopping, Living,
      Discovered
<1>12. ASSUME NEW p \in Procs, Acquire(p) PROVE StopsFollow'
  BY <1>12 DEF Acquire, At, files, ghosts, TypeOK, Service, StopsFollow, Stopping, Living
<1>13. ASSUME NEW p \in Procs, Serve(p) PROVE StopsFollow'
  BY <1>13 DEF Serve, At, ghosts, TypeOK, Service, StopsFollow, Stopping, Living
<1>14. ASSUME NEW p \in Procs, Unlock(p) PROVE StopsFollow'
  BY <1>14 DEF Unlock, At, files, ghosts, TypeOK, Service, StopsFollow, Stopping, Living
<1>15. ASSUME NEW p \in Procs, Leave(p) PROVE StopsFollow'
  BY <1>15 DEF Leave, At, ghosts, Fault, TypeOK, Service, StopsFollow, Stopping, Living
<1>16. ASSUME NEW p \in Procs, Die(p) PROVE StopsFollow'
    BY <1>16 DEF Die, files, ghosts, Fault, TypeOK, Service, StopsFollow, Stopping, Living,
      Running
<1>17. ASSUME NEW p \in Procs, Reuse(p) PROVE StopsFollow'
  BY <1>17 DEF Reuse, At, files, ghosts, Fault, TypeOK, Service, StopsFollow, Stopping, Living
<1>18. CASE UNCHANGED vars
  BY <1>18 DEF vars, TypeOK, Service, StopsFollow, Stopping, Living
<1>19. QED BY <1>1, <1>2, <1>3, <1>4, <1>5, <1>6, <1>7, <1>8, <1>9, <1>10, <1>11, <1>12,
       <1>13, <1>14, <1>15, <1>16, <1>17, <1>18 DEF Next, Invoked, AtItsWork, Own

\* A start watches the one process it launched.
LEMMA WatchKept ==
    ASSUME TypeOK, WatchesOne, [Next]_vars
    PROVE  WatchesOne'
<1> USE ServiceAssumption DEF Procs
<1>1. ASSUME NEW c \in Commands, Begin(c) PROVE WatchesOne'
  BY <1>1 DEF Begin, To, files, TypeOK, WatchesOne
<1>2. ASSUME NEW c \in Commands, Look(c) PROVE WatchesOne'
  BY LookCases, <1>2 DEF CommandSteps, TypeOK, Service, WatchesOne
<1>3. ASSUME NEW c \in Commands, Probed(c) PROVE WatchesOne'
  BY <1>3 DEF Probed, To, files, ghosts, TypeOK, WatchesOne
<1>4. ASSUME NEW c \in Commands, Launch(c) PROVE WatchesOne'
  BY <1>4 DEF Launch, files, ghosts, IsNext, TypeOK, WatchesOne
<1>5. ASSUME NEW c \in Commands, Run(c) PROVE WatchesOne'
  BY <1>5 DEF Run, To, files, IsNext, TypeOK, WatchesOne
<1>6. ASSUME NEW c \in Commands, Watch(c) PROVE WatchesOne'
  BY <1>6 DEF Watch, To, ghosts, TypeOK, WatchesOne
<1>7. ASSUME NEW c \in Commands, LookToStop(c) PROVE WatchesOne'
  BY <1>7 DEF LookToStop, To, Stopped, TypeOK, WatchesOne
<1>8. ASSUME NEW c \in Commands, Kill(c) PROVE WatchesOne'
  BY <1>8 DEF Kill, To, files, ghosts, TypeOK, WatchesOne
<1>9. ASSUME NEW c \in Commands, GiveUp(c) PROVE WatchesOne'
  BY <1>9 DEF GiveUp, To, Stopped, files, TypeOK, WatchesOne
<1>10. ASSUME NEW c \in Commands, Recorded(c) PROVE WatchesOne'
  BY <1>10 DEF Recorded, To, Stopped, ghosts, TypeOK, WatchesOne
<1>11. ASSUME NEW p \in Procs, Check(p) PROVE WatchesOne'
  BY <1>11 DEF Check, At, files, ghosts, TypeOK, WatchesOne
<1>12. ASSUME NEW p \in Procs, Acquire(p) PROVE WatchesOne'
  BY <1>12 DEF Acquire, At, files, ghosts, TypeOK, WatchesOne
<1>13. ASSUME NEW p \in Procs, Serve(p) PROVE WatchesOne'
  BY <1>13 DEF Serve, At, ghosts, TypeOK, WatchesOne
<1>14. ASSUME NEW p \in Procs, Unlock(p) PROVE WatchesOne'
  BY <1>14 DEF Unlock, At, files, ghosts, TypeOK, WatchesOne
<1>15. ASSUME NEW p \in Procs, Leave(p) PROVE WatchesOne'
  BY <1>15 DEF Leave, At, ghosts, Fault, TypeOK, WatchesOne
<1>16. ASSUME NEW p \in Procs, Die(p) PROVE WatchesOne'
  BY <1>16 DEF Die, files, ghosts, Fault, TypeOK, WatchesOne
<1>17. ASSUME NEW p \in Procs, Reuse(p) PROVE WatchesOne'
  BY <1>17 DEF Reuse, At, files, ghosts, Fault, TypeOK, WatchesOne
<1>18. CASE UNCHANGED vars
  BY <1>18 DEF vars, TypeOK, WatchesOne
<1>19. QED BY <1>1, <1>2, <1>3, <1>4, <1>5, <1>6, <1>7, <1>8, <1>9, <1>10, <1>11, <1>12,
       <1>13, <1>14, <1>15, <1>16, <1>17, <1>18 DEF Next, Invoked, AtItsWork, Own

\* Every step of commands that do not overlap keeps files and commands in order.
LEMMA OrderKept ==
    ASSUME IInv, [Next]_vars
    PROVE  Orderly'
<1> USE ServiceAssumption DEF Procs
<1>0. TypeOK BY DEF IInv
<1>1. ASSUME NEW c \in Commands, Begin(c) PROVE Orderly'
    BY <1>1 DEF Begin, To, Overlap, AtWork, Starting, Stopping, files, IInv, TypeOK,
      LockIsHeld, Orderly, WatchesOne, Service, Discovered, Living, Running
<1>2. ASSUME NEW c \in Commands, Look(c) PROVE Orderly'
  <2>1. UNCHANGED <<proc, pidFile, overlap>>
    BY LookCases, <1>0, <1>2
  <2> SUFFICES ASSUME ~overlap PROVE Orderly'
    BY <2>1 DEF Orderly
  <2>2. cmd[c].step = "start" /\ c \in AtWork
    BY <1>0, <1>2, LookCases DEF AtWork
  <2>3. AtWork = {c} /\ Starting = {}
    BY <2>2 DEF IInv, Orderly
  <2>4. AtWork' \subseteq {c} /\ Starting' = {}
    BY <1>0, <1>2, <2>1, <2>3, LookCases DEF AtWork, Starting
  <2>5. ASSUME NEW p \in Procs, proc[p] = "serving"
        PROVE  lock = p /\ pidFile = p /\ state = [pid |-> p, status |-> "running"]
    BY <2>5 DEF IInv, Orderly, LockIsHeld
  <2>6. ASSUME NEW p \in Procs, proc[p] = "serving"
        PROVE  AtWork' = {}
    <3>1. lock # None BY <2>5, <2>6
    <3>2. cmd'[c].step = "done" BY <1>0, <1>2, <3>1, LookCases
    <3>3. QED BY <2>4, <3>2 DEF AtWork
  <2>7. ASSUME NEW p \in Procs, proc[p] = "serving"
        PROVE  state' = state
    <3>1. pidFile \in Running BY <2>5, <2>7 DEF Running, Service
    <3>2. QED BY <1>0, <1>2, <3>1, LookCases
  <2>8. QED BY <2>1, <2>4, <2>5, <2>6, <2>7 DEF Orderly
<1>3. ASSUME NEW c \in Commands, Probed(c) PROVE Orderly'
    BY <1>3 DEF Probed, To, AtWork, Starting, Stopping, files, ghosts, IInv, TypeOK,
      LockIsHeld, Orderly, WatchesOne, Service, Discovered, Living, Running
<1>4. ASSUME NEW c \in Commands, Launch(c) PROVE Orderly'
    BY <1>4 DEF Launch, AtWork, Starting, Stopping, files, ghosts, IsNext, IInv, TypeOK,
      LockIsHeld, Orderly, WatchesOne, Service, Discovered, Living, Running
<1>5. ASSUME NEW c \in Commands, Run(c) PROVE Orderly'
    BY <1>5 DEF Run, To, Overlap, AtWork, Starting, Stopping, files, IsNext, IInv, TypeOK,
      LockIsHeld, Orderly, WatchesOne, Service, Discovered, Living, Running
<1>6. ASSUME NEW c \in Commands, Watch(c) PROVE Orderly'
    BY <1>6 DEF Watch, To, AtWork, Starting, Stopping, ghosts, IInv, TypeOK, LockIsHeld,
      Orderly, WatchesOne, Service, Discovered, Living, Running
<1>7. ASSUME NEW c \in Commands, LookToStop(c) PROVE Orderly'
  <2>0. Targets \subseteq Procs BY DEF Targets, Discovered, Living, Running
  <2>1. CASE Targets = {}
        BY <1>7, <2>0, <2>1 DEF LookToStop, Stopped, To, Overlap, TypeOK, Service, IInv,
        LockIsHeld, Orderly, AtWork, Starting, Stopping, Targets, Discovered, Living, Running
  <2>2. CASE Targets # {}
        BY <1>7, <2>0, <2>2 DEF LookToStop, Overlap, TypeOK, Service, IInv, LockIsHeld,
        Orderly, AtWork, Starting, Stopping, Targets, Discovered, Living, Running
  <2>3. QED BY <2>1, <2>2
<1>8. ASSUME NEW c \in Commands, Kill(c) PROVE Orderly'
    BY <1>8 DEF Kill, To, AtWork, Starting, Stopping, files, ghosts, IInv, TypeOK, LockIsHeld,
      Orderly, WatchesOne, Service, Discovered, Living, Running
<1>9. ASSUME NEW c \in Commands, GiveUp(c) PROVE Orderly'
    BY <1>9 DEF GiveUp, To, Stopped, AtWork, Starting, Stopping, files, IInv, TypeOK,
      LockIsHeld, Orderly, WatchesOne, Service, Discovered, Living, Running
<1>10. ASSUME NEW c \in Commands, Recorded(c) PROVE Orderly'
    BY <1>10 DEF Recorded, To, Stopped, AtWork, Starting, Stopping, ghosts, IInv, TypeOK,
      LockIsHeld, Orderly, WatchesOne, Service, Discovered, Living, Running
<1>11. ASSUME NEW p \in Procs, Check(p) PROVE Orderly'
    BY <1>11 DEF Check, At, AtWork, Starting, Stopping, files, ghosts, IInv, TypeOK,
      LockIsHeld, Orderly, WatchesOne, Service, Discovered, Living, Running
<1>12. ASSUME NEW p \in Procs, Acquire(p) PROVE Orderly'
    BY <1>12 DEF Acquire, At, AtWork, Starting, Stopping, files, ghosts, IInv, TypeOK,
      LockIsHeld, Orderly, WatchesOne, Service, Discovered, Living, Running
<1>13. ASSUME NEW p \in Procs, Serve(p) PROVE Orderly'
    BY <1>13 DEF Serve, At, AtWork, Starting, Stopping, ghosts, IInv, TypeOK, LockIsHeld,
      Orderly, WatchesOne, Service, Discovered, Living, Running
<1>14. ASSUME NEW p \in Procs, Unlock(p) PROVE Orderly'
    BY <1>14 DEF Unlock, At, AtWork, Starting, Stopping, files, ghosts, IInv, TypeOK,
      LockIsHeld, Orderly, WatchesOne, Service, Discovered, Living, Running
<1>15. ASSUME NEW p \in Procs, Leave(p) PROVE Orderly'
    BY <1>15 DEF Leave, At, AtWork, Starting, Stopping, ghosts, Fault, IInv, TypeOK,
      LockIsHeld, Orderly, WatchesOne, Service, Discovered, Living, Running
<1>16. ASSUME NEW p \in Procs, Die(p) PROVE Orderly'
    BY <1>16 DEF Die, AtWork, Starting, Stopping, files, ghosts, Fault, IInv, TypeOK,
      LockIsHeld, Orderly, WatchesOne, Service, Discovered, Living, Running
<1>17. ASSUME NEW p \in Procs, Reuse(p) PROVE Orderly'
    BY <1>17 DEF Reuse, At, AtWork, Starting, Stopping, files, ghosts, Fault, IInv, TypeOK,
      LockIsHeld, Orderly, WatchesOne, Service, Discovered, Living, Running
<1>18. CASE UNCHANGED vars
    BY <1>18 DEF vars, AtWork, Starting, Stopping, IInv, TypeOK, LockIsHeld, Orderly,
      WatchesOne, Service, Discovered, Living, Running
<1>19. QED BY <1>1, <1>2, <1>3, <1>4, <1>5, <1>6, <1>7, <1>8, <1>9, <1>10, <1>11, <1>12,
       <1>13, <1>14, <1>15, <1>16, <1>17, <1>18 DEF Next, Invoked, AtItsWork, Own

-----------------------------------------------------------------------------
\* The invariant holds at first, and no step ends it.
LEMMA InvariantHolds == Spec => []IInv
<1>1. Init => IInv
  <2> SUFFICES ASSUME Init PROVE IInv
    OBVIOUS
  <2>1. TypeOK
    <3>1. CommandsTyped
      BY DEF Init, CommandsTyped, CommandSteps
    <3>2. proc \in [Procs -> Service \cup {"none", "dead", "other"}]
      BY DEF Init
    <3>3. faults \in 0..MaxFaults /\ lived \in [Commands -> SUBSET Procs]
      BY ServiceAssumption DEF Init
    <3>4. state \in [pid : Procs \cup {None}, status : {"none", "running", "stopped", "failed"}]
      BY DEF Init
    <3>5. QED BY <3>1, <3>2, <3>3, <3>4 DEF Init, CommandsTyped, TypeOK, CommandSteps
  <2>2. LockIsHeld
    BY DEF Init, LockIsHeld
  <2>3. StopsFollow
    BY DEF Init, StopsFollow
  <2>4. Orderly
    BY DEF Init, Orderly, AtWork
  <2>5. WatchesOne
    BY DEF Init, WatchesOne
  <2>6. QED BY <2>1, <2>2, <2>3, <2>4, <2>5 DEF IInv
<1>2. IInv /\ [Next]_vars => IInv'
  BY TypesKept, LockKept, StopsKept, WatchKept, OrderKept DEF IInv
<1>3. QED BY <1>1, <1>2, PTL DEF Spec

\* Whoever is behind the lock holds it, so there is one at most.
LEMMA OneHolder ==
    ASSUME TypeOK, LockIsHeld
    PROVE  OneService
<1> DEFINE S == {p \in Procs : proc[p] \in {"locked", "serving"}}
<1>1. S \subseteq {lock}
  BY DEF LockIsHeld
<1>2. CASE S = {}
  BY <1>2, FS_EmptySet DEF OneService
<1>3. CASE S # {}
  <2>1. S = {lock} BY <1>1, <1>3
  <2>2. Cardinality(S) = 1 BY <2>1, FS_Singleton
  <2>3. QED BY <2>2 DEF OneService
<1>4. QED BY <1>2, <1>3

\* However many commands are given and race, and whichever processes fail, are
\* killed or leave their number to another program: one process serves, a stop
\* that reports no timeout has ended all it found, and after commands given one
\* by one the files name the process that serves.
THEOREM ServiceStaysSingle == Spec => []ServiceIsSingle
<1>1. IInv => ServiceIsSingle
  <2> SUFFICES ASSUME IInv PROVE ServiceIsSingle
    OBVIOUS
  <2>1. TypeOK /\ OneService
    BY OneHolder DEF IInv
  <2>2. ServiceIsKnown
    BY DEF IInv, Orderly, ServiceIsKnown
  <2>3. StopStopsAll
    BY DEF IInv, StopsFollow, Stopping, StopStopsAll
  <2>4. QED BY <2>1, <2>2, <2>3 DEF ServiceIsSingle
<1>2. QED BY <1>1, InvariantHolds, PTL

-----------------------------------------------------------------------------
(* A start that no other command crosses *)

\* Without an overlap a command launches where nothing of the service lives and nobody
\* has the lock, and until the process serves it stays so.
StartIsAlone ==
    ~overlap =>
        /\ \A c \in Commands : cmd[c].step \in {"probing", "launching"} => Living = {}
        /\ \A c \in Commands : cmd[c].step = "launching" => lock = None
        /\ \A p \in Starting \ hidden : Living = {p} /\ (proc[p] # "locked" => lock = None)

\* What a process that starts does next.
NextStage == [launched |-> "clear", clear |-> "locked", locked |-> "serving"]

\* Nobody turns such a process away.
GoesOn(p) ==
    ~overlap /\ p \notin signalled /\ faults' = faults /\ proc'[p] # proc[p]
        => proc'[p] = NextStage[proc[p]]

LEMMA AloneKept ==
    ASSUME IInv, StartIsAlone, [Next]_vars
    PROVE  StartIsAlone'
<1> USE ServiceAssumption DEF Procs
<1>0. TypeOK BY DEF IInv
<1>1. ASSUME NEW c \in Commands, Begin(c) PROVE StartIsAlone'
    BY <1>1 DEF Begin, To, Overlap, AtWork, Starting, files, IInv, TypeOK, StartIsAlone,
      Service, Living
<1>2. ASSUME NEW c \in Commands, Look(c) PROVE StartIsAlone'
  <2>1. UNCHANGED <<proc, pidFile, overlap, hidden>>
    BY LookCases, <1>0, <1>2 DEF Look, ghosts
  <2> SUFFICES ASSUME ~overlap PROVE StartIsAlone'
    BY <2>1 DEF StartIsAlone
  <2>2. cmd[c].step = "start" /\ c \in AtWork
    BY <1>0, <1>2, LookCases DEF AtWork
  <2>3. AtWork = {c} /\ Starting = {}
    BY <2>2 DEF IInv, Orderly
  <2>4. Starting' = {} /\ Living' = Living
    BY <2>1, <2>3 DEF Starting, Living
  <2>5. \A d \in Commands \ {c} : cmd'[d].step \in {"idle", "done"}
    BY <1>0, <1>2, <2>3, LookCases DEF AtWork
  <2>6. CASE cmd'[c].step = "done"
    BY <2>4, <2>5, <2>6 DEF StartIsAlone
  <2>7. CASE cmd'[c].step = "probing" /\ lock = None
    <3>1. Living = {}
      BY <2>3, <2>7 DEF IInv, LockIsHeld, Living, Service, Starting
    <3>2. QED BY <2>4, <2>5, <2>7, <3>1 DEF StartIsAlone
  <2>8. QED BY <1>0, <1>2, <2>6, <2>7, LookCases
<1>3. ASSUME NEW c \in Commands, Probed(c) PROVE StartIsAlone'
    BY <1>3 DEF Probed, To, AtWork, Starting, files, ghosts, IInv, TypeOK, Orderly,
      StartIsAlone, Service, Living
<1>4. ASSUME NEW c \in Commands, Launch(c) PROVE StartIsAlone'
    BY <1>4 DEF Launch, AtWork, Starting, files, ghosts, IsNext, IInv, TypeOK,
      Orderly, StartIsAlone, Service, Living
<1>5. ASSUME NEW c \in Commands, Run(c) PROVE StartIsAlone'
  <2> SUFFICES ASSUME ~overlap' PROVE StartIsAlone'
    BY DEF StartIsAlone
  <2>1. AtWork = {} /\ Starting = {}
    BY <1>5 DEF Run, Overlap, Starting
  <2>2. \A d \in Commands : cmd'[d].step \notin {"probing", "launching"}
    BY <1>0, <1>5, <2>1 DEF Run, To, AtWork, TypeOK
  <2>3. PICK p \in Procs : proc' = [proc EXCEPT ![p] = "launched"] /\ hidden' = hidden \cup {p}
    BY <1>5 DEF Run
  <2>4. Starting' \subseteq {p}
    BY <1>0, <2>1, <2>3 DEF Starting, TypeOK
  <2>5. QED BY <2>2, <2>3, <2>4 DEF StartIsAlone
<1>6. ASSUME NEW c \in Commands, Watch(c) PROVE StartIsAlone'
    BY <1>6 DEF Watch, To, Starting, ghosts, IInv, TypeOK, StartIsAlone, Service, Living
<1>7. ASSUME NEW c \in Commands, LookToStop(c) PROVE StartIsAlone'
  <2>1. \A d \in Commands : cmd'[d].step \in {"probing", "launching"} => cmd'[d].step = cmd[d].step
    BY <1>0, <1>7 DEF LookToStop, Stopped, To, TypeOK
  <2>2. QED BY <1>7, <2>1 DEF LookToStop, Overlap, Starting, Living, StartIsAlone
<1>8. ASSUME NEW c \in Commands, Kill(c) PROVE StartIsAlone'
    BY <1>8 DEF Kill, To, Starting, files, ghosts, IInv, TypeOK, StartIsAlone, Service, Living
<1>9. ASSUME NEW c \in Commands, GiveUp(c) PROVE StartIsAlone'
    BY <1>9 DEF GiveUp, To, Stopped, Starting, files, IInv, TypeOK, StartIsAlone, Service, Living
<1>10. ASSUME NEW c \in Commands, Recorded(c) PROVE StartIsAlone'
    BY <1>10 DEF Recorded, To, Stopped, Starting, ghosts, IInv, TypeOK, StartIsAlone,
      Service, Living
<1>11. ASSUME NEW p \in Procs, Check(p) PROVE StartIsAlone'
    BY <1>11 DEF Check, At, Starting, files, ghosts, IInv, TypeOK, StartIsAlone, Service, Living
<1>12. ASSUME NEW p \in Procs, Acquire(p) PROVE StartIsAlone'
    BY <1>12 DEF Acquire, At, AtWork, Starting, files, ghosts, IInv, TypeOK, Orderly,
      StartIsAlone, Service, Living
<1>13. ASSUME NEW p \in Procs, Serve(p) PROVE StartIsAlone'
    BY <1>13 DEF Serve, At, Starting, ghosts, IInv, TypeOK, StartIsAlone, Service, Living
<1>14. ASSUME NEW p \in Procs, Unlock(p) PROVE StartIsAlone'
    BY <1>14 DEF Unlock, At, Starting, files, ghosts, IInv, TypeOK, StartIsAlone, Service, Living
<1>15. ASSUME NEW p \in Procs, Leave(p) PROVE StartIsAlone'
    BY <1>15 DEF Leave, At, Starting, ghosts, IInv, TypeOK, StartIsAlone, Service, Living
<1>16. ASSUME NEW p \in Procs, Die(p) PROVE StartIsAlone'
    BY <1>16 DEF Die, Starting, files, ghosts, IInv, TypeOK, StartIsAlone, Service, Living
<1>17. ASSUME NEW p \in Procs, Reuse(p) PROVE StartIsAlone'
    BY <1>17 DEF Reuse, At, Starting, files, ghosts, IInv, TypeOK, StartIsAlone, Service, Living
<1>18. CASE UNCHANGED vars
    BY <1>18 DEF vars, Starting, StartIsAlone, Living
<1>19. QED BY <1>1, <1>2, <1>3, <1>4, <1>5, <1>6, <1>7, <1>8, <1>9, <1>10, <1>11, <1>12,
       <1>13, <1>14, <1>15, <1>16, <1>17, <1>18 DEF Next, Invoked, AtItsWork, Own

LEMMA NobodyIsRefused ==
    ASSUME IInv, StartIsAlone, Next, NEW p \in Starting \ hidden
    PROVE  GoesOn(p)
<1> USE ServiceAssumption DEF Procs
<1> SUFFICES ASSUME ~overlap, p \notin signalled, faults' = faults, proc'[p] # proc[p]
             PROVE  proc'[p] = NextStage[proc[p]]
  BY DEF GoesOn
<1>1. /\ p \in Procs /\ proc \in [Procs -> Service \cup {"none", "dead", "other"}]
      /\ faults \in Nat /\ proc[p] \in {"launched", "clear", "locked"}
      /\ Discovered \subseteq {p} /\ (proc[p] # "locked" => lock = None)
  BY DEF IInv, TypeOK, Starting, StartIsAlone, Discovered
<1>2. ASSUME NEW c \in Commands, Invoked(c) \/ AtItsWork(c) PROVE FALSE
  <2>1. proc' = proc \/ \E q \in Procs : IsNext(q) /\ proc' = [proc EXCEPT ![q] = "launched"]
    BY <1>2 DEF Invoked, AtItsWork, Begin, Run, LookToStop, Look, Probed, Launch, Watch, Kill,
       GiveUp, Recorded
  <2>2. QED BY <1>1, <2>1 DEF IsNext
<1>3. ASSUME NEW q \in Procs, Own(q) PROVE q = p
  BY <1>1, <1>3 DEF Own, Check, Acquire, Serve, Unlock, At
<1>4. ASSUME NEW q \in Procs, Leave(q) \/ Reuse(q) PROVE FALSE
  BY <1>1, <1>4 DEF Leave, Reuse, Fault
<1>5. ASSUME NEW q \in Procs, Die(q) PROVE FALSE
  <2>1. q # p
    BY <1>1, <1>5 DEF Die, Fault
  <2>2. QED BY <1>1, <1>5, <2>1 DEF Die
<1>6. Own(p)
  BY <1>2, <1>3, <1>4, <1>5 DEF Next
<1>7. QED BY <1>1, <1>6 DEF Own, Check, Acquire, Serve, Unlock, At, NextStage

\* The process that a start launches finds nothing in its way, if no other command
\* crosses the start: its own check and the lock let it through to serving, unless it is
\* signalled or fails (start_background_role_service, run_foreground_role_service).  This
\* is what StartServes rests on.
THEOREM StartsGetThrough == Spec => [][\A p \in Starting \ hidden : GoesOn(p)]_vars
<1> DEFINE A == \A p \in Starting \ hidden : GoesOn(p)
<1>1. Init => StartIsAlone
  BY DEF Init, StartIsAlone, Starting
<1>2. IInv /\ StartIsAlone /\ [Next]_vars => StartIsAlone'
  BY AloneKept
<1>3. IInv /\ StartIsAlone /\ [Next]_vars => [A]_vars
  BY NobodyIsRefused
<1>4. Spec => Init /\ [][Next]_vars
  BY PTL DEF Spec
<1> HIDE DEF A
<1>5. Spec => [][A]_vars
  BY <1>1, <1>2, <1>3, <1>4, InvariantHolds, PTL
<1>6. QED BY <1>5 DEF A

-----------------------------------------------------------------------------
(***************************************************************************)
(* What the services say to each other: the rest is about DiscordMessages, *)
(* which shares no variable with RoleService.                              *)
(***************************************************************************)

\* The inductive invariant.

Busy == {"sending", "waiting", "posting", "stranded"}

BuffersAreTyped ==
    /\ DOMAIN buffer = Processes
    /\ \A p \in Processes :
         /\ buffer[p].total \in Nat
         /\ \A k \in DOMAIN buffer[p].parts : buffer[p].parts[k] \in Messages

\* One send at a time is under way, the one that holds the lock.
SenderHoldsLock == \A m \in Messages : send[m].step \in Busy <=> holder = m

SendsStartFresh == \A m \in Messages : send[m].step \in {"idle", "queued"} => send[m].part = 1

\* A fallback does not start before what it stands in for has failed.
FallbackFollows ==
    \A m \in Messages :
        Fallback[m] # NoMessage /\ send[Fallback[m]].step # "idle" => send[m].step = "failed"

Clean == Never({"unacked", "reorder", "restart"})

\* The parts that are still to be handled, the one that is being sent the last.
Coming == IF holder = NoMessage THEN wire ELSE Append(wire, Part(holder))

\* The first n parts of m are in the buffer, perhaps with older ones behind.
Held(b, m, n) ==
    /\ b.total = Total[m] /\ 1..n \subseteq DOMAIN b.parts
    /\ \A k \in 1..n : b.parts[k] = m

\* Nothing of the process's is between the parts at i and j, or before j.
Between(c, p, i, j) == \A k \in DOMAIN c : i < k /\ k < j => Author[c[k].of] # p

\* Before every part comes the part before it, or that one has been handled.
Follow(c, b, dirty) ==
    \A j \in DOMAIN c :
        LET p == Author[c[j].of] IN
        p \notin dirty /\ c[j].part # 1 =>
            \/ \E i \in DOMAIN c :
                 i < j /\ Between(c, p, i, j) /\ c[i].of = c[j].of /\ c[i].part + 1 = c[j].part
            \/ /\ Between(c, p, 0, j)
               /\ \A n \in Nat : n + 1 = c[j].part => Held(b[p], c[j].of, n)
PartsFollow == Follow(Coming, buffer, broken)

\* A buffer holds the first parts of its count, and never all of them.
Prefix(b) == \E n \in Nat : DOMAIN b.parts = 1..n /\ (n = 0 \/ n < b.total)
BuffersArePrefixes == \A p \in Processes \ broken : Prefix(buffer[p])

Whole(m) == [i \in 1..Total[m] |-> m]

Merged == \A s \in merged : \/ \E m \in Messages : s = Whole(m)
                            \/ \E i \in DOMAIN s : Author[s[i]] \in broken

\* The last part of a message that was sent is on its way, or all of it is there.
Arriving ==
    \A m \in Messages \ Swallowing :
        send[m].step = "done" /\ Author[m] \notin broken =>
            \/ \E i \in DOMAIN wire : wire[i] = [of |-> m, part |-> Total[m]]
            \/ Whole(m) \in merged

-----------------------------------------------------------------------------
\* Lemmas.

Entry == [of : Messages, part : Nat]

\* Every content makes at least one part.
LEMMA TotalIsPositive ==
    ASSUME MessagesAssumption
    PROVE  \A m \in Messages : Total[m] \in Nat \ {0}
<1> USE DEF MessagesAssumption
<1>1. ASSUME NEW n \in Nat, NEW limit \in Nat \ {0}
      PROVE  Parts(n, limit) \in Nat \ {0}
  <2>1. n \div limit \in Nat
    OBVIOUS
  <2>2. QED BY <2>1 DEF Parts
<1>2. ASSUME NEW m \in Messages
      PROVE  BodyLimit(m) \in Nat \ {0}
  <2>1. PICK first : first = Parts(Length[m], Limit)
    OBVIOUS
  <2>2. first \in Nat \ {0}
    BY <1>1, <2>1
  <2>3. MarkerWidth(first, first) \in 0..10
    BY <2>2 DEF MarkerWidth, Digits
  <2>4. BodyLimit(m) \in {Limit, Limit - MarkerWidth(first, first)}
    BY <2>1 DEF BodyLimit
  <2>5. QED BY <2>3, <2>4
<1>3. QED BY <1>1, <1>2 DEF Total

\* A part that is not sent after all leaves the others in their places.
LEMMA FollowsWithoutLast ==
    ASSUME NEW c \in Seq(Entry), NEW x \in Entry, NEW b, NEW dirty, NEW more,
           dirty \subseteq more, Follow(Append(c, x), b, dirty)
    PROVE  Follow(c, b, more)
<1>1. /\ DOMAIN c \subseteq DOMAIN Append(c, x) /\ \A j \in DOMAIN c : Append(c, x)[j] = c[j]
      /\ \A j \in DOMAIN c : \A i \in DOMAIN Append(c, x) : i < j => i \in DOMAIN c
      /\ DOMAIN c \subseteq Nat /\ DOMAIN Append(c, x) \subseteq Nat
  OBVIOUS
<1>2. SUFFICES ASSUME NEW j \in DOMAIN c, NEW p, p = Author[c[j].of],
                      p \notin more, c[j].part # 1
               PROVE  \/ \E i \in DOMAIN c :
                           /\ i < j /\ Between(c, p, i, j)
                           /\ c[i].of = c[j].of /\ c[i].part + 1 = c[j].part
                      \/ /\ Between(c, p, 0, j)
                         /\ \A n \in Nat : n + 1 = c[j].part => Held(b[p], c[j].of, n)
  BY DEF Follow
<1>3. \A i : Between(Append(c, x), p, i, j) => Between(c, p, i, j)
  BY <1>1 DEF Between
<1>4. \/ \E i \in DOMAIN Append(c, x) :
           /\ i < j /\ Between(Append(c, x), p, i, j)
           /\ Append(c, x)[i].of = c[j].of /\ Append(c, x)[i].part + 1 = c[j].part
      \/ /\ Between(Append(c, x), p, 0, j)
         /\ \A n \in Nat : n + 1 = c[j].part => Held(b[p], c[j].of, n)
  BY <1>1, <1>2 DEF Follow
<1>5. QED BY <1>1, <1>3, <1>4

\* A first part may follow anything, a later one the part before it.
LEMMA FollowsWithNext ==
    ASSUME NEW c \in Seq(Entry), NEW x \in Entry, NEW b, NEW dirty, Follow(c, b, dirty),
           \/ x.part = 1 \/ Author[x.of] \in dirty
           \/ /\ c # << >> /\ c[Len(c)].of = x.of /\ c[Len(c)].part + 1 = x.part
    PROVE  Follow(Append(c, x), b, dirty)
<1> DEFINE d == Append(c, x)
<1>1. /\ DOMAIN d = 1..(Len(c) + 1) /\ DOMAIN c = 1..Len(c) /\ Len(c) \in Nat
      /\ d[Len(c) + 1] = x /\ \A j \in DOMAIN c : d[j] = c[j]
  OBVIOUS
<1> HIDE DEF d
<1>2. SUFFICES ASSUME NEW j \in DOMAIN d, NEW p, p = Author[d[j].of],
                      p \notin dirty, d[j].part # 1
               PROVE  \/ \E i \in DOMAIN d :
                           /\ i < j /\ Between(d, p, i, j)
                           /\ d[i].of = d[j].of /\ d[i].part + 1 = d[j].part
                      \/ /\ Between(d, p, 0, j)
                         /\ \A n \in Nat : n + 1 = d[j].part => Held(b[p], d[j].of, n)
  BY DEF Follow, d
<1>3. CASE j \in DOMAIN c
  <2>1. \A i \in Nat : Between(c, p, i, j) => Between(d, p, i, j)
    BY <1>1, <1>3 DEF Between
  <2>2. \/ \E i \in DOMAIN c :
             /\ i < j /\ Between(c, p, i, j)
             /\ c[i].of = c[j].of /\ c[i].part + 1 = c[j].part
        \/ /\ Between(c, p, 0, j)
           /\ \A n \in Nat : n + 1 = c[j].part => Held(b[p], c[j].of, n)
    BY <1>1, <1>2, <1>3 DEF Follow
  <2>3. QED BY <1>1, <1>3, <2>1, <2>2
<1>4. CASE j \notin DOMAIN c
  <2>1. j = Len(c) + 1 /\ d[j] = x
    BY <1>1, <1>4
  <2>2. c # << >> /\ c[Len(c)].of = x.of /\ c[Len(c)].part + 1 = x.part
    BY <1>2, <2>1
  <2>3. Len(c) \in DOMAIN c
    BY <1>1, <2>2
  <2>4. Between(d, p, Len(c), j)
    BY <1>1, <2>1 DEF Between
  <2>5. QED BY <1>1, <2>1, <2>2, <2>3, <2>4
<1>5. QED BY <1>3, <1>4

\* The part after the one that is handled finds it in the buffer.
LEMMA FollowsWithoutFirst ==
    ASSUME Author \in [Messages -> Processes], \A m \in Messages : Total[m] \in Nat,
           NEW d \in Seq(Entry), d # << >>, NEW b, NEW after, NEW dirty, Follow(d, b, dirty),
           \A j \in DOMAIN d : d[j].part \in 1..Total[d[j].of],
           \A q \in Processes \ {Author[d[1].of]} : after[q] = b[q],
           Author[d[1].of] \notin dirty /\ d[1].part < Total[d[1].of]
               => Held(after[Author[d[1].of]], d[1].of, d[1].part)
    PROVE  Follow(Tail(d), after, dirty)
<1> DEFINE c == Tail(d)
<1>1. /\ DOMAIN d = 1..Len(d) /\ DOMAIN c = 1..(Len(d) - 1) /\ Len(d) \in Nat \ {0}
      /\ \A j \in DOMAIN c : j \in Nat /\ j + 1 \in DOMAIN d /\ c[j] = d[j + 1]
      /\ 1 \in DOMAIN d /\ \A j \in DOMAIN d : j \in Nat /\ d[j] \in Entry
      /\ \A k \in DOMAIN d : k = 1 \/ \E j \in DOMAIN c : k = j + 1
  <2>1. \A k \in DOMAIN d : k = 1 \/ (k - 1 \in DOMAIN c /\ k = (k - 1) + 1)
    OBVIOUS
  <2>2. QED BY <2>1
<1> HIDE DEF c
<1>2. SUFFICES ASSUME NEW j \in DOMAIN c, NEW p, p = Author[c[j].of],
                      p \notin dirty, c[j].part # 1
               PROVE  \/ \E i \in DOMAIN c :
                           /\ i < j /\ Between(c, p, i, j)
                           /\ c[i].of = c[j].of /\ c[i].part + 1 = c[j].part
                      \/ /\ Between(c, p, 0, j)
                         /\ \A n \in Nat : n + 1 = c[j].part => Held(after[p], c[j].of, n)
  BY DEF Follow, c
<1>3. j + 1 \in DOMAIN d /\ d[j + 1] = c[j] /\ j \in Nat /\ c[j] \in Entry
  BY <1>1
<1>4. \A i \in Nat : Between(d, p, i + 1, j + 1) => Between(c, p, i, j)
  BY <1>1, <1>3 DEF Between
<1>5. \A i \in Nat : i <= 1 /\ Between(d, p, i, j + 1) => Between(c, p, 0, j)
  BY <1>1, <1>3 DEF Between
<1>6. CASE \E i \in DOMAIN d :
             /\ i < j + 1 /\ Between(d, p, i, j + 1)
             /\ d[i].of = d[j + 1].of /\ d[i].part + 1 = d[j + 1].part
  <2>1. PICK i \in DOMAIN d :
             /\ i < j + 1 /\ Between(d, p, i, j + 1)
             /\ d[i].of = d[j + 1].of /\ d[i].part + 1 = d[j + 1].part
    BY <1>6
  <2>2. CASE i = 1
    <3>1. Between(c, p, 0, j)
      BY <1>5, <2>1, <2>2
    <3>2. Author[d[1].of] = p /\ d[1].part \in Nat /\ d[1].of = c[j].of
      BY <1>1, <1>2, <1>3, <2>1, <2>2 DEF Entry
    <3>3. d[1].part + 1 = c[j].part /\ c[j].part \in 1..Total[c[j].of]
      BY <1>3, <2>1, <2>2
    <3>4. d[1].part < Total[d[1].of]
      BY <3>2, <3>3, <1>1, <1>3 DEF Entry
    <3>5. Held(after[p], c[j].of, d[1].part)
      BY <1>2, <3>2, <3>4
    <3>6. \A n \in Nat : n + 1 = c[j].part => n = d[1].part
      BY <3>2, <3>3
    <3>7. QED BY <3>1, <3>5, <3>6
  <2>3. CASE i # 1
    <3>1. PICK k \in DOMAIN c : i = k + 1
      BY <1>1, <2>3
    <3>2. k \in Nat /\ k < j /\ c[k] = d[i]
      BY <1>1, <1>3, <2>1, <3>1
    <3>3. Between(c, p, k, j)
      BY <1>4, <2>1, <3>1, <3>2
    <3>4. QED BY <1>3, <2>1, <3>2, <3>3
  <2>4. QED BY <2>2, <2>3
<1>7. CASE /\ Between(d, p, 0, j + 1)
           /\ \A n \in Nat : n + 1 = d[j + 1].part => Held(b[p], d[j + 1].of, n)
  <2>1. Between(c, p, 0, j)
    BY <1>5, <1>7
  <2>2. Author[d[1].of] # p
    BY <1>1, <1>3, <1>7 DEF Between
  <2>3. p \in Processes
    BY <1>2, <1>3 DEF Entry
  <2>4. after[p] = b[p]
    BY <2>2, <2>3
  <2>5. QED BY <1>3, <1>7, <2>1, <2>4
<1>8. QED BY <1>2, <1>3, <1>6, <1>7 DEF Follow

\* What was behind the first part is still there without it.
LEMMA OthersStay ==
    ASSUME NEW d \in Seq(Entry), NEW j \in DOMAIN d, j # 1
    PROVE  \E l \in DOMAIN Tail(d) : Tail(d)[l] = d[j]
<1>1. j \in 1..Len(d) /\ Len(d) \in Nat /\ d # << >>
  OBVIOUS
<1>2. Tail(d) \in Seq(Entry) /\ Len(Tail(d)) = Len(d) - 1
  BY <1>1, HeadTailProperties
<1>3. \A l \in 1..(Len(d) - 1) : Tail(d)[l] = d[l + 1]
  BY <1>1, <1>2, HeadTailProperties
<1>4. j - 1 \in 1..(Len(d) - 1) /\ (j - 1) + 1 = j
  BY <1>1
<1>5. DOMAIN Tail(d) = 1..(Len(d) - 1)
  BY <1>1, <1>2
<1>6. QED BY <1>3, <1>4, <1>5

LEMMA NextPart ==
    ASSUME NEW n \in Nat, NEW k \in 1..n, k # n
    PROVE  k + 1 \in 1..n
OBVIOUS

\* What a part makes of a buffer of its author that it follows on.
LEMMA PartIsAdded ==
    ASSUME MessagesAssumption,
           NEW b, NEW m \in Messages, NEW i \in 1..Total[m], Prefix(b), Total[m] # 1,
           b.total \in Nat, i = 1 \/ \A n \in Nat : n + 1 = i => Held(b, m, n)
    PROVE  /\ i = Total[m] => Added(b, m, i).parts = Whole(m)
           /\ i < Total[m] => /\ Held(Added(b, m, i), m, i) /\ Prefix(Added(b, m, i))
                                /\ DOMAIN Added(b, m, i).parts # 1..Total[m]
<1> DEFINE known == IF b.total = Total[m] THEN b.parts ELSE << >>
           a == Added(b, m, i)
<1>1. Total[m] \in Nat \ {0} /\ i \in Nat \ {0}
  BY TotalIsPositive
<1>2. /\ a.total = Total[m]
      /\ a.parts = [k \in DOMAIN known \cup {i} |-> IF k = i THEN m ELSE known[k]]
  BY DEF Added
<1>3. PICK n \in Nat : DOMAIN known = 1..n /\ n < Total[m]
  <2>1. CASE b.total = Total[m]
    BY <1>1, <2>1 DEF Prefix
  <2>2. CASE b.total # Total[m]
    <3>1. known = << >> /\ DOMAIN << >> = {} /\ 1..0 = {}
      BY <2>2
    <3>2. QED BY <1>1, <3>1
  <2>3. QED BY <2>1, <2>2
<1>4. PICK before \in Nat : before + 1 = i
  <2>1. i - 1 \in Nat /\ (i - 1) + 1 = i
    BY <1>1
  <2>2. QED BY <2>1
<1>5. 1..before \subseteq DOMAIN known /\ \A k \in 1..before : known[k] = m
  <2>1. CASE i = 1
    BY <1>4, <2>1
  <2>2. CASE i # 1
    BY <1>4, <2>2 DEF Held
  <2>3. QED BY <2>1, <2>2
<1> HIDE DEF known, a
<1>6. before <= n
  <2>1. before = 0 \/ before \in 1..before
    BY <1>4
  <2>2. QED BY <1>3, <1>4, <1>5, <2>1
<1>7. DOMAIN a.parts = 1..n \cup {i} /\ \A k \in 1..i : k \in DOMAIN a.parts /\ a.parts[k] = m
  <2>1. DOMAIN a.parts = 1..n \cup {i}
    BY <1>2, <1>3
  <2>2. \A k \in 1..i : k = i \/ k \in 1..before
    BY <1>1, <1>4
  <2>3. QED BY <1>2, <1>3, <1>5, <2>1, <2>2
<1>8. ASSUME i = Total[m] PROVE a.parts = Whole(m)
  <2>1. 1..n \cup {i} = 1..Total[m]
    BY <1>1, <1>3, <1>4, <1>6, <1>8
  <2>2. DOMAIN a.parts = 1..Total[m] /\ \A k \in 1..Total[m] : a.parts[k] = m
    BY <1>7, <1>8, <2>1
  <2>3. a.parts = [k \in DOMAIN a.parts |-> a.parts[k]]
    BY <1>2
  <2>4. QED BY <2>2, <2>3 DEF Whole
<1>9. ASSUME i < Total[m]
      PROVE  Held(a, m, i) /\ Prefix(a) /\ DOMAIN a.parts # 1..Total[m]
  <2>1. Held(a, m, i)
    BY <1>2, <1>7 DEF Held
  <2>2. PICK last \in Nat : last < Total[m] /\ DOMAIN a.parts = 1..last
    <3>1. CASE i \in 1..n
      <4>1. 1..n \cup {i} = 1..n
        BY <3>1
      <4>2. QED BY <1>3, <1>7, <4>1
    <3>2. CASE i \notin 1..n
      <4>1. 1..n \cup {i} = 1..i
        BY <1>1, <1>3, <1>4, <1>6, <3>2
      <4>2. QED BY <1>1, <1>7, <1>9, <4>1
    <3>3. QED BY <3>1, <3>2
  <2>3. Total[m] \notin 1..last
    BY <2>2, <1>1
  <2>4. Total[m] \in 1..Total[m]
    BY <1>1
  <2>5. QED BY <1>2, <2>1, <2>2, <2>3, <2>4 DEF Prefix
<1>10. QED BY <1>8, <1>9 DEF a

-----------------------------------------------------------------------------
\* Sends.

SendsAreRight ==
    /\ holder \in Messages \cup {NoMessage}
    /\ send \in [Messages -> [step : Steps, part : Nat, attempt : 1..MaxAttempts]]
    /\ \A m \in Messages : send[m].part \in 1..Total[m]
    /\ SenderHoldsLock /\ SendsStartFresh /\ FallbackFollows

\* An attempt ends within its part.
LEMMA AttemptMoves ==
    ASSUME MessagesAssumption,
           SendsAreRight, NEW m \in Messages, send[m].step \in Busy, NEW step \in Busy,
           NEW attempt \in 1..MaxAttempts, holder' = holder,
           send' = [send EXCEPT ![m] = [step |-> step, part |-> @.part, attempt |-> attempt]]
    PROVE  /\ SendsAreRight'
           /\ holder # NoMessage => Part(holder)' = Part(holder)
           /\ \A n \in Messages : send'[n].step = "done" => send[n].step = "done"
<1>1. /\ send'[m] = [step |-> step, part |-> send[m].part, attempt |-> attempt]
      /\ \A n \in Messages \ {m} : send'[n] = send[n]
      /\ send' \in [Messages -> [step : Steps, part : Nat, attempt : 1..MaxAttempts]]
  BY DEF SendsAreRight, Steps, Busy
<1>2. \A n \in Messages : /\ send'[n].part = send[n].part
                          /\ send'[n].step = send[n].step
                             \/ (n = m /\ send[n].step \in Busy /\ send'[n].step \in Busy)
  BY <1>1
<1>3. SenderHoldsLock' /\ SendsStartFresh'
  BY <1>2 DEF SendsAreRight, SenderHoldsLock, SendsStartFresh, Busy
<1>4. FallbackFollows'
  BY <1>2 DEF SendsAreRight, FallbackFollows, Busy, MessagesAssumption
<1>5. \A n \in Messages : send'[n].part \in 1..Total[n]
  BY <1>2 DEF SendsAreRight
<1>6. holder # NoMessage => Part(holder)' = Part(holder)
  BY <1>2 DEF SendsAreRight, Part
<1>7. QED BY <1>1, <1>2, <1>3, <1>4, <1>5, <1>6 DEF SendsAreRight, Busy

\* A part is done with: the next one follows, or the message is sent.
LEMMA SendAdvances ==
    ASSUME MessagesAssumption,
           SendsAreRight, NEW m \in Messages, send[m].step \in Busy, Release(m, Advanced(m))
    PROVE  /\ SendsAreRight'
           /\ \A n \in Messages \ {m} : send'[n] = send[n]
           /\ \/ send[m].part = Total[m] /\ send'[m].step = "done" /\ holder' = NoMessage
              \/ /\ send[m].part # Total[m] /\ send'[m].step = "sending" /\ holder' = m
                 /\ send'[m].part = send[m].part + 1
<1>1. holder = m /\ send[m].part \in 1..Total[m] /\ Total[m] \in Nat \ {0} /\ m # NoMessage
  BY TotalIsPositive DEF SendsAreRight, SenderHoldsLock, MessagesAssumption
<1>2. send' = Advanced(m) /\ holder' = IF send'[m].step \in Ended THEN NoMessage ELSE holder
  BY DEF Release
<1>3. CASE send[m].part = Total[m]
  <2>1. send' = [send EXCEPT ![m].step = "done"]
    BY <1>2, <1>3 DEF Advanced
  <2>2. /\ send'[m].step = "done" /\ send'[m].part = send[m].part
        /\ \A n \in Messages \ {m} : send'[n] = send[n]
        /\ send' \in [Messages -> [step : Steps, part : Nat, attempt : 1..MaxAttempts]]
    BY <2>1 DEF SendsAreRight, Steps, Ended
  <2>3. holder' = NoMessage
    BY <1>2, <2>2 DEF Ended
  <2>4. SenderHoldsLock' /\ SendsStartFresh'
    BY <1>1, <2>2, <2>3
       DEF SendsAreRight, SenderHoldsLock, SendsStartFresh, Busy, MessagesAssumption
  <2>5. FallbackFollows'
    <3>1. \A n \in Messages : (send'[n].step # "idle" => send[n].step # "idle")
                              /\ (send[n].step = "failed" => send'[n].step = "failed")
      BY <2>2 DEF Busy
    <3>2. QED BY <3>1 DEF SendsAreRight, FallbackFollows, MessagesAssumption
  <2>6. \A n \in Messages : send'[n].part \in 1..Total[n]
    BY <2>2 DEF SendsAreRight
  <2>7. QED BY <1>3, <2>2, <2>3, <2>4, <2>5, <2>6 DEF SendsAreRight
<1>4. CASE send[m].part # Total[m]
  <2>1. send' = [send EXCEPT ![m] = [step |-> "sending", part |-> @.part + 1, attempt |-> 1]]
    BY <1>2, <1>4 DEF Advanced
  <2>2. /\ send'[m] = [step |-> "sending", part |-> send[m].part + 1, attempt |-> 1]
        /\ \A n \in Messages \ {m} : send'[n] = send[n]
        /\ send' \in [Messages -> [step : Steps, part : Nat, attempt : 1..MaxAttempts]]
    BY <1>1, <2>1 DEF SendsAreRight, Steps, MessagesAssumption
  <2>3. holder' = m
    BY <1>1, <1>2, <2>2 DEF Ended
  <2>4. SenderHoldsLock' /\ SendsStartFresh'
    <3>1. send'[m].step = "sending" /\ \A n \in Messages \ {m} : send'[n] = send[n]
      BY <2>2
    <3>2. QED BY <1>1, <2>3, <3>1 DEF SendsAreRight, SenderHoldsLock, SendsStartFresh, Busy
  <2>5. FallbackFollows'
    <3>1. \A n \in Messages : (send'[n].step # "idle" => send[n].step # "idle")
                              /\ (send[n].step = "failed" => send'[n].step = "failed")
      BY <2>2 DEF Busy
    <3>2. QED BY <3>1 DEF SendsAreRight, FallbackFollows, MessagesAssumption
  <2>6. \A n \in Messages : send'[n].part \in 1..Total[n]
    <3>1. send[m].part + 1 \in 1..Total[m]
      BY <1>1, <1>4, NextPart
    <3>2. QED BY <2>2, <3>1 DEF SendsAreRight
  <2>7. QED BY <1>4, <2>2, <2>3, <2>4, <2>5, <2>6 DEF SendsAreRight
<1>5. QED BY <1>3, <1>4

\* A message fails, and its fallback queues.
LEMMA SendFails ==
    ASSUME MessagesAssumption,
           SendsAreRight, NEW m \in Messages, send[m].step \in Busy, Release(m, Failed(m))
    PROVE  /\ SendsAreRight' /\ holder' = NoMessage
           /\ \A n \in Messages : send'[n].step = "done" => send[n].step = "done"
<1>1. holder = m /\ m # NoMessage
  BY DEF SendsAreRight, SenderHoldsLock, MessagesAssumption
<1>2. PICK f \in Messages \cup {NoMessage} : f = Fallback[m]
  BY DEF MessagesAssumption
<1>3. f # NoMessage => f \in Messages /\ f # m /\ send[f].step = "idle"
  BY <1>2 DEF SendsAreRight, FallbackFollows, Busy
<1>4. PICK ended : ended = [send EXCEPT ![m].step = "failed"]
  OBVIOUS
<1>5. send' = IF f = NoMessage THEN ended ELSE [ended EXCEPT ![f].step = "queued"]
  BY <1>2, <1>4 DEF Release, Failed
<1>6. /\ ended[m].step = "failed" /\ ended[m].part = send[m].part
      /\ \A n \in Messages \ {m} : ended[n] = send[n]
      /\ ended \in [Messages -> [step : Steps, part : Nat, attempt : 1..MaxAttempts]]
  BY <1>4 DEF SendsAreRight, Steps, Ended
<1>7. /\ \A n \in Messages :
            /\ send'[n].part = send[n].part
            /\ \/ n = m /\ send'[n].step = "failed"
               \/ /\ n = f /\ n # m /\ f # NoMessage /\ send[n].step = "idle"
                  /\ send'[n].step = "queued"
               \/ n \notin {m, f} /\ send'[n] = send[n]
      /\ send' \in [Messages -> [step : Steps, part : Nat, attempt : 1..MaxAttempts]]
  BY <1>3, <1>5, <1>6 DEF Steps, MessagesAssumption
<1>8. holder' = NoMessage
  BY <1>7 DEF Release, Ended
<1>9. SenderHoldsLock'
  BY <1>1, <1>3, <1>7, <1>8 DEF SendsAreRight, SenderHoldsLock, Busy, MessagesAssumption
<1>10. SendsStartFresh'
  BY <1>3, <1>7 DEF SendsAreRight, SendsStartFresh
<1>11. FallbackFollows'
  <2>1. \A n \in Messages : (send[n].step = "failed" => send'[n].step = "failed")
                            /\ (send'[n].step # "idle" => send[n].step # "idle" \/ n = f)
    BY <1>3, <1>7 DEF Busy
  <2>2. SUFFICES ASSUME NEW n \in Messages, Fallback[n] # NoMessage, send'[Fallback[n]].step # "idle"
                 PROVE  send'[n].step = "failed"
    BY DEF FallbackFollows
  <2>3. Fallback[n] \in Messages
    BY <2>2 DEF MessagesAssumption
  <2>4. CASE Fallback[n] = f
    BY <1>2, <1>7, <2>2, <2>4 DEF MessagesAssumption
  <2>5. CASE Fallback[n] # f
    BY <2>1, <2>2, <2>3, <2>5 DEF SendsAreRight, FallbackFollows
  <2>6. QED BY <2>4, <2>5
<1>12. \A n \in Messages : send'[n].part \in 1..Total[n]
  BY <1>3, <1>7 DEF SendsAreRight
<1>13. QED BY <1>3, <1>7, <1>8, <1>9, <1>10, <1>11, <1>12 DEF SendsAreRight

LEMMA SendStarts ==
    ASSUME MessagesAssumption,
           SendsAreRight, NEW m \in Messages, Due(m), holder = NoMessage, holder' = m,
           send' = [send EXCEPT ![m].step = "sending"]
    PROVE  /\ SendsAreRight' /\ send'[m].part = 1
           /\ \A n \in Messages : send'[n].step = "done" => send[n].step = "done"
<1>1. /\ send'[m].step = "sending" /\ send'[m].part = send[m].part
      /\ \A n \in Messages \ {m} : send'[n] = send[n]
      /\ send' \in [Messages -> [step : Steps, part : Nat, attempt : 1..MaxAttempts]]
  BY DEF SendsAreRight, Steps
<1>2. send[m].step \in {"idle", "queued"} /\ send[m].part = 1
  BY DEF Due, SendsAreRight, SendsStartFresh
<1>3. SenderHoldsLock' /\ SendsStartFresh'
  BY <1>1, <1>2 DEF SendsAreRight, SenderHoldsLock, SendsStartFresh, Busy, MessagesAssumption
<1>4. FallbackFollows'
  <2>1. SUFFICES ASSUME NEW n \in Messages, Fallback[n] # NoMessage, send'[Fallback[n]].step # "idle"
                 PROVE  send'[n].step = "failed"
    BY DEF FallbackFollows
  <2>2. Fallback[n] \in Messages
    BY <2>1 DEF MessagesAssumption
  <2>3. send[Fallback[n]].step # "idle"
    BY <1>1, <2>1, <2>2 DEF Due
  <2>4. QED BY <1>1, <1>2, <2>1, <2>3 DEF SendsAreRight, FallbackFollows
<1>5. \A n \in Messages : send'[n].part \in 1..Total[n]
  BY <1>1 DEF SendsAreRight
<1>6. QED BY <1>1, <1>2, <1>3, <1>4, <1>5 DEF SendsAreRight

\* The listener's answer reaches the sends that wait for it.
LEMMA SendsResume ==
    ASSUME MessagesAssumption, SendsAreRight, NEW p, NEW step \in {"posting", "stranded"},
           send' = Resumed(p, step), holder' = holder
    PROVE  /\ SendsAreRight'
           /\ holder # NoMessage => Part(holder)' = Part(holder)
           /\ \A n \in Messages : send'[n].step = "done" => send[n].step = "done"
<1>1. /\ send' \in [Messages -> [step : Steps, part : Nat, attempt : 1..MaxAttempts]]
      /\ \A n \in Messages : /\ send'[n].part = send[n].part
                             /\ send'[n].step = send[n].step
                                \/ /\ send[n].step \in Busy
                                   /\ send'[n].step \in {"posting", "stranded"}
  BY DEF SendsAreRight, Steps, Busy, Resumed, Waiting
<1>2. SenderHoldsLock' /\ SendsStartFresh'
  BY <1>1 DEF SendsAreRight, SenderHoldsLock, SendsStartFresh, Busy
<1>3. FallbackFollows'
  BY <1>1 DEF SendsAreRight, FallbackFollows, Busy, MessagesAssumption
<1>4. holder # NoMessage => Part(holder)' = Part(holder)
  BY <1>1 DEF SendsAreRight, Part
<1>5. \A n \in Messages : send'[n].part \in 1..Total[n]
  BY <1>1 DEF SendsAreRight
<1>6. QED BY <1>1, <1>2, <1>3, <1>4, <1>5 DEF SendsAreRight

LEMMA SendsCrash ==
    ASSUME MessagesAssumption, SendsAreRight, NEW p, Crash(p)
    PROVE  /\ SendsAreRight'
           /\ holder' = NoMessage \/ (holder' = holder /\ Part(holder)' = Part(holder))
           /\ \A n \in Messages : send'[n].step = "done" => send[n].step = "done"
<1>1. \A n \in Messages :
          send'[n] = IF Author[n] = p /\ send[n].step \notin Ended \cup {"idle"}
                     THEN [send[n] EXCEPT !.step = "failed"] ELSE send[n]
  BY DEF Crash
<1>2. /\ send' \in [Messages -> [step : Steps, part : Nat, attempt : 1..MaxAttempts]]
      /\ \A n \in Messages :
            /\ send'[n].part = send[n].part
            /\ \/ send'[n] = send[n] /\ (Author[n] # p \/ send[n].step \in Ended \cup {"idle"})
               \/ /\ Author[n] = p /\ send'[n].step = "failed"
                  /\ send[n].step \notin Ended \cup {"idle"}
  BY <1>1 DEF SendsAreRight, Steps, Ended, Crash
<1>3. holder' = IF holder # NoMessage /\ Author[holder] = p THEN NoMessage ELSE holder
  BY DEF Crash
<1>4. SenderHoldsLock'
  BY <1>2, <1>3 DEF SendsAreRight, SenderHoldsLock, Busy, Ended, MessagesAssumption
<1>5. SendsStartFresh'
  BY <1>2 DEF SendsAreRight, SendsStartFresh
<1>6. FallbackFollows'
  <2>1. \A n \in Messages : (send'[n].step # "idle" => send[n].step # "idle")
                            /\ (send[n].step = "failed" => send'[n].step = "failed")
    BY <1>2 DEF Ended
  <2>2. QED BY <2>1 DEF SendsAreRight, FallbackFollows, MessagesAssumption
<1>7. holder' # NoMessage => holder' = holder /\ Part(holder)' = Part(holder)
  BY <1>2, <1>3 DEF SendsAreRight, Part
<1>8. \A n \in Messages : send'[n].part \in 1..Total[n]
  BY <1>2 DEF SendsAreRight
<1>9. \A n \in Messages : send'[n].step = "done" => send[n].step = "done"
  BY <1>2
<1>10. holder' \in Messages \cup {NoMessage}
  BY <1>3 DEF SendsAreRight
<1>11. QED BY <1>2, <1>4, <1>5, <1>6, <1>7, <1>8, <1>9, <1>10 DEF SendsAreRight

-----------------------------------------------------------------------------
\* Parts.

LEMMA PartIsHandled ==
    ASSUME MessagesAssumption,
           MessagesTypeOK, BuffersAreTyped, NEW m \in Messages, NEW i \in 1..Total[m], Handled(m, i)
    PROVE  /\ BuffersAreTyped'
           /\ \A q \in Processes : DOMAIN buffer'[q].parts \subseteq 1..buffer'[q].total
           /\ \A s \in merged' : \A k \in DOMAIN s : s[k] \in Messages
           /\ \A q \in Processes \ {Author[m]} : buffer'[q] = buffer[q]
           /\ merged \subseteq merged'
           /\ \A s \in merged' \ merged : \E k \in DOMAIN s : s[k] = m
           /\ /\ Prefix(buffer[Author[m]])
              /\ i = 1 \/ \A n \in Nat : n + 1 = i => Held(buffer[Author[m]], m, n)
              => /\ Prefix(buffer'[Author[m]])
                 /\ merged' \subseteq merged \cup {Whole(m)}
                 /\ i < Total[m] => Held(buffer'[Author[m]], m, i)
                 /\ i = Total[m] => Whole(m) \in merged'
<1>1. PICK p \in Processes : p = Author[m]
  BY DEF MessagesAssumption
<1>2. Total[m] \in Nat \ {0} /\ i \in Nat /\ i <= Total[m]
  BY TotalIsPositive
<1>3. PICK b : b = Added(buffer[p], m, i)
  OBVIOUS
<1>4. /\ b.total = Total[m] /\ DOMAIN b.parts \subseteq 1..Total[m]
      /\ i \in DOMAIN b.parts /\ b.parts[i] = m
      /\ \A k \in DOMAIN b.parts : b.parts[k] \in Messages
  <2>1. PICK known : known = IF buffer[p].total = Total[m] THEN buffer[p].parts ELSE << >>
    OBVIOUS
  <2>2. /\ b.total = Total[m]
        /\ b.parts = [k \in DOMAIN known \cup {i} |-> IF k = i THEN m ELSE known[k]]
    BY <1>3, <2>1 DEF Added
  <2>3. DOMAIN known \subseteq 1..Total[m] /\ \A k \in DOMAIN known : known[k] \in Messages
    <3>1. CASE buffer[p].total = Total[m]
      BY <2>1, <3>1 DEF MessagesTypeOK, BuffersAreTyped
    <3>2. CASE buffer[p].total # Total[m]
      <4>1. known = << >> /\ DOMAIN << >> = {}
        BY <2>1, <3>2
      <4>2. QED BY <4>1
    <3>3. QED BY <3>1, <3>2
  <2>4. QED BY <2>2, <2>3
<1>5. NoBuffer.total = 0 /\ DOMAIN NoBuffer.parts = {} /\ Prefix(NoBuffer)
  <2>1. NoBuffer.total = 0 /\ DOMAIN NoBuffer.parts = {} /\ 1..0 = {}
    BY DEF NoBuffer
  <2>2. QED BY <2>1 DEF Prefix
<1>6. CASE Total[m] = 1
  <2>1. merged' = merged \cup {<<m>>} /\ buffer' = buffer /\ i = 1
    BY <1>2, <1>6 DEF Handled
  <2>2. <<m>> = Whole(m) /\ DOMAIN <<m>> = {1} /\ <<m>>[1] = m
    <3>1. <<m>> = [k \in 1..1 |-> m] /\ DOMAIN <<m>> = {1} /\ <<m>>[1] = m
      OBVIOUS
    <3>2. QED BY <1>6, <3>1 DEF Whole
  <2>3. QED BY <1>1, <1>6, <2>1, <2>2 DEF MessagesTypeOK, BuffersAreTyped
<1>7. CASE Total[m] # 1 /\ DOMAIN b.parts = 1..Total[m]
  <2>1. merged' = merged \cup {b.parts} /\ buffer' = [buffer EXCEPT ![p] = NoBuffer]
    BY <1>1, <1>3, <1>4, <1>7 DEF Handled
  <2>2. /\ buffer'[p] = NoBuffer /\ DOMAIN buffer' = Processes
        /\ \A q \in Processes \ {p} : buffer'[q] = buffer[q]
    BY <2>1 DEF BuffersAreTyped
  <2>3. /\ BuffersAreTyped'
        /\ \A q \in Processes : DOMAIN buffer'[q].parts \subseteq 1..buffer'[q].total
    <3>1. /\ buffer'[p].total \in Nat /\ DOMAIN buffer'[p].parts = {}
      BY <1>5, <2>2
    <3>2. \A q \in Processes : /\ buffer[q].total \in Nat
                               /\ DOMAIN buffer[q].parts \subseteq 1..buffer[q].total
                               /\ \A k \in DOMAIN buffer[q].parts : buffer[q].parts[k] \in Messages
      BY DEF BuffersAreTyped, MessagesTypeOK
    <3>3. QED BY <2>2, <3>1, <3>2 DEF BuffersAreTyped
  <2>4. ASSUME Prefix(buffer[p]), i = 1 \/ \A n \in Nat : n + 1 = i => Held(buffer[p], m, n)
        PROVE  i = Total[m] /\ b.parts = Whole(m)
    <3>1. buffer[p].total \in Nat
      BY DEF BuffersAreTyped
    <3>2. /\ i = Total[m] => b.parts = Whole(m)
          /\ i < Total[m] => DOMAIN b.parts # 1..Total[m]
      BY <1>3, <1>7, <2>4, <3>1, PartIsAdded
    <3>3. QED BY <1>2, <1>7, <3>2
  <2>5. \A s \in merged' : \A k \in DOMAIN s : s[k] \in Messages
    BY <1>4, <2>1 DEF MessagesTypeOK
  <2>6. \A s \in merged' \ merged : \E k \in DOMAIN s : s[k] = m
    BY <1>4, <2>1
  <2>7. /\ Prefix(buffer[p])
        /\ i = 1 \/ \A n \in Nat : n + 1 = i => Held(buffer[p], m, n)
        => /\ Prefix(buffer'[p]) /\ i = Total[m]
           /\ merged' \subseteq merged \cup {Whole(m)} /\ Whole(m) \in merged'
    BY <1>5, <2>1, <2>2, <2>4
  <2>8. QED BY <1>1, <1>2, <2>1, <2>2, <2>3, <2>5, <2>6, <2>7
<1>8. CASE Total[m] # 1 /\ DOMAIN b.parts # 1..Total[m]
  <2>1. merged' = merged /\ buffer' = [buffer EXCEPT ![p] = b]
    BY <1>1, <1>3, <1>4, <1>8 DEF Handled
  <2>2. /\ buffer'[p] = b /\ DOMAIN buffer' = Processes
        /\ \A q \in Processes \ {p} : buffer'[q] = buffer[q]
    BY <2>1 DEF BuffersAreTyped
  <2>3. /\ BuffersAreTyped'
        /\ \A q \in Processes : DOMAIN buffer'[q].parts \subseteq 1..buffer'[q].total
    BY <1>2, <1>4, <2>2 DEF BuffersAreTyped, MessagesTypeOK
  <2>4. ASSUME Prefix(buffer[p]), i = 1 \/ \A n \in Nat : n + 1 = i => Held(buffer[p], m, n)
        PROVE  i < Total[m] /\ Prefix(b) /\ Held(b, m, i)
    <3>1. buffer[p].total \in Nat
      BY DEF BuffersAreTyped
    <3>2. /\ i = Total[m] => b.parts = Whole(m)
          /\ i < Total[m] => Held(b, m, i) /\ Prefix(b)
      BY <1>3, <1>8, <2>4, <3>1, PartIsAdded
    <3>3. DOMAIN Whole(m) = 1..Total[m]
      BY DEF Whole
    <3>4. QED BY <1>2, <1>8, <3>2, <3>3
  <2>5. \A s \in merged' : \A k \in DOMAIN s : s[k] \in Messages
    BY <2>1 DEF MessagesTypeOK
  <2>6. /\ Prefix(buffer[p])
        /\ i = 1 \/ \A n \in Nat : n + 1 = i => Held(buffer[p], m, n)
        => Prefix(buffer'[p]) /\ Held(buffer'[p], m, i) /\ i < Total[m]
    BY <2>2, <2>4
  <2>7. QED BY <1>1, <1>2, <2>1, <2>2, <2>3, <2>5, <2>6
<1>9. QED BY <1>6, <1>7, <1>8

-----------------------------------------------------------------------------
\* Types are kept.

Typed == MessagesTypeOK /\ BuffersAreTyped /\ SenderHoldsLock /\ SendsStartFresh /\ FallbackFollows

Received ==
    /\ \A p \in Processes : DOMAIN buffer[p].parts \subseteq 1..buffer[p].total
    /\ \A s \in merged : \A i \in DOMAIN s : s[i] \in Messages
    /\ BuffersAreTyped

OnTheWay ==
    /\ wire \in Seq([of : Messages, part : Nat])
    /\ \A i \in DOMAIN wire : wire[i].part \in 1..Total[wire[i].of]

Rest ==
    /\ connection \in [Processes -> {"off", "connecting", "ready"}]
    /\ broken \subseteq Processes
    /\ failures \in [MessageFaults -> Nat]

LEMMA TypedIsParts == Typed <=> SendsAreRight /\ OnTheWay /\ Received /\ Rest
BY DEF Typed, MessagesTypeOK, SendsAreRight, OnTheWay, Received, Rest

\* A part is posted behind the others.
LEMMA PartIsPosted ==
    ASSUME SendsAreRight, OnTheWay, NEW m \in Messages, wire' = Append(wire, Part(m))
    PROVE  OnTheWay'
<1>1. Part(m) \in [of : Messages, part : Nat] /\ Part(m).part \in 1..Total[Part(m).of]
  BY DEF SendsAreRight, Part
<1>2. /\ wire' \in Seq([of : Messages, part : Nat])
      /\ \A i \in DOMAIN wire' : wire'[i] = Part(m) \/ (i \in DOMAIN wire /\ wire'[i] = wire[i])
  BY <1>1 DEF OnTheWay
<1>3. QED BY <1>1, <1>2 DEF OnTheWay

\* What is left when the part at i is taken.
LEMMA PartIsTaken ==
    ASSUME OnTheWay, NEW i \in DOMAIN wire,
           wire' = SubSeq(wire, 1, i - 1) \o SubSeq(wire, i + 1, Len(wire))
    PROVE  OnTheWay' /\ (i = 1 => wire' = Tail(wire))
<1> DEFINE S == [of : Messages, part : Nat]
<1>1. wire \in Seq(S) /\ i \in 1..Len(wire) /\ Len(wire) \in Nat
  BY DEF OnTheWay
<1> HIDE DEF S
<1>2. PICK a, b : a = SubSeq(wire, 1, i - 1) /\ b = SubSeq(wire, i + 1, Len(wire))
  OBVIOUS
<1>3. /\ a \in Seq(S) /\ Len(a) = i - 1
      /\ \A k \in 1..(i - 1) : a[k] = wire[k]
  BY <1>1, <1>2
<1>4. /\ b \in Seq(S) /\ Len(b) = Len(wire) - i
      /\ \A k \in 1..(Len(wire) - i) : b[k] = wire[k + i]
  BY <1>1, <1>2
<1>5. /\ wire' \in Seq(S)
      /\ \A k \in DOMAIN wire' : \E j \in DOMAIN wire : wire'[k] = wire[j]
  <2>1. a \in Seq(S) /\ b \in Seq(S) /\ wire' = a \o b
    BY <1>2, <1>3, <1>4
  <2>2. /\ wire' \in Seq(S) /\ Len(wire') = Len(a) + Len(b)
        /\ \A k \in 1..(Len(a) + Len(b)) : wire'[k] = IF k <= Len(a) THEN a[k] ELSE b[k - Len(a)]
    BY <2>1, ConcatProperties
  <2>3. PICK n \in Nat : n = Len(wire) /\ i \in 1..n /\ Len(a) = i - 1 /\ Len(b) = n - i
    BY <1>1, <1>3, <1>4
  <2>4. DOMAIN wire' = 1..(n - 1) /\ DOMAIN wire = 1..n
    BY <1>1, <2>2, <2>3
  <2>5. ASSUME NEW k \in 1..(n - 1) PROVE \E j \in 1..n : wire'[k] = wire[j]
    <3>1. wire'[k] = IF k <= i - 1 THEN a[k] ELSE b[k - (i - 1)]
      <4>1. k \in 1..(Len(a) + Len(b))
        BY <2>3
      <4>2. QED BY <2>2, <2>3, <4>1
    <3>2. CASE k <= i - 1
      <4>1. k \in 1..(i - 1) /\ k \in 1..n
        BY <2>3, <2>5, <3>2
      <4>2. QED BY <1>3, <3>1, <3>2, <4>1
    <3>3. CASE ~ (k <= i - 1)
      <4>1. PICK l \in 1..(n - i) : l = k - (i - 1) /\ l + i \in 1..n
        <5>1. i \in Nat /\ k \in Nat /\ i >= 1 /\ i <= n /\ k <= n - 1 /\ k > i - 1
          BY <2>3, <3>3
        <5>2. k - (i - 1) \in 1..(n - i) /\ (k - (i - 1)) + i \in 1..n
          BY <5>1
        <5>3. QED BY <5>2
      <4>2. b[l] = wire[l + i]
        BY <1>4, <2>3, <4>1
      <4>3. QED BY <3>1, <3>3, <4>1, <4>2
    <3>4. QED BY <3>2, <3>3
  <2>6. QED BY <2>2, <2>4, <2>5
<1>6. OnTheWay'
  BY <1>5 DEF OnTheWay, S
<1>7. ASSUME i = 1 PROVE wire' = Tail(wire)
  <2>1. a = << >>
    BY <1>2, <1>7, SubSeqEmpty
  <2>2. wire # << >>
    BY <1>1
  <2>3. b = Tail(wire)
    BY <1>1, <1>2, <1>7, <2>2, TailIsSubSeq
  <2>4. QED BY <1>2, <1>4, <2>1, <2>3, ConcatEmptySeq
<1>8. QED BY <1>6, <1>7

LEMMA FaultIsCounted ==
    ASSUME Rest, NEW kind, Mishap(kind)
    PROVE  /\ failures' \in [MessageFaults -> Nat]
           /\ kind \in {"unacked", "reorder", "restart"} => ~Clean'
           /\ Clean' => Clean
<1>1. /\ kind \in MessageFaults /\ failures' = [failures EXCEPT ![kind] = @ + 1]
      /\ failures \in [MessageFaults -> Nat]
  BY DEF Rest, Mishap
<1>2. /\ failures'[kind] = failures[kind] + 1 /\ failures[kind] \in Nat
      /\ \A k \in MessageFaults \ {kind} : failures'[k] = failures[k]
      /\ failures' \in [MessageFaults -> Nat]
  BY <1>1
<1>3. failures'[kind] # 0
  BY <1>2
<1>4. QED BY <1>1, <1>2, <1>3 DEF Clean, Never

\* A part that is given up is the process's last, or is skipped.
LEMMA PartIsGivenUp ==
    ASSUME MessagesAssumption,
           SendsAreRight, Rest, NEW m \in Messages, send[m].step \in Busy, GiveUpPart(m)
    PROVE  /\ SendsAreRight' /\ broken' \subseteq Processes /\ broken \subseteq broken'
           /\ \A n \in Messages \ Swallowing : send'[n].step = "done" => send[n].step = "done"
           /\ \/ holder' = NoMessage
              \/ /\ holder' = m /\ Author[m] \in broken'
                 /\ Part(holder)' = [of |-> m, part |-> send[m].part + 1]
<1>1. broken' = IF m \in Swallowing /\ Total[m] > 1 THEN broken \cup {Author[m]} ELSE broken
  BY DEF GiveUpPart, Skips
<1>2. broken' \subseteq Processes /\ broken \subseteq broken'
  BY <1>1 DEF Rest, MessagesAssumption
<1>3. CASE m \in Swallowing
  <2>1. Release(m, Advanced(m))
    BY <1>3 DEF GiveUpPart
  <2>2. /\ SendsAreRight'
        /\ \A n \in Messages \ {m} : send'[n] = send[n]
        /\ \/ send[m].part = Total[m] /\ send'[m].step = "done" /\ holder' = NoMessage
           \/ /\ send[m].part # Total[m] /\ send'[m].step = "sending" /\ holder' = m
              /\ send'[m].part = send[m].part + 1
    BY <2>1, SendAdvances
  <2>3. ASSUME send[m].part # Total[m] PROVE Author[m] \in broken'
    <3>1. Total[m] \in Nat /\ send[m].part \in 1..Total[m]
      BY TotalIsPositive DEF SendsAreRight
    <3>2. Total[m] > 1
      BY <2>3, <3>1
    <3>3. QED BY <1>1, <1>3, <3>2
  <2>4. QED BY <1>2, <1>3, <2>2, <2>3 DEF Part
<1>4. CASE m \notin Swallowing
  BY <1>2, <1>4, SendFails DEF GiveUpPart
<1>5. QED BY <1>3, <1>4

-----------------------------------------------------------------------------
\* Every step keeps the invariant.

Merging == PartsFollow /\ BuffersArePrefixes /\ Merged /\ Arriving

MessagesInv == Typed /\ (Clean => Merging)

\* A step of a send or a listener that neither posts nor handles a part.
LEMMA QuietStep ==
    ASSUME Merging, UNCHANGED <<wire, buffer, merged>>, broken \subseteq broken', PartsFollow',
           \A n \in Messages \ Swallowing : send'[n].step = "done" => send[n].step = "done"
    PROVE  Merging'
<1>1. BuffersArePrefixes'
  BY DEF Merging, BuffersArePrefixes
<1>2. Merged'
  BY DEF Merging, Merged
<1>3. Arriving'
  BY DEF Merging, Arriving
<1>4. QED BY <1>1, <1>2, <1>3 DEF Merging

\* The part that was to come last stays, or does not come.
LEMMA ComingIsKept ==
    ASSUME SendsAreRight, OnTheWay, PartsFollow, UNCHANGED <<wire, buffer>>,
           broken \subseteq broken',
           \/ holder' = NoMessage
           \/ holder' = holder /\ Part(holder)' = Part(holder)
    PROVE  PartsFollow'
<1>1. wire \in Seq(Entry) /\ (holder # NoMessage => Part(holder) \in Entry)
  BY DEF OnTheWay, Entry, SendsAreRight, Part
<1>2. Follow(Coming, buffer, broken)
  BY DEF PartsFollow
<1>3. Follow(wire, buffer, broken')
  <2>1. CASE holder = NoMessage
    BY <1>2, <2>1 DEF Coming, Follow
  <2>2. CASE holder # NoMessage
    <3>1. Coming = Append(wire, Part(holder))
      BY <2>2 DEF Coming
    <3>2. PICK x \in Entry : x = Part(holder)
      BY <1>1, <2>2
    <3>3. QED BY <1>1, <1>2, <3>1, <3>2, FollowsWithoutLast
  <2>3. QED BY <2>1, <2>2
<1>4. CASE holder' = NoMessage
  <2>1. Coming' = wire
    BY <1>4 DEF Coming
  <2>2. Follow(Coming', buffer', broken')
    BY <1>3, <2>1
  <2>3. QED BY <2>2 DEF PartsFollow
<1>5. CASE holder' = holder /\ Part(holder)' = Part(holder)
  <2>1. Coming' = Coming
    BY <1>5 DEF Coming
  <2>2. Follow(Coming, buffer, broken')
    BY <1>2 DEF Follow
  <2>3. Follow(Coming', buffer', broken')
    BY <2>1, <2>2
  <2>4. QED BY <2>3 DEF PartsFollow
<1>6. QED BY <1>4, <1>5

\* A part comes next that may follow the parts on the wire.
LEMMA ComingIsLonger ==
    ASSUME NEW m \in Messages, m # NoMessage, NEW x \in Entry, NEW before \in Seq(Entry),
           Follow(before, buffer, broken), wire' = before, UNCHANGED buffer,
           broken \subseteq broken', holder' = m, Part(holder)' = x,
           \/ x.part = 1 \/ Author[x.of] \in broken'
           \/ /\ before # << >> /\ before[Len(before)].of = x.of
              /\ before[Len(before)].part + 1 = x.part
    PROVE  PartsFollow'
<1>1. Follow(before, buffer, broken')
  BY DEF Follow
<1>2. Follow(Append(before, x), buffer, broken')
  <2>1. PICK dirty, b : dirty = broken' /\ b = buffer
    OBVIOUS
  <2>2. Follow(before, b, dirty)
    BY <1>1, <2>1
  <2>3. Follow(Append(before, x), b, dirty)
    BY <2>1, <2>2, FollowsWithNext
  <2>4. QED BY <2>1, <2>3
<1>3. Coming' = Append(before, x)
  BY DEF Coming
<1>4. Follow(Coming', buffer', broken')
  BY <1>2, <1>3
<1>5. QED BY <1>4 DEF PartsFollow

LEMMA GiveUpStep ==
    ASSUME MessagesAssumption, Typed, NEW m \in Messages, send[m].step \in Busy, GiveUpPart(m),
           UNCHANGED <<wire, buffer, merged>>
    PROVE  /\ SendsAreRight' /\ broken' \subseteq Processes
           /\ Merging => Merging'
<1>1. SendsAreRight /\ OnTheWay /\ Rest /\ m # NoMessage
  BY TypedIsParts DEF MessagesAssumption
<1>2. /\ SendsAreRight' /\ broken' \subseteq Processes /\ broken \subseteq broken'
      /\ \A n \in Messages \ Swallowing : send'[n].step = "done" => send[n].step = "done"
      /\ \/ holder' = NoMessage
         \/ /\ holder' = m /\ Author[m] \in broken'
            /\ Part(holder)' = [of |-> m, part |-> send[m].part + 1]
  BY <1>1, PartIsGivenUp
<1>3. ASSUME Merging PROVE PartsFollow'
  <2>1. CASE holder' = NoMessage
    BY <1>1, <1>2, <1>3, <2>1, ComingIsKept DEF Merging
  <2>2. CASE /\ holder' = m /\ Author[m] \in broken'
             /\ Part(holder)' = [of |-> m, part |-> send[m].part + 1]
    <3>1. PICK x \in Entry : x = [of |-> m, part |-> send[m].part + 1] /\ x.of = m
      <4>1. PICK n \in Nat : n = send[m].part + 1
        BY <1>1 DEF SendsAreRight
      <4>2. [of |-> m, part |-> n] \in Entry
        BY DEF Entry
      <4>3. QED BY <4>1, <4>2
    <3>2. wire \in Seq(Entry) /\ wire' = wire
      BY <1>1 DEF OnTheWay, Entry
    <3>3. holder = m
      BY <1>1 DEF SendsAreRight, SenderHoldsLock
    <3>4. Follow(wire, buffer, broken)
      <4>1. Part(holder) \in Entry /\ Coming = Append(wire, Part(holder))
        BY <1>1, <3>3 DEF Coming, Part, Entry, SendsAreRight
      <4>2. PICK y \in Entry : y = Part(holder)
        BY <4>1
      <4>3. Follow(Append(wire, y), buffer, broken)
        BY <1>3, <4>1, <4>2 DEF Merging, PartsFollow
      <4>4. QED BY <3>2, <4>3, FollowsWithoutLast
    <3>5. QED BY <1>1, <1>2, <2>2, <3>1, <3>2, <3>4, ComingIsLonger
  <2>3. QED BY <1>2, <2>1, <2>2
<1>4. QED BY <1>2, <1>3, QuietStep

LEMMA LockStep ==
    ASSUME MessagesAssumption, Typed, NEW m \in Messages, Lock(m)
    PROVE  Typed' /\ (Merging => Merging')
<1>1. SendsAreRight /\ OnTheWay /\ Received /\ Rest /\ m # NoMessage
  BY TypedIsParts DEF MessagesAssumption
<1>2. /\ SendsAreRight' /\ send'[m].part = 1
      /\ \A n \in Messages : send'[n].step = "done" => send[n].step = "done"
  BY <1>1, SendStarts DEF Lock
<1>3. /\ UNCHANGED <<connection, wire, buffer, merged, broken, failures>>
      /\ holder' = m /\ holder = NoMessage
  BY DEF Lock
<1>4. OnTheWay' /\ Received' /\ Rest'
  BY <1>1, <1>3 DEF OnTheWay, Received, Rest, BuffersAreTyped
<1>5. ASSUME Merging PROVE PartsFollow'
  <2>1. PICK x \in Entry : x = Part(holder)' /\ x.part = 1
    <3>1. Part(holder)' = [of |-> m, part |-> 1]
      BY <1>2, <1>3 DEF Part
    <3>2. QED BY <3>1 DEF Entry
  <2>2. wire \in Seq(Entry) /\ wire' = wire
    BY <1>1, <1>3 DEF OnTheWay, Entry
  <2>3. Follow(wire, buffer, broken)
    BY <1>3, <1>5 DEF Merging, PartsFollow, Coming
  <2>4. QED BY <1>1, <1>3, <2>1, <2>2, <2>3, ComingIsLonger
<1>6. Typed'
  BY <1>2, <1>4, TypedIsParts, PTL
<1>7. Merging => Merging'
  BY <1>2, <1>3, <1>5, QuietStep
<1>8. QED BY <1>6, <1>7

LEMMA AttemptStep ==
    ASSUME MessagesAssumption, Typed, NEW m \in Messages, Attempt(m)
    PROVE  Typed' /\ (Merging => Merging')
<1>1. SendsAreRight /\ OnTheWay /\ Received /\ Rest /\ send[m].step \in Busy
  BY TypedIsParts DEF Attempt, Busy
<1>2. UNCHANGED <<connection, wire, buffer, merged, failures>>
  BY DEF Attempt
<1>3. CASE GiveUpPart(m)
  <2>1. SendsAreRight' /\ broken' \subseteq Processes /\ (Merging => Merging')
    BY <1>1, <1>2, <1>3, GiveUpStep
  <2>2. OnTheWay' /\ Received' /\ Rest'
    BY <1>1, <1>2, <2>1 DEF OnTheWay, Received, Rest, BuffersAreTyped
  <2>3. Typed'
    BY <2>1, <2>2, TypedIsParts, PTL
  <2>4. QED BY <2>1, <2>3
<1>4. CASE ~ GiveUpPart(m)
  <2>1. PICK step \in {"waiting", "posting"} : send' = [send EXCEPT ![m].step = step]
    BY <1>4 DEF Attempt
  <2>2. holder' = holder /\ broken' = broken
    BY <1>4 DEF Attempt
  <2>3. PICK attempt \in 1..MaxAttempts : attempt = send[m].attempt
    BY <1>1 DEF SendsAreRight
  <2>4. send' = [send EXCEPT ![m] = [step |-> step, part |-> @.part, attempt |-> attempt]]
    <3>1. send[m] \in [step : Steps, part : Nat, attempt : 1..MaxAttempts]
      BY <1>1 DEF SendsAreRight
    <3>2. [send[m] EXCEPT !.step = step]
              = [step |-> step, part |-> send[m].part, attempt |-> attempt]
      BY <2>3, <3>1
    <3>3. QED BY <2>1, <3>2
  <2>5. /\ SendsAreRight' /\ (holder # NoMessage => Part(holder)' = Part(holder))
        /\ \A n \in Messages : send'[n].step = "done" => send[n].step = "done"
    <3>1. step \in Busy
      BY <2>1 DEF Busy
    <3>2. QED BY <1>1, <2>2, <2>3, <2>4, <3>1, AttemptMoves
  <2>6. OnTheWay' /\ Received' /\ Rest'
    BY <1>1, <1>2, <2>2 DEF OnTheWay, Received, Rest, BuffersAreTyped
  <2>7. Typed'
    BY <2>5, <2>6, TypedIsParts, PTL
  <2>8. Merging => PartsFollow'
    BY <1>1, <1>2, <2>2, <2>5, ComingIsKept DEF Merging
  <2>9. Merging => Merging'
    BY <1>2, <2>2, <2>5, <2>8, QuietStep
  <2>10. QED BY <2>7, <2>9
<1>5. QED BY <1>3, <1>4

\* A part that reaches the listener is behind those of its author.
LEMMA PostedStep ==
    ASSUME MessagesAssumption, Typed, NEW m \in Messages, Posted(m)
    PROVE  Typed' /\ (Merging => Merging')
<1>1. SendsAreRight /\ OnTheWay /\ Received /\ Rest /\ send[m].step \in Busy /\ m # NoMessage
  BY TypedIsParts DEF Posted, Busy, MessagesAssumption
<1>2. UNCHANGED <<connection, buffer, merged, broken, failures>> /\ wire' = Append(wire, Part(m))
  BY DEF Posted
<1>3. /\ SendsAreRight'
      /\ \A n \in Messages \ {m} : send'[n] = send[n]
      /\ \/ send[m].part = Total[m] /\ send'[m].step = "done" /\ holder' = NoMessage
         \/ /\ send[m].part # Total[m] /\ send'[m].step = "sending" /\ holder' = m
            /\ send'[m].part = send[m].part + 1
  BY <1>1, SendAdvances DEF Posted
<1>4. OnTheWay' /\ Received' /\ Rest'
  BY <1>1, <1>2, PartIsPosted DEF Received, Rest, BuffersAreTyped
<1>5. Typed'
  BY <1>3, <1>4, TypedIsParts, PTL
<1>6. holder = m /\ Coming = wire'
  BY <1>1, <1>2 DEF SendsAreRight, SenderHoldsLock, Coming
<1>7. ASSUME Merging PROVE PartsFollow'
  <2>1. Follow(wire', buffer, broken)
    BY <1>6, <1>7 DEF Merging, PartsFollow
  <2>2. CASE holder' = NoMessage
    <3>1. Coming' = wire'
      BY <2>2 DEF Coming
    <3>2. Follow(Coming', buffer', broken')
      BY <1>2, <2>1, <3>1
    <3>3. QED BY <3>2 DEF PartsFollow
  <2>3. CASE holder' = m /\ send'[m].part = send[m].part + 1
    <3>1. PICK before \in Seq(Entry) : before = wire'
      BY <1>4 DEF OnTheWay, Entry
    <3>2. before # << >> /\ before[Len(before)] = Part(m)
      <4>1. wire \in Seq(Entry) /\ Part(m) \in Entry
        BY <1>1 DEF OnTheWay, Entry, Part, SendsAreRight
      <4>2. QED BY <1>2, <3>1, <4>1
    <3>3. PICK n \in Nat : n = send[m].part + 1
      BY <1>1 DEF SendsAreRight
    <3>4. PICK x \in Entry : x = [of |-> m, part |-> n] /\ x.of = m /\ x.part = n
      <4>1. [of |-> m, part |-> n] \in Entry
        BY DEF Entry
      <4>2. QED BY <4>1
    <3>5. Part(holder)' = x
      BY <2>3, <3>3, <3>4 DEF Part
    <3>6. before[Len(before)].of = x.of /\ before[Len(before)].part + 1 = x.part
      BY <3>2, <3>3, <3>4 DEF Part
    <3>7. QED BY <1>1, <1>2, <2>1, <2>3, <3>1, <3>2, <3>5, <3>6, ComingIsLonger
  <2>4. QED BY <1>3, <2>2, <2>3
<1>8. ASSUME Merging PROVE Arriving'
  <2>1. /\ Len(wire) + 1 \in DOMAIN wire' /\ wire'[Len(wire) + 1] = Part(m)
        /\ \A i \in DOMAIN wire : i \in DOMAIN wire' /\ wire'[i] = wire[i]
    <3>1. wire \in Seq(Entry) /\ Part(m) \in Entry
      BY <1>1 DEF OnTheWay, Entry, Part, SendsAreRight
    <3>2. QED BY <1>2, <3>1
  <2>2. SUFFICES ASSUME NEW n \in Messages \ Swallowing,
                        send'[n].step = "done", Author[n] \notin broken'
                 PROVE  \/ \E i \in DOMAIN wire' : wire'[i] = [of |-> n, part |-> Total[n]]
                        \/ Whole(n) \in merged'
    BY DEF Arriving
  <2>3. CASE n = m
    <3>1. Part(m) = [of |-> n, part |-> Total[n]]
      BY <1>3, <2>2, <2>3 DEF Part
    <3>2. QED BY <2>1, <3>1
  <2>4. CASE n # m
    <3>1. \/ \E i \in DOMAIN wire : wire[i] = [of |-> n, part |-> Total[n]]
          \/ Whole(n) \in merged
      BY <1>2, <1>3, <1>8, <2>2, <2>4 DEF Merging, Arriving
    <3>2. QED BY <1>2, <2>1, <3>1
  <2>5. QED BY <2>3, <2>4
<1>9. ASSUME Merging PROVE BuffersArePrefixes' /\ Merged'
  BY <1>2, <1>9 DEF Merging, BuffersArePrefixes, Merged
<1>10. QED BY <1>5, <1>7, <1>8, <1>9 DEF Merging

LEMMA AttemptFailsStep ==
    ASSUME MessagesAssumption, Typed, NEW m \in Messages, AttemptFails(m)
    PROVE  Typed' /\ (Clean' => Clean) /\ (Merging /\ Clean' => Merging')
<1>1. SendsAreRight /\ OnTheWay /\ Received /\ Rest /\ send[m].step \in Busy
  BY TypedIsParts DEF AttemptFails, Busy
<1>2. UNCHANGED <<connection, buffer, merged>> /\ \E kind : Mishap(kind)
  BY DEF AttemptFails
<1>3. failures' \in [MessageFaults -> Nat] /\ (Clean' => Clean)
  BY <1>1, <1>2, FaultIsCounted
<1>4. \/ GiveUpPart(m)
      \/ /\ send' = [send EXCEPT ![m].step = "sending", ![m].attempt = @ + 1]
         /\ UNCHANGED <<holder, broken>> /\ send[m].attempt < MaxAttempts
  BY DEF AttemptFails, Retried
<1>5. /\ SendsAreRight' /\ broken' \subseteq Processes
      /\ UNCHANGED wire /\ Merging => Merging'
  <2>1. CASE GiveUpPart(m)
    <3>1. SendsAreRight' /\ broken' \subseteq Processes
      BY <1>1, <2>1, PartIsGivenUp
    <3>2. QED BY <1>1, <1>2, <2>1, <3>1, GiveUpStep
  <2>2. CASE /\ send' = [send EXCEPT ![m].step = "sending", ![m].attempt = @ + 1]
             /\ UNCHANGED <<holder, broken>> /\ send[m].attempt < MaxAttempts
    <3>1. PICK attempt \in 1..MaxAttempts : attempt = send[m].attempt + 1
      BY <1>1, <2>2 DEF SendsAreRight, MessagesAssumption
    <3>2. send' = [send EXCEPT ![m] = [step |-> "sending", part |-> @.part, attempt |-> attempt]]
      BY <1>1, <2>2, <3>1 DEF SendsAreRight
    <3>3. /\ SendsAreRight' /\ (holder # NoMessage => Part(holder)' = Part(holder))
          /\ \A n \in Messages : send'[n].step = "done" => send[n].step = "done"
      <4>1. "sending" \in Busy
        BY DEF Busy
      <4>2. QED BY <1>1, <2>2, <3>1, <3>2, <4>1, AttemptMoves
    <3>4. ASSUME UNCHANGED wire, Merging PROVE Merging'
      <4>1. PartsFollow'
        BY <1>1, <1>2, <2>2, <3>3, <3>4, ComingIsKept DEF Merging
      <4>2. QED BY <1>2, <2>2, <3>3, <3>4, <4>1, QuietStep
    <3>5. QED BY <1>1, <2>2, <3>3, <3>4 DEF Rest
  <2>3. QED BY <1>4, <2>1, <2>2
<1>6. Received' /\ Rest'
  BY <1>1, <1>2, <1>3, <1>5 DEF Received, Rest, BuffersAreTyped
<1>7. CASE UNCHANGED wire
  <2>1. OnTheWay'
    BY <1>1, <1>7 DEF OnTheWay
  <2>2. Typed'
    BY <1>5, <1>6, <2>1, TypedIsParts, PTL
  <2>3. QED BY <1>3, <1>5, <1>7, <2>2
<1>8. CASE Mishap("unacked") /\ wire' = Append(wire, Part(m))
  <2>1. OnTheWay'
    BY <1>1, <1>8, PartIsPosted
  <2>2. Typed'
    BY <1>5, <1>6, <2>1, TypedIsParts, PTL
  <2>3. ~ Clean'
    BY <1>1, <1>8, FaultIsCounted
  <2>4. QED BY <2>2, <2>3
<1>9. QED BY <1>7, <1>8 DEF AttemptFails

LEMMA ListenerStep ==
    ASSUME MessagesAssumption, Typed, NEW p \in Processes,
           Connect(p) \/ Connected(p) \/ ConnectFails(p) \/ Disconnected(p) \/ Crash(p)
    PROVE  Typed' /\ (Clean' => Clean) /\ (Merging => Merging')
<1>1. SendsAreRight /\ OnTheWay /\ Received /\ Rest
  BY TypedIsParts
<1>2. UNCHANGED <<wire, buffer, merged, broken>>
  BY DEF Connect, Connected, ConnectFails, Disconnected, Crash
<1>3. UNCHANGED failures \/ \E kind : Mishap(kind)
  BY DEF Connect, Connected, ConnectFails, Disconnected, Crash
<1>4. failures' \in [MessageFaults -> Nat] /\ (Clean' => Clean)
  <2>1. CASE UNCHANGED failures
    BY <1>1, <2>1 DEF Rest, Clean, Never
  <2>2. CASE \E kind : Mishap(kind)
    BY <1>1, <2>2, FaultIsCounted
  <2>3. QED BY <1>3, <2>1, <2>2
<1>5. connection' \in [Processes -> {"off", "connecting", "ready"}]
  BY <1>1 DEF Rest, Connect, Connected, ConnectFails, Disconnected, Crash
<1>6. /\ SendsAreRight'
      /\ holder' = NoMessage \/ (holder' = holder /\ Part(holder)' = Part(holder))
      /\ \A n \in Messages : send'[n].step = "done" => send[n].step = "done"
  <2>1. CASE UNCHANGED <<send, holder>>
    <3>1. Part(holder)' = Part(holder)
      BY <2>1 DEF Part
    <3>2. SendsAreRight'
      BY <1>1, <2>1 DEF SendsAreRight, SenderHoldsLock, SendsStartFresh, FallbackFollows
    <3>3. QED BY <2>1, <3>1, <3>2
  <2>2. CASE Connected(p)
    BY <1>1, <2>2, SendsResume DEF Connected
  <2>3. CASE ConnectFails(p)
    BY <1>1, <2>3, SendsResume DEF ConnectFails
  <2>4. CASE Crash(p)
    BY <1>1, <2>4, SendsCrash
  <2>5. QED BY <2>1, <2>2, <2>3, <2>4 DEF Connect, Disconnected
<1>7. OnTheWay' /\ Received' /\ Rest'
  BY <1>1, <1>2, <1>4, <1>5 DEF OnTheWay, Received, Rest, BuffersAreTyped
<1>8. Typed'
  BY <1>6, <1>7, TypedIsParts, PTL
<1>9. Merging => PartsFollow'
  BY <1>1, <1>2, <1>6, ComingIsKept DEF Merging
<1>10. Merging => Merging'
  BY <1>2, <1>6, <1>9, QuietStep
<1>11. QED BY <1>4, <1>8, <1>10

\* The parts that are to come are parts of messages.
LEMMA ComingIsTyped ==
    ASSUME MessagesAssumption, SendsAreRight, OnTheWay
    PROVE  /\ Coming \in Seq(Entry) /\ wire \in Seq(Entry)
           /\ \A j \in DOMAIN Coming : Coming[j].part \in 1..Total[Coming[j].of]
           /\ \A j \in DOMAIN Coming :
                 \/ j \in DOMAIN wire /\ Coming[j] = wire[j]
                 \/ holder \in Messages /\ Coming[j] = Part(holder)
           /\ wire # << >> =>
                 /\ Coming # << >> /\ Coming[1] = wire[1] /\ 1 \in DOMAIN Coming
                 /\ Tail(Coming) = IF holder = NoMessage THEN Tail(wire)
                                   ELSE Append(Tail(wire), Part(holder))
<1>1. wire \in Seq(Entry) /\ \A j \in DOMAIN wire : wire[j].part \in 1..Total[wire[j].of]
  BY DEF OnTheWay, Entry
<1>2. CASE holder = NoMessage
  <2>1. Coming = wire
    BY <1>2 DEF Coming
  <2>2. wire # << >> => 1 \in DOMAIN wire
    BY <1>1
  <2>3. QED BY <1>1, <1>2, <2>1, <2>2
<1>3. CASE holder # NoMessage
  <2>1. holder \in Messages /\ send[holder].part \in Nat /\ send[holder].part \in 1..Total[holder]
    BY <1>3 DEF SendsAreRight
  <2>2. PICK x : x = Part(holder)
    OBVIOUS
  <2>3. x \in Entry /\ x.part \in 1..Total[x.of]
    BY <2>1, <2>2 DEF Part, Entry
  <2>4. Coming = Append(wire, x)
    BY <1>3, <2>2 DEF Coming
  <2>5. PICK c : c = Append(wire, x)
    OBVIOUS
  <2>6. /\ c \in Seq(Entry) /\ \A j \in DOMAIN c : c[j] = x \/ (j \in DOMAIN wire /\ c[j] = wire[j])
        /\ wire # << >> => c # << >> /\ c[1] = wire[1] /\ 1 \in DOMAIN c
    BY <1>1, <2>3, <2>5
  <2>7. ASSUME wire # << >> PROVE Tail(c) = Append(Tail(wire), x)
    <3>1. PICK n \in Nat : n + 1 = Len(wire)
      <4>1. Len(wire) \in Nat /\ Len(wire) # 0
        BY <1>1, <2>7
      <4>2. Len(wire) - 1 \in Nat /\ (Len(wire) - 1) + 1 = Len(wire)
        BY <4>1
      <4>3. QED BY <4>2
    <3>2. /\ Tail(wire) \in Seq(Entry) /\ Len(Tail(wire)) = n
          /\ \A k \in 1..n : Tail(wire)[k] = wire[k + 1]
      BY <1>1, <2>7, <3>1, HeadTailProperties
    <3>3. /\ c # << >> /\ Len(c) = n + 2 /\ c[n + 2] = x
          /\ \A k \in 1..(n + 1) : c[k] = wire[k]
      BY <1>1, <2>3, <2>5, <3>1
    <3>4. /\ Tail(c) \in Seq(Entry) /\ Len(Tail(c)) = n + 1
          /\ \A k \in 1..(n + 1) : Tail(c)[k] = c[k + 1]
      BY <2>6, <3>3, HeadTailProperties
    <3>5. /\ Append(Tail(wire), x) \in Seq(Entry) /\ Len(Append(Tail(wire), x)) = n + 1
          /\ Append(Tail(wire), x)[n + 1] = x
          /\ \A k \in 1..n : Append(Tail(wire), x)[k] = Tail(wire)[k]
      BY <2>3, <3>2, AppendProperties
    <3>6. ASSUME NEW k \in 1..(n + 1) PROVE Tail(c)[k] = Append(Tail(wire), x)[k]
      <4>1. CASE k = n + 1
        BY <3>3, <3>4, <3>5, <4>1
      <4>2. CASE k # n + 1
        <5>1. k \in 1..n /\ k + 1 \in 1..(n + 1)
          BY <3>6, <4>2
        <5>2. QED BY <3>2, <3>3, <3>4, <3>5, <5>1
      <4>3. QED BY <4>1, <4>2
    <3>7. QED BY <3>4, <3>5, <3>6, SeqEqual
  <2>8. QED BY <1>1, <1>3, <2>1, <2>2, <2>3, <2>4, <2>5, <2>6, <2>7
<1>4. QED BY <1>2, <1>3

LEMMA HandleStep ==
    ASSUME MessagesAssumption, Typed, NEW i \in DOMAIN wire, Handle(i)
    PROVE  Typed' /\ (Clean' => Clean) /\ (Merging /\ Clean' => Merging')
<1>1. SendsAreRight /\ OnTheWay /\ Received /\ Rest
  BY TypedIsParts
<1>2. UNCHANGED <<holder, send, connection, broken>>
  BY DEF Handle
<1>3. PICK m \in Messages : \E k \in 1..Total[m] :
            m = wire[i].of /\ k = wire[i].part /\ Handled(m, k)
  <2>1. wire[i].of \in Messages /\ wire[i].part \in 1..Total[wire[i].of]
    <3>1. wire \in Seq(Entry)
      BY <1>1 DEF OnTheWay, Entry
    <3>2. wire[i] \in Entry
      BY <3>1
    <3>3. QED BY <1>1, <3>2 DEF OnTheWay, Entry
  <2>2. QED BY <2>1 DEF Handle
<1>4. PICK k \in 1..Total[m] : m = wire[i].of /\ k = wire[i].part /\ Handled(m, k)
  BY <1>3
<1>5. OnTheWay' /\ (i = 1 => wire' = Tail(wire))
  BY <1>1, PartIsTaken DEF Handle
<1>6. MessagesTypeOK /\ BuffersAreTyped
  BY DEF Typed
<1>7. PICK p \in Processes : p = Author[m]
  BY DEF MessagesAssumption
<1>8. /\ Received'
      /\ \A q \in Processes \ {p} : buffer'[q] = buffer[q]
      /\ merged \subseteq merged'
      /\ \A s \in merged' \ merged : \E j \in DOMAIN s : s[j] = m
      /\ /\ Prefix(buffer[p])
         /\ k = 1 \/ \A n \in Nat : n + 1 = k => Held(buffer[p], m, n)
         => /\ Prefix(buffer'[p])
            /\ merged' \subseteq merged \cup {Whole(m)}
            /\ k < Total[m] => Held(buffer'[p], m, k)
            /\ k = Total[m] => Whole(m) \in merged'
  BY <1>4, <1>6, <1>7, PartIsHandled DEF Received
<1>9. IF i = 1 THEN UNCHANGED failures ELSE Mishap("reorder")
  BY DEF Handle
<1>10. failures' \in [MessageFaults -> Nat] /\ (Clean' => Clean /\ i = 1)
  <2>1. CASE i = 1
    BY <1>1, <1>9, <2>1 DEF Rest, Clean, Never
  <2>2. CASE i # 1
    BY <1>1, <1>9, <2>2, FaultIsCounted
  <2>3. QED BY <2>1, <2>2
<1>11. Typed'
  <2>1. SendsAreRight' /\ Rest'
    BY <1>1, <1>2, <1>10
       DEF SendsAreRight, SenderHoldsLock, SendsStartFresh, FallbackFollows, Rest
  <2>2. QED BY <1>5, <1>8, <2>1, TypedIsParts, PTL
<1>12. ASSUME Merging, i = 1 PROVE Merging'
  <2>1. PICK c : c = Coming
    OBVIOUS
  <2>2. /\ c \in Seq(Entry) /\ wire \in Seq(Entry) /\ wire # << >> /\ c # << >>
        /\ c[1] = wire[1] /\ 1 \in DOMAIN c
        /\ \A j \in DOMAIN c : c[j].part \in 1..Total[c[j].of]
        /\ Tail(c) = IF holder = NoMessage THEN Tail(wire)
                     ELSE Append(Tail(wire), Part(holder))
    <3>1. wire # << >>
      BY <1>1 DEF OnTheWay
    <3>2. QED BY <1>1, <2>1, <3>1, ComingIsTyped
  <2>3. c[1].of = m /\ c[1].part = k
    BY <1>4, <1>12, <2>2
  <2>4. Follow(c, buffer, broken)
    BY <1>12, <2>1 DEF Merging, PartsFollow
  <2>5. p \notin broken /\ k # 1 => \A n \in Nat : n + 1 = k => Held(buffer[p], m, n)
    <3>1. \A j \in DOMAIN c : ~ (j < 1)
      BY <2>2
    <3>2. QED BY <1>7, <2>2, <2>3, <2>4, <3>1 DEF Follow
  <2>6. p \notin broken => Prefix(buffer[p])
    BY <1>12 DEF Merging, BuffersArePrefixes
  <2>7. p \notin broken =>
            /\ Prefix(buffer'[p])
            /\ merged' \subseteq merged \cup {Whole(m)}
            /\ k < Total[m] => Held(buffer'[p], m, k)
            /\ k = Total[m] => Whole(m) \in merged'
    BY <1>8, <2>5, <2>6
  <2>8. Follow(Tail(c), buffer', broken)
    <3>1. PICK b, after, dirty : b = buffer /\ after = buffer' /\ dirty = broken
      OBVIOUS
    <3>2. \A q \in Processes \ {Author[c[1].of]} : after[q] = b[q]
      BY <1>7, <1>8, <2>3, <3>1
    <3>3. Author[c[1].of] \notin dirty /\ c[1].part < Total[c[1].of]
              => Held(after[Author[c[1].of]], c[1].of, c[1].part)
      BY <1>7, <2>3, <2>7, <3>1
    <3>4. Follow(Tail(c), after, dirty)
      <4>1. Author \in [Messages -> Processes] /\ \A n \in Messages : Total[n] \in Nat
        BY TotalIsPositive DEF MessagesAssumption
      <4>2. QED BY <2>2, <2>4, <3>1, <3>2, <3>3, <4>1, FollowsWithoutFirst
    <3>5. QED BY <3>1, <3>4
  <2>9. PartsFollow'
    <3>1. Part(holder)' = Part(holder)
      BY <1>2 DEF Part
    <3>2. Coming' = Tail(c)
      BY <1>2, <1>5, <1>12, <2>2, <3>1 DEF Coming
    <3>3. Follow(Coming', buffer', broken')
      BY <1>2, <2>8, <3>2
    <3>4. QED BY <3>3 DEF PartsFollow
  <2>10. BuffersArePrefixes'
    BY <1>2, <1>8, <1>12, <2>7 DEF Merging, BuffersArePrefixes
  <2>11. Merged'
    <3>1. ASSUME NEW s \in merged'
          PROVE  \/ \E n \in Messages : s = Whole(n)
                 \/ \E j \in DOMAIN s : Author[s[j]] \in broken
      <4>1. CASE s \in merged
        BY <1>12, <4>1 DEF Merging, Merged
      <4>2. CASE s \notin merged /\ p \in broken
        BY <1>7, <1>8, <4>2
      <4>3. CASE s \notin merged /\ p \notin broken
        BY <2>7, <4>3
      <4>4. QED BY <4>1, <4>2, <4>3
    <3>2. QED BY <1>2, <3>1 DEF Merged
  <2>12. Arriving'
    <3>1. SUFFICES ASSUME NEW n \in Messages \ Swallowing,
                          send'[n].step = "done", Author[n] \notin broken'
                   PROVE  \/ \E j \in DOMAIN wire' : wire'[j] = [of |-> n, part |-> Total[n]]
                          \/ Whole(n) \in merged'
      BY DEF Arriving
    <3>2. \/ \E j \in DOMAIN wire : wire[j] = [of |-> n, part |-> Total[n]]
          \/ Whole(n) \in merged
      BY <1>2, <1>12, <3>1 DEF Merging, Arriving
    <3>3. CASE Whole(n) \in merged
      BY <1>8, <3>3
    <3>4. ASSUME NEW j \in DOMAIN wire, wire[j] = [of |-> n, part |-> Total[n]]
          PROVE  \/ \E l \in DOMAIN wire' : wire'[l] = [of |-> n, part |-> Total[n]]
                 \/ Whole(n) \in merged'
      <4>1. CASE j = 1
        <5>1. n = m /\ k = Total[m]
          BY <1>4, <1>12, <3>4, <4>1
        <5>2. QED BY <1>2, <1>7, <2>7, <3>1, <5>1
      <4>2. CASE j # 1
        <5>1. \E l \in DOMAIN Tail(wire) : Tail(wire)[l] = wire[j]
          BY <2>2, <4>2, OthersStay
        <5>2. QED BY <1>5, <1>12, <3>4, <5>1
      <4>3. QED BY <4>1, <4>2
    <3>5. QED BY <3>2, <3>3, <3>4
  <2>13. QED BY <2>9, <2>10, <2>11, <2>12 DEF Merging
<1>13. QED BY <1>10, <1>11, <1>12

\* A buffer that a send or a part on its way still needs breaks its author's message
\* when it expires.
LEMMA ExpireStep ==
    ASSUME MessagesAssumption, Typed, NEW p \in Processes, Expire(p)
    PROVE  Typed' /\ (Merging => Merging')
<1>1. SendsAreRight /\ OnTheWay /\ Received /\ Rest
  BY TypedIsParts
<1>2. /\ UNCHANGED <<holder, send, connection, wire, merged, failures>>
      /\ buffer' = [buffer EXCEPT ![p] = NoBuffer]
      /\ broken \subseteq broken' /\ (Unfinished(p) => p \in broken')
      /\ broken' \subseteq broken \cup {p}
  BY DEF Expire
<1>3. /\ DOMAIN buffer' = Processes /\ buffer'[p] = NoBuffer
      /\ \A q \in Processes \ {p} : buffer'[q] = buffer[q]
  BY <1>1, <1>2 DEF Received, BuffersAreTyped
<1>4. NoBuffer.total = 0 /\ DOMAIN NoBuffer.parts = {} /\ Prefix(NoBuffer)
  <2>1. NoBuffer.total = 0 /\ DOMAIN NoBuffer.parts = {} /\ 1..0 = {}
    BY DEF NoBuffer
  <2>2. QED BY <2>1 DEF Prefix
<1>5. Received'
  <2>1. buffer'[p].total \in Nat /\ DOMAIN buffer'[p].parts = {}
    BY <1>3, <1>4
  <2>2. QED BY <1>1, <1>2, <1>3, <2>1 DEF Received, BuffersAreTyped
<1>6. Typed'
  <2>1. SendsAreRight' /\ OnTheWay' /\ Rest'
    BY <1>1, <1>2
       DEF SendsAreRight, SenderHoldsLock, SendsStartFresh, FallbackFollows, OnTheWay, Rest
  <2>2. QED BY <1>5, <2>1, TypedIsParts, PTL
<1>7. ASSUME Merging PROVE PartsFollow'
  <2>1. PICK c : c = Coming
    OBVIOUS
  <2>2. /\ Follow(c, buffer, broken) /\ c \in Seq(Entry)
        /\ \A j \in DOMAIN c : c[j].part \in 1..Total[c[j].of]
        /\ \A j \in DOMAIN c : \/ j \in DOMAIN wire /\ c[j] = wire[j]
                               \/ holder \in Messages /\ c[j] = Part(holder)
    BY <1>1, <1>7, <2>1, ComingIsTyped DEF Merging, PartsFollow
  <2>3. ASSUME NEW j \in DOMAIN c, NEW q, q = Author[c[j].of], q \notin broken', c[j].part # 1,
               \A n \in Nat : n + 1 = c[j].part => Held(buffer[q], c[j].of, n)
        PROVE  \A n \in Nat : n + 1 = c[j].part => Held(buffer'[q], c[j].of, n)
    <3>1. c[j] \in Entry /\ q \in Processes
      <4>1. c[j] \in Entry
        BY <2>2
      <4>2. QED BY <2>3, <4>1 DEF Entry, MessagesAssumption
    <3>2. CASE q # p
      BY <1>3, <2>3, <3>1, <3>2
    <3>3. CASE q = p
      <4>1. PICK n \in Nat : n + 1 = c[j].part /\ n >= 1
        <5>1. c[j].part \in Nat /\ c[j].part # 0
          BY <2>2, <3>1, TotalIsPositive DEF Entry
        <5>2. c[j].part - 1 \in Nat /\ (c[j].part - 1) + 1 = c[j].part /\ c[j].part - 1 >= 1
          BY <2>3, <5>1
        <5>3. QED BY <5>2
      <4>2. Held(buffer[p], c[j].of, n) /\ 1 \in 1..n
        BY <2>3, <3>3, <4>1
      <4>3. 1 \in DOMAIN buffer[p].parts /\ buffer[p].parts[1] = c[j].of
        BY <4>2 DEF Held
      <4>4. send[c[j].of].step \in Ended /\ \A i \in DOMAIN wire : wire[i].of # c[j].of
        BY <1>2, <2>3, <3>3, <4>3 DEF Unfinished
      <4>5. holder \in Messages /\ c[j].of = holder
        BY <2>2, <4>4 DEF Part
      <4>6. send[holder].step \in Busy
        BY <1>1, <4>5 DEF SendsAreRight, SenderHoldsLock
      <4>7. QED BY <4>4, <4>5, <4>6 DEF Busy, Ended
    <3>4. QED BY <3>2, <3>3
  <2>4. Follow(c, buffer', broken')
    BY <1>2, <2>2, <2>3 DEF Follow
  <2>5. Coming' = c
    <3>1. Part(holder)' = Part(holder)
      BY <1>2 DEF Part
    <3>2. QED BY <1>2, <2>1, <3>1 DEF Coming
  <2>6. Follow(Coming', buffer', broken')
    BY <1>2, <2>4, <2>5
  <2>7. QED BY <2>6 DEF PartsFollow
<1>8. ASSUME Merging PROVE BuffersArePrefixes' /\ Merged' /\ Arriving'
  BY <1>2, <1>3, <1>4, <1>8 DEF Merging, BuffersArePrefixes, Merged, Arriving
<1>9. QED BY <1>6, <1>7, <1>8 DEF Merging

LEMMA RestartStep ==
    ASSUME MessagesAssumption, Typed, Restart
    PROVE  Typed' /\ ~ Clean'
<1>1. SendsAreRight /\ OnTheWay /\ Received /\ Rest
  BY TypedIsParts
<1>2. /\ UNCHANGED <<holder, send, connection, merged, broken>>
      /\ wire' = << >> /\ buffer' = [p \in Processes |-> NoBuffer]
  BY DEF Restart
<1>3. failures' \in [MessageFaults -> Nat] /\ ~ Clean'
  BY <1>1, FaultIsCounted DEF Restart
<1>4. Received'
  <2>1. NoBuffer.total = 0 /\ DOMAIN NoBuffer.parts = {}
    BY DEF NoBuffer
  <2>2. QED BY <1>1, <1>2, <2>1 DEF Received, BuffersAreTyped
<1>5. SendsAreRight' /\ OnTheWay' /\ Rest'
  BY <1>1, <1>2, <1>3
     DEF SendsAreRight, SenderHoldsLock, SendsStartFresh, FallbackFollows, OnTheWay, Rest
<1>6. QED BY <1>3, <1>4, <1>5, TypedIsParts, PTL

-----------------------------------------------------------------------------
\* The invariant.

LEMMA MessagesInitially ==
    ASSUME MessagesAssumption
    PROVE  MessagesInit => MessagesInv
<1> SUFFICES ASSUME MessagesInit PROVE Typed /\ Merging
  BY DEF MessagesInv
<1>1. \A m \in Messages : send[m] = Unsent
  BY DEF MessagesInit
<1>2. /\ SendsAreRight
  <2>1. /\ Unsent \in [step : Steps, part : Nat, attempt : 1..MaxAttempts]
        /\ Unsent.step = "idle" /\ Unsent.part = 1
    BY DEF Unsent, Steps, MessagesAssumption
  <2>2. \A m \in Messages : 1 \in 1..Total[m]
    BY TotalIsPositive
  <2>3. send \in [Messages -> [step : Steps, part : Nat, attempt : 1..MaxAttempts]]
    BY <2>1 DEF MessagesInit
  <2>4. \A m \in Messages : send[m].step = "idle" /\ send[m].part = 1
    BY <1>1, <2>1
  <2>5. SenderHoldsLock /\ SendsStartFresh /\ FallbackFollows
    BY <2>4 DEF MessagesInit, SenderHoldsLock, SendsStartFresh, FallbackFollows, Busy,
           MessagesAssumption
  <2>6. QED BY <2>2, <2>3, <2>4, <2>5 DEF SendsAreRight, MessagesInit
<1>3. NoBuffer.total = 0 /\ DOMAIN NoBuffer.parts = {} /\ Prefix(NoBuffer)
  <2>1. NoBuffer.total = 0 /\ DOMAIN NoBuffer.parts = {} /\ 1..0 = {}
    BY DEF NoBuffer
  <2>2. QED BY <2>1 DEF Prefix
<1>4. OnTheWay /\ Received /\ Rest
  BY <1>3 DEF MessagesInit, OnTheWay, Received, BuffersAreTyped, Rest
<1>5. Typed
  BY <1>2, <1>4, TypedIsParts
<1>6. PartsFollow
  <2>1. Coming = << >> /\ DOMAIN << >> = {}
    BY DEF Coming, MessagesInit
  <2>2. QED BY <2>1 DEF PartsFollow, Follow
<1>7. BuffersArePrefixes /\ Merged
  BY <1>3 DEF BuffersArePrefixes, Merged, MessagesInit
<1>8. Arriving
  BY <1>1 DEF Arriving, Unsent
<1>9. QED BY <1>5, <1>6, <1>7, <1>8 DEF Merging

LEMMA MessagesStep ==
    ASSUME MessagesAssumption, Typed, Clean => Merging, [MessagesNext]_messageVars
    PROVE  Typed' /\ (Clean' => Merging')
<1>1. CASE UNCHANGED messageVars
  <2>1. UNCHANGED <<holder, send, connection, wire, buffer, merged, broken, failures>>
    BY <1>1 DEF messageVars
  <2>2. SendsAreRight /\ OnTheWay /\ Received /\ Rest
    BY TypedIsParts
  <2>3. SendsAreRight' /\ OnTheWay' /\ Received' /\ Rest'
    BY <2>1, <2>2
       DEF SendsAreRight, SenderHoldsLock, SendsStartFresh, FallbackFollows, OnTheWay,
                      Received, BuffersAreTyped, Rest
  <2>4. Typed'
    BY <2>3, TypedIsParts, PTL
  <2>5. Clean' => Clean
    BY <2>1 DEF Clean, Never
  <2>6. ASSUME Merging PROVE Merging'
    <3>1. Part(holder)' = Part(holder)
      BY <2>1 DEF Part
    <3>2. PartsFollow'
      BY <2>1, <2>2, <2>6, <3>1, ComingIsKept DEF Merging
    <3>3. QED BY <2>1, <2>6, <3>2, QuietStep
  <2>7. QED BY <2>4, <2>5, <2>6
<1>2. ASSUME NEW m \in Messages, Sending(m)
      PROVE  Typed' /\ (Clean' => Merging')
  <2>1. Typed' /\ (Merging => Merging')
    BY <1>2, LockStep, AttemptStep, PostedStep DEF Sending
  <2>2. UNCHANGED failures
    BY <1>2 DEF Sending, Lock, Attempt, Posted
  <2>3. Clean' => Clean
    BY <2>2 DEF Clean, Never
  <2>4. QED BY <2>1, <2>3
<1>3. ASSUME NEW m \in Messages, AttemptFails(m)
      PROVE  Typed' /\ (Clean' => Merging')
  BY <1>3, AttemptFailsStep
<1>4. ASSUME NEW p \in Processes,
             Connect(p) \/ Connected(p) \/ ConnectFails(p) \/ Disconnected(p) \/ Crash(p)
      PROVE  Typed' /\ (Clean' => Merging')
  BY <1>4, ListenerStep
<1>5. ASSUME NEW p \in Processes, Expire(p)
      PROVE  Typed' /\ (Clean' => Merging')
  <2>1. Typed' /\ (Merging => Merging')
    BY <1>5, ExpireStep
  <2>2. Clean' => Clean
    BY <1>5 DEF Expire, Clean, Never
  <2>3. QED BY <2>1, <2>2
<1>6. ASSUME NEW i \in DOMAIN wire, Handle(i)
      PROVE  Typed' /\ (Clean' => Merging')
  BY <1>6, HandleStep
<1>7. ASSUME Restart
      PROVE  Typed' /\ (Clean' => Merging')
  BY <1>7, RestartStep
<1>8. QED BY <1>1, <1>2, <1>3, <1>4, <1>5, <1>6, <1>7 DEF MessagesNext

\* What the listener puts together is what was sent, and what was sent without
\* an error is put together, whatever was broken off before, while parts come
\* once and in order, their author skipped none and none expired while others of
\* their message were to come (client.py _process_incoming_chunk, send_content).
THEOREM MergesAlwaysAreMessages == MessagesSpec => []MergesAreMessages
<1> USE MessagesAssumption
<1>1. MessagesInv /\ [MessagesNext]_messageVars => MessagesInv'
  BY MessagesStep DEF MessagesInv
<1>2. ASSUME MessagesInv PROVE MergesAreMessages
  <2>1. MessagesTypeOK
    BY <1>2 DEF MessagesInv, Typed
  <2>2. MergedIsSent
    BY <1>2 DEF MessagesInv, MergedIsSent, Clean, Merging, Merged, Whole
  <2>3. SentIsMerged
    <3>1. SUFFICES ASSUME Clean, NEW m \in Messages \ Swallowing, send[m].step = "done",
                          \A k \in DOMAIN wire : wire[k].of # m, Author[m] \notin broken
                   PROVE  Whole(m) \in merged
      BY DEF SentIsMerged, Clean, Whole
    <3>2. ~ \E i \in DOMAIN wire : wire[i] = [of |-> m, part |-> Total[m]]
      BY <3>1
    <3>3. QED BY <1>2, <3>1, <3>2 DEF MessagesInv, Merging, Arriving
  <2>4. QED BY <2>1, <2>2, <2>3 DEF MergesAreMessages
<1>3. QED BY <1>1, <1>2, MessagesInitially, PTL DEF MessagesSpec

-----------------------------------------------------------------------------
(* Every send ends *)

\* What an attempt at a part still has before it, and the attempts after it.
MovesLeft(s) ==
    3 * (MaxAttempts - s.attempt)
    + CASE s.step = "sending" -> 3
        [] s.step = "waiting" -> 2
        [] s.step = "posting" -> 1
        [] OTHER -> 0

\* A send moves on: to the next part, or nearer to the end of this one.
Progresses(m) ==
    \/ send'[m].part > send[m].part
    \/ send'[m].part = send[m].part /\ MovesLeft(send'[m]) < MovesLeft(send[m])

\* What has ended stays so.  The send that holds the lock is left alone, ends and frees
\* the lock, or moves on; a step of its own does not leave it where it was.
Nears(m) ==
    /\ send[m].step \in Ended => send'[m] = send[m]
    /\ holder = m =>
         \/ ~Sending(m) /\ send'[m] = send[m] /\ holder' = m
         \/ send'[m].step \in Ended /\ holder' = NoMessage
         \/ holder' = m /\ Progresses(m)

\* A step that is about one send, or about none.
LEMMA OneSendMoves ==
    ASSUME MessagesAssumption, SendsAreRight, NEW k \in Messages,
           send[k].step \notin Ended,
           \A m \in Messages \ {k} : send[m].step \in Ended \cup Busy => send'[m] = send[m],
           holder \in {NoMessage, k}, Nears(k)
    PROVE  \A m \in Messages : Nears(m)
BY DEF Nears, Ended, MessagesAssumption

LEMMA GiveUpNears ==
    ASSUME MessagesAssumption, SendsAreRight, NEW k \in Messages, send[k].step \in Busy,
           GiveUpPart(k)
    PROVE  /\ Nears(k)
           /\ \A m \in Messages \ {k} : send[m].step \in Ended \cup Busy => send'[m] = send[m]
<1>1. holder = k /\ k # NoMessage /\ send[k].step \notin Ended
  BY DEF SendsAreRight, SenderHoldsLock, MessagesAssumption, Busy, Ended
<1>2. CASE Release(k, Advanced(k))
  <2>1. /\ \A m \in Messages \ {k} : send'[m] = send[m]
        /\ \/ send'[k].step = "done" /\ holder' = NoMessage
           \/ holder' = k /\ send'[k].part = send[k].part + 1
    BY <1>2, SendAdvances
  <2>2. send[k].part \in Nat
    BY DEF SendsAreRight
  <2>3. send[k].part + 1 > send[k].part
    BY <2>2
  <2>4. QED BY <1>1, <2>1, <2>3 DEF Nears, Ended, Progresses
<1>3. CASE Release(k, Failed(k))
  <2>1. holder' = NoMessage
    BY <1>3, SendFails
  <2>2. send' = Failed(k)
    BY <1>3 DEF Release
  <2>3. PICK f \in Messages \cup {NoMessage} : f = Fallback[k]
    BY DEF MessagesAssumption
  <2>4. f # NoMessage => f \in Messages /\ f # k /\ send[f].step = "idle"
    BY <1>1, <2>3 DEF SendsAreRight, FallbackFollows, Busy
  <2>5. /\ send'[k].step = "failed"
        /\ \A m \in Messages \ {k, f} : send'[m] = send[m]
    BY <2>2, <2>3, <2>4 DEF Failed, SendsAreRight
  <2>6. \A m \in Messages \ {k} : send[m].step \in Ended \cup Busy => m # f
    BY <2>4 DEF Ended, Busy
  <2>7. QED BY <1>1, <2>1, <2>5, <2>6 DEF Nears, Ended
<1>4. QED BY <1>2, <1>3 DEF GiveUpPart

\* Another attempt at the same part, or another place in this one.
LEMMA MovesOn ==
    ASSUME MessagesAssumption, SendsAreRight, NEW k \in Messages, holder' = holder,
           NEW step \in Busy, NEW attempt \in 1..MaxAttempts,
           send' = [send EXCEPT ![k] = [step |-> step, part |-> @.part, attempt |-> attempt]],
           \/ send[k].step = "sending" /\ step \in {"waiting", "posting"} /\ attempt = send[k].attempt
           \/ send[k].step = "posting" /\ step = "sending" /\ attempt = send[k].attempt + 1
    PROVE  /\ Nears(k)
           /\ \A m \in Messages \ {k} : send[m].step \in Ended \cup Busy => send'[m] = send[m]
<1>1. /\ send'[k] = [step |-> step, part |-> send[k].part, attempt |-> attempt]
      /\ \A m \in Messages \ {k} : send'[m] = send[m]
  BY DEF SendsAreRight
<1>2. /\ MaxAttempts \in Nat /\ send[k].attempt \in Nat /\ attempt \in Nat
      /\ send[k].step \notin Ended
  BY DEF SendsAreRight, MessagesAssumption, Ended
<1>3. MovesLeft(send'[k]) < MovesLeft(send[k])
  <2>1. CASE send[k].step = "sending" /\ step \in {"waiting", "posting"} /\ attempt = send[k].attempt
    BY <1>1, <1>2, <2>1 DEF MovesLeft
  <2>2. CASE send[k].step = "posting" /\ step = "sending" /\ attempt = send[k].attempt + 1
    BY <1>1, <1>2, <2>2 DEF MovesLeft
  <2>3. QED BY <2>1, <2>2
<1>4. QED BY <1>1, <1>2, <1>3 DEF Nears, Progresses

LEMMA SendingNears ==
    ASSUME MessagesAssumption, SendsAreRight, NEW k \in Messages, Sending(k) \/ AttemptFails(k)
    PROVE  \A m \in Messages : Nears(m)
<1>1. CASE Lock(k)
  <2>1. /\ holder = NoMessage /\ send[k].step \in {"idle", "queued"}
        /\ send' = [send EXCEPT ![k].step = "sending"]
    BY <1>1 DEF Lock, Due
  <2>2. \A m \in Messages \ {k} : send'[m] = send[m]
    BY <2>1 DEF SendsAreRight
  <2>3. QED BY <2>1, <2>2 DEF Nears, Ended, MessagesAssumption
<1>2. CASE ~Lock(k)
  <2>1. send[k].step \in {"sending", "posting"}
    BY <1>2 DEF Sending, Attempt, Posted, AttemptFails
  <2>2. holder = k /\ send[k].step \notin Ended /\ send[k].step \in Busy
    BY <2>1 DEF SendsAreRight, SenderHoldsLock, Busy, Ended
  <2>3. /\ Nears(k)
        /\ \A m \in Messages \ {k} : send[m].step \in Ended \cup Busy => send'[m] = send[m]
    <3>1. CASE GiveUpPart(k)
      BY <2>2, <3>1, GiveUpNears
    <3>2. CASE Attempt(k) /\ ~GiveUpPart(k)
      <4>1. PICK step : step = IF connection[Author[k]] = "connecting" THEN "waiting" ELSE "posting"
        OBVIOUS
      <4>2. send[k].step = "sending" /\ holder' = holder /\ send' = [send EXCEPT ![k].step = step]
        BY <3>2, <4>1 DEF Attempt
      <4>3. PICK attempt \in 1..MaxAttempts : attempt = send[k].attempt
        BY DEF SendsAreRight
      <4>4. send' = [send EXCEPT ![k] = [step |-> step, part |-> @.part, attempt |-> attempt]]
        <5>1. send[k] \in [step : Steps, part : Nat, attempt : 1..MaxAttempts]
          BY DEF SendsAreRight
        <5>2. [send[k] EXCEPT !.step = step] = [step |-> step, part |-> send[k].part, attempt |-> attempt]
          BY <4>3, <5>1
        <5>3. QED BY <4>2, <5>2
      <4>5. step \in {"waiting", "posting"} /\ step \in Busy
        BY <4>1 DEF Busy
      <4>6. QED BY <4>2, <4>3, <4>4, <4>5, MovesOn
    <3>3. CASE Posted(k)
      <4>1. Release(k, Advanced(k))
        BY <3>3 DEF Posted
      <4>2. /\ \A m \in Messages \ {k} : send'[m] = send[m]
            /\ \/ send'[k].step = "done" /\ holder' = NoMessage
               \/ holder' = k /\ send'[k].part = send[k].part + 1
        BY <2>2, <4>1, SendAdvances
      <4>3. send[k].part \in Nat
        BY DEF SendsAreRight
      <4>4. send[k].part + 1 > send[k].part
        BY <4>3
      <4>5. QED BY <2>2, <4>2, <4>4 DEF Nears, Ended, Progresses
    <3>4. CASE AttemptFails(k) /\ ~GiveUpPart(k)
      <4>1. /\ send[k].step = "posting" /\ send[k].attempt < MaxAttempts /\ holder' = holder
            /\ send' = [send EXCEPT ![k].step = "sending", ![k].attempt = @ + 1]
        BY <3>4 DEF AttemptFails, Retried
      <4>2. PICK attempt \in 1..MaxAttempts : attempt = send[k].attempt + 1
        BY <4>1 DEF SendsAreRight, MessagesAssumption
      <4>3. send' = [send EXCEPT ![k] = [step |-> "sending", part |-> @.part, attempt |-> attempt]]
        BY <4>1, <4>2 DEF SendsAreRight
      <4>4. "sending" \in Busy
        BY DEF Busy
      <4>5. QED BY <4>1, <4>2, <4>3, <4>4, MovesOn
    <3>5. QED BY <1>2, <3>1, <3>2, <3>3, <3>4 DEF Sending
  <2>4. QED BY <2>2, <2>3, OneSendMoves
<1>3. QED BY <1>1, <1>2

\* The listener lets a send go on, strands it, or goes down with it.
LEMMA ListenerNears ==
    ASSUME MessagesAssumption, SendsAreRight, Rest, NEW p \in Processes,
           Connected(p) \/ ConnectFails(p) \/ Crash(p)
    PROVE  \A m \in Messages : Nears(m)
<1>1. CASE Crash(p)
  <2>1. \A n \in Messages :
          send'[n] = IF Author[n] = p /\ send[n].step \notin Ended \cup {"idle"}
                     THEN [send[n] EXCEPT !.step = "failed"] ELSE send[n]
    BY <1>1 DEF Crash
  <2>2. holder' = IF holder # NoMessage /\ Author[holder] = p THEN NoMessage ELSE holder
    BY <1>1 DEF Crash
  <2>3. \A n \in Messages : Sending(n) => ~Crash(p)
    <3>1. ASSUME NEW n \in Messages, Sending(n) PROVE failures' = failures
      BY <3>1 DEF Sending, Lock, Attempt, Posted
    <3>2. /\ failures' = [failures EXCEPT !["crash"] = @ + 1]
          /\ "crash" \in MessageFaults /\ failures \in [MessageFaults -> Nat]
      <4>1. Mishap("crash")
        BY <1>1 DEF Crash
      <4>2. failures \in [MessageFaults -> Nat]
        BY DEF Rest
      <4>3. QED BY <4>1, <4>2, ZenonT(20) DEF Mishap
    <3>3. failures' # failures
      <4>1. failures'["crash"] = failures["crash"] + 1 /\ failures["crash"] \in Nat
        BY <3>2
      <4>2. failures'["crash"] # failures["crash"]
        BY <4>1
      <4>3. QED BY <4>2
    <3>4. QED BY <3>1, <3>3
  <2>4. \A n \in Messages : holder = n => n # NoMessage /\ send[n].step \in Busy
    BY DEF SendsAreRight, SenderHoldsLock, MessagesAssumption
  <2>5. ASSUME NEW m \in Messages PROVE Nears(m)
    <3>1. send[m].step \in Ended => send'[m] = send[m]
      BY <2>1
    <3>2. CASE Author[m] = p
      <4>1. ASSUME holder = m PROVE send'[m].step = "failed" /\ holder' = NoMessage
        <5>1. send[m].step \notin Ended \cup {"idle"} /\ holder # NoMessage /\ Author[holder] = p
          BY <2>4, <3>2, <4>1 DEF Ended, Busy
        <5>2. send'[m] = [send[m] EXCEPT !.step = "failed"]
          BY <2>1, <3>2, <5>1
        <5>3. send[m] \in [step : Steps, part : Nat, attempt : 1..MaxAttempts]
          BY DEF SendsAreRight
        <5>4. send'[m].step = "failed"
          BY <5>2, <5>3
        <5>5. QED BY <2>2, <5>1, <5>4
      <4>2. QED BY <3>1, <4>1 DEF Nears, Ended
    <3>3. CASE Author[m] # p
      <4>1. send'[m] = send[m]
        BY <2>1, <3>3
      <4>2. holder = m => holder' = m
        BY <2>2, <3>3
      <4>3. QED BY <1>1, <2>3, <4>1, <4>2 DEF Nears
    <3>4. QED BY <3>2, <3>3
  <2>6. QED BY <2>5
<1>2. CASE Connected(p) \/ ConnectFails(p)
  <2>1. PICK step \in {"posting", "stranded"} : send' = Resumed(p, step) /\ holder' = holder
    BY <1>2 DEF Connected, ConnectFails
  <2>2. \A m \in Messages :
          send'[m] = IF Author[m] = p /\ send[m].step = "waiting"
                     THEN [send[m] EXCEPT !.step = step] ELSE send[m]
    BY <2>1 DEF Resumed, Waiting
  <2>3. ASSUME NEW m \in Messages PROVE Nears(m)
    <3>1. send[m].step \in Ended => send'[m] = send[m]
      BY <2>2 DEF Ended
    <3>2. CASE Author[m] = p /\ send[m].step = "waiting"
      <4>1. /\ send'[m].step = step /\ send'[m].part = send[m].part
            /\ send'[m].attempt = send[m].attempt
        <5>1. send[m] \in [step : Steps, part : Nat, attempt : 1..MaxAttempts]
          BY DEF SendsAreRight
        <5>2. send'[m] = [send[m] EXCEPT !.step = step]
          BY <2>2, <3>2
        <5>3. QED BY <5>1, <5>2
      <4>2. MaxAttempts \in Nat /\ send[m].attempt \in Nat
        BY DEF SendsAreRight, MessagesAssumption
      <4>3. MovesLeft(send[m]) = 3 * (MaxAttempts - send[m].attempt) + 2
        BY <3>2 DEF MovesLeft
      <4>4. \/ MovesLeft(send'[m]) = 3 * (MaxAttempts - send[m].attempt) + 1
            \/ MovesLeft(send'[m]) = 3 * (MaxAttempts - send[m].attempt) + 0
        <5>1. CASE step = "posting"
          BY <4>1, <5>1 DEF MovesLeft
        <5>2. CASE step = "stranded"
          BY <4>1, <5>2 DEF MovesLeft
        <5>3. QED BY <5>1, <5>2
      <4>5. MovesLeft(send'[m]) < MovesLeft(send[m])
        <5>1. PICK n \in Int : n = 3 * (MaxAttempts - send[m].attempt)
          BY <4>2
        <5>2. n + 1 < n + 2 /\ n + 0 < n + 2
          OBVIOUS
        <5>3. QED BY <4>3, <4>4, <5>1, <5>2
      <4>6. QED BY <2>1, <3>1, <4>1, <4>5 DEF Nears, Progresses
    <3>3. CASE ~(Author[m] = p /\ send[m].step = "waiting")
      <4>1. send'[m] = send[m]
        BY <2>2, <3>3
      <4>2. holder = m => ~Sending(m)
        <5>1. connection' # connection
          <6>1. connection[p] = "connecting" /\ connection \in [Processes -> {"off", "connecting", "ready"}]
            BY <1>2 DEF Connected, ConnectFails, Rest
          <6>2. \/ connection' = [connection EXCEPT ![p] = "ready"]
                \/ connection' = [connection EXCEPT ![p] = "off"]
            BY <1>2 DEF Connected, ConnectFails
          <6>3. connection'[p] # connection[p]
            BY <6>1, <6>2
          <6>4. QED BY <6>3
        <5>2. ASSUME Sending(m) PROVE connection' = connection
          BY <5>2 DEF Sending, Lock, Attempt, Posted
        <5>3. QED BY <5>1, <5>2
      <4>3. QED BY <2>1, <3>1, <4>1, <4>2 DEF Nears
    <3>4. QED BY <3>2, <3>3
  <2>4. QED BY <2>3
<1>3. QED BY <1>1, <1>2

LEMMA StepNears ==
    ASSUME MessagesAssumption, Typed, [MessagesNext]_messageVars
    PROVE  [\A m \in Messages : Nears(m)]_messageVars
<1>1. SendsAreRight /\ Rest
  BY TypedIsParts
<1>2. CASE UNCHANGED messageVars
  BY <1>2
<1>3. ASSUME NEW m \in Messages, Sending(m) \/ AttemptFails(m) PROVE \A n \in Messages : Nears(n)
  BY <1>1, <1>3, SendingNears
<1>4. ASSUME NEW p \in Processes, Connected(p) \/ ConnectFails(p) \/ Crash(p)
      PROVE  \A n \in Messages : Nears(n)
  BY <1>1, <1>4, ListenerNears
<1>5. ASSUME \A m \in Messages : ~Sending(m), UNCHANGED <<send, holder>>
      PROVE  \A n \in Messages : Nears(n)
  BY <1>5 DEF Nears
<1>6. CASE \E p \in Processes : Connect(p) \/ Disconnected(p) \/ Expire(p)
  BY <1>3, <1>5, <1>6 DEF Connect, Disconnected, Expire
<1>7. CASE Restart \/ \E i \in DOMAIN wire : Handle(i)
  BY <1>3, <1>5, <1>7 DEF Restart, Handle
<1>8. QED BY <1>2, <1>3, <1>4, <1>6, <1>7 DEF MessagesNext

\* Whoever holds the lock that all processes share gives it back after so many steps of
\* its own: it has at most MaxAttempts attempts at each of its parts, none of which it goes
\* back to, and a send that ended is not made again (client.py send_content,
\* _execute_send).  This is what EverySendEnds rests on; a stranded send alone takes no
\* step any more.
THEOREM SendsMoveOn == MessagesSpec => [][\A m \in Messages : Nears(m)]_messageVars
<1> DEFINE A == \A m \in Messages : Nears(m)
<1> USE MessagesAssumption
<1>1. MessagesInit => MessagesInv
  BY MessagesInitially
<1>2. MessagesInv /\ [MessagesNext]_messageVars => MessagesInv'
  BY MessagesStep DEF MessagesInv
<1>3. MessagesInv /\ [MessagesNext]_messageVars => [A]_messageVars
  BY StepNears DEF MessagesInv
<1>4. MessagesSpec => MessagesInit /\ [][MessagesNext]_messageVars
  BY PTL DEF MessagesSpec
<1> HIDE DEF A
<1>5. MessagesSpec => [][A]_messageVars
  BY <1>1, <1>2, <1>3, <1>4, PTL
<1>6. QED BY <1>5 DEF A

=============================================================================
