---------------------------- MODULE RoleService ----------------------------
(***************************************************************************)
(* The background service of one role, and the start, stop and restart     *)
(* commands that may run at the same time: the process table, the flock,   *)
(* the pid file and the agent's state file.  A process that runs all roles *)
(* is not recognised in the process table as the service of this one.      *)
(***************************************************************************)
EXTENDS Naturals, FiniteSets

CONSTANTS
    MaxProcs,    \* how many processes can be launched as the service
    Commands,    \* the command line's invocations
    Kind,        \* "run" (of all roles), "start", "stop" or "restart", for each
    None,
    FaultKinds,  \* of "fails" (the service raises), "killed", "reused" (its number)
    MaxFaults    \* how many of them

ASSUME ServiceAssumption ==
    /\ Kind \in [Commands -> {"run", "start", "stop", "restart"}]
    /\ FaultKinds \subseteq {"fails", "killed", "reused"}
    /\ {MaxProcs, MaxFaults} \subseteq Nat
    \* The lock's holder is told from its value: a process, a command, nobody.
    /\ Commands \cap 1..MaxProcs = {} /\ None \notin Commands \cup 1..MaxProcs

VARIABLES
    proc,      \* how far each process is; "other" is another program's
    lock,      \* who holds the role's lock
    pidFile,
    state,     \* the agent's state file
    hidden,    \* processes that run all roles
    signalled, \* processes with a signal on its way
    cmd,       \* how far each command is
    lived,     \* the service's processes when the stop of each command began
    overlap,   \* two commands were at work at the same time
    faults

vars == <<proc, lock, pidFile, state, hidden, signalled, cmd, lived, overlap, faults>>
files == <<pidFile, state>>
ghosts == <<hidden, lived, overlap>>

Procs == 1..MaxProcs
Service == {"launched", "clear", "locked", "serving", "leaving"}
Living == {p \in Procs : proc[p] \in Service}
Discovered == Living \ hidden
Running == {p \in Procs : proc[p] \in Service \cup {"other"}}
AtWork == {c \in Commands : cmd[c].step \notin {"idle", "done"}}
Overlap ==
    overlap' = (\/ overlap \/ AtWork # {}
                \/ \E p \in Procs : proc[p] \in {"launched", "clear", "locked"})

TypeOK ==
    /\ proc \in [Procs -> Service \cup {"none", "dead", "other"}]
    /\ lock \in Procs \cup Commands \cup {None}
    /\ pidFile \in Procs \cup {None}
    /\ state \in [pid : Procs \cup {None}, status : {"none", "running", "stopped", "failed"}]
    /\ hidden \subseteq Procs /\ signalled \subseteq Procs
    /\ cmd \in [Commands -> [step : {"idle", "start", "probing", "launching", "watching",
                                     "stopping", "forcing", "done"},
                             targets : SUBSET Procs]]
    /\ \A c \in Commands : cmd[c].step \in {"stopping", "forcing", "watching"} => cmd[c].targets # {}
    /\ lived \in [Commands -> SUBSET Procs] /\ overlap \in BOOLEAN /\ faults \in 0..MaxFaults

To(c, step) == cmd' = [cmd EXCEPT ![c].step = step]
\* A restart goes on to its start, however its stop ended.
Stopped(c) == To(c, IF Kind[c] = "restart" THEN "start" ELSE "done")

-----------------------------------------------------------------------------
\* start: nothing may run; the lock is tried and given back before the launch.
Begin(c) ==
    /\ cmd[c].step = "idle" /\ Kind[c] = "start"
    /\ To(c, "start")
    /\ Overlap
    /\ UNCHANGED <<proc, lock, files, hidden, signalled, lived, faults>>

Look_TableOnly(c) ==
    /\ cmd[c].step = "start"
    /\ IF Discovered # {} THEN To(c, "done") ELSE To(c, "launching")
    /\ UNCHANGED <<proc, lock, files, signalled, ghosts, faults>>

Look(c) ==
    /\ cmd[c].step = "start"
    /\ IF Discovered # {} \/ pidFile \in Running \/ lock # None
       THEN To(c, "done") /\ UNCHANGED lock
       ELSE To(c, "probing") /\ lock' = c
    /\ state' = IF Discovered = {} /\ pidFile \notin Running \cup {None}
                THEN [pid |-> pidFile, status |-> "stopped"] ELSE state
    /\ UNCHANGED <<proc, pidFile, signalled, ghosts, faults>>

Probed_Kept(c) ==
    /\ cmd[c].step = "probing"
    /\ To(c, "launching")
    /\ UNCHANGED <<proc, lock, files, signalled, ghosts, faults>>

Probed(c) ==
    /\ cmd[c].step = "probing"
    /\ To(c, "launching") /\ lock' = None
    /\ UNCHANGED <<proc, files, signalled, ghosts, faults>>

IsNext(p) == proc[p] = "none" /\ \A q \in 1..(p - 1) : proc[q] # "none"

Launch(c) ==
    /\ cmd[c].step = "launching"
    /\ \E p \in Procs :
         /\ IsNext(p)
         /\ proc' = [proc EXCEPT ![p] = "launched"]
         /\ cmd' = [cmd EXCEPT ![c] = [step |-> "watching", targets |-> {p}]]
    /\ UNCHANGED <<lock, files, signalled, ghosts, faults>>

\* run: the process itself, without asking first.
Run(c) ==
    /\ cmd[c].step = "idle" /\ Kind[c] = "run"
    /\ To(c, "done")
    /\ \E p \in Procs :
         /\ IsNext(p)
         /\ proc' = [proc EXCEPT ![p] = "launched"]
         /\ hidden' = hidden \cup {p}
    /\ Overlap
    /\ UNCHANGED <<lock, files, signalled, lived, faults>>

\* A second later a process that has exited counts as failed.
Watch(c) ==
    /\ cmd[c].step = "watching"
    /\ To(c, "done")
    /\ state' = IF cmd[c].targets \subseteq Running THEN state
                ELSE [pid |-> CHOOSE p \in cmd[c].targets : TRUE, status |-> "failed"]
    /\ UNCHANGED <<proc, lock, pidFile, signalled, ghosts, faults>>

-----------------------------------------------------------------------------
\* stop: SIGTERM, SIGKILL after five seconds, and giving up after another.
Targets_Named == {pidFile} \cap Running
Targets == Discovered \cup ({pidFile} \cap Running)

LookToStop_Always(c) ==
    /\ cmd[c].step = "idle" /\ Kind[c] \in {"stop", "restart"}
    /\ cmd' = [cmd EXCEPT ![c] = [step |-> "stopping", targets |-> Targets]]
    /\ signalled' = signalled \cup Targets
    /\ lived' = [lived EXCEPT ![c] = Discovered]
    /\ Overlap
    /\ UNCHANGED <<proc, lock, files, hidden, faults>>

LookToStop(c) ==
    /\ cmd[c].step = "idle" /\ Kind[c] \in {"stop", "restart"}
    /\ IF Targets = {}
       THEN pidFile' = None /\ Stopped(c) /\ UNCHANGED signalled
       ELSE /\ cmd' = [cmd EXCEPT ![c] = [step |-> "stopping", targets |-> Targets]]
            /\ signalled' = signalled \cup Targets
            /\ UNCHANGED pidFile
    /\ lived' = [lived EXCEPT ![c] = Discovered]
    /\ Overlap
    /\ UNCHANGED <<proc, lock, state, hidden, faults>>

Kill(c) ==
    /\ cmd[c].step = "stopping" /\ cmd[c].targets \cap Running # {}
    /\ To(c, "forcing")
    /\ signalled' = signalled \cup (cmd[c].targets \cap Running)
    /\ UNCHANGED <<proc, lock, files, ghosts, faults>>

GiveUp(c) ==
    /\ cmd[c].step = "forcing" /\ cmd[c].targets \cap Running # {}
    /\ Stopped(c)
    /\ lived' = [lived EXCEPT ![c] = {}]
    /\ UNCHANGED <<proc, lock, files, hidden, signalled, overlap, faults>>

Recorded(c) ==
    /\ cmd[c].step \in {"stopping", "forcing"} /\ cmd[c].targets \cap Running = {}
    /\ Stopped(c)
    /\ pidFile' = None
    /\ \E p \in cmd[c].targets : state' = [pid |-> p, status |-> "stopped"]
    /\ UNCHANGED <<proc, lock, signalled, ghosts, faults>>

-----------------------------------------------------------------------------
\* The service process: it looks for others, takes the lock, writes its files.
At(p, from, to) == proc[p] = from /\ proc' = [proc EXCEPT ![p] = to]

Check(p) ==
    /\ At(p, "launched", IF Discovered \subseteq {p} THEN "clear" ELSE "dead")
    /\ UNCHANGED <<lock, files, signalled, cmd, ghosts, faults>>

Acquire_Unlocked(p) ==
    /\ At(p, "clear", "locked")
    /\ lock' = p
    /\ UNCHANGED <<files, signalled, cmd, ghosts, faults>>

Acquire(p) ==
    /\ At(p, "clear", IF lock = None THEN "locked" ELSE "dead")
    /\ lock' = IF lock = None THEN p ELSE lock
    /\ UNCHANGED <<files, signalled, cmd, ghosts, faults>>

Serve(p) ==
    /\ At(p, "locked", "serving")
    /\ pidFile' = p /\ state' = [pid |-> p, status |-> "running"]
    /\ UNCHANGED <<lock, signalled, cmd, ghosts, faults>>

Fault(kind) == kind \in FaultKinds /\ faults < MaxFaults /\ faults' = faults + 1

\* The service raises: it takes its files back before it frees the lock.
Leave(p) ==
    /\ At(p, "serving", "leaving")
    /\ Fault("fails")
    /\ pidFile' = None /\ state' = [pid |-> p, status |-> "stopped"]
    /\ UNCHANGED <<lock, signalled, cmd, ghosts>>

Unlock_FilesLast(p) ==
    /\ At(p, "leaving", "dead")
    /\ lock' = None /\ pidFile' = None /\ state' = [pid |-> p, status |-> "stopped"]
    /\ UNCHANGED <<signalled, cmd, ghosts, faults>>

Unlock(p) ==
    /\ At(p, "leaving", "dead")
    /\ lock' = None
    /\ UNCHANGED <<files, signalled, cmd, ghosts, faults>>

\* A signal ends a process at once: it takes no file back.
Die(p) ==
    /\ p \in Running
    /\ \/ p \in signalled /\ UNCHANGED faults
       \/ Fault("killed")
    /\ proc' = [proc EXCEPT ![p] = "dead"]
    /\ lock' = IF lock = p THEN None ELSE lock
    /\ UNCHANGED <<files, signalled, cmd, ghosts>>

\* Another program gets the number of a process that is gone.
Reuse(p) ==
    /\ At(p, "dead", "other")
    /\ Fault("reused")
    /\ signalled' = signalled \ {p}
    /\ UNCHANGED <<lock, files, cmd, ghosts>>

-----------------------------------------------------------------------------
Init ==
    /\ proc = [p \in Procs |-> "none"]
    /\ lock = None
    /\ pidFile = None
    /\ state = [pid |-> None, status |-> "none"]
    /\ hidden = {} /\ signalled = {}
    /\ cmd = [c \in Commands |-> [step |-> "idle", targets |-> {}]]
    /\ lived = [c \in Commands |-> {}]
    /\ overlap = FALSE
    /\ faults = 0

Invoked(c) == Run(c) \/ Begin(c) \/ LookToStop(c)

AtItsWork(c) ==
    \/ Look(c) \/ Probed(c) \/ Launch(c) \/ Watch(c)
    \/ Kill(c) \/ GiveUp(c) \/ Recorded(c)

Own(p) == Check(p) \/ Acquire(p) \/ Serve(p) \/ Unlock(p)

Next ==
    \/ \E c \in Commands : Invoked(c) \/ AtItsWork(c)
    \/ \E p \in Procs : Own(p) \/ Leave(p) \/ Die(p) \/ Reuse(p)

\* Commands and processes run on; nobody needs to give a command.
Spec ==
    /\ Init /\ [][Next]_vars
    /\ WF_vars(\E c \in Commands : AtItsWork(c))
    /\ WF_vars(\E p \in Procs : Own(p))

-----------------------------------------------------------------------------
\* At most one process serves the role, whatever commands race and whichever
\* process is killed (lifecycle.py run_foreground_role_service).
OneService == Cardinality({p \in Procs : proc[p] \in {"locked", "serving"}}) <= 1

\* Commands given one after the other leave the files naming the process that
\* serves: what one that failed before it takes back is its own
\* (lifecycle.py run_foreground_role_service, _record_role_service_stopped).
ServiceIsKnown ==
    \A p \in Procs :
        proc[p] = "serving" /\ AtWork = {} /\ ~overlap =>
            pidFile = p /\ state = [pid |-> p, status |-> "running"]

\* A stop that does not report a timeout has ended every process of the service
\* that was there when it began, the ones no file names included
\* (lifecycle.py stop_background_role_service).
StopStopsAll ==
    \A c \in Commands :
        cmd[c].step \notin {"stopping", "forcing"} => lived[c] \cap Living = {}

\* One service, which files and commands know.
ServiceIsSingle == TypeOK /\ OneService /\ ServiceIsKnown /\ StopStopsAll

\* The process of a start that races with no other command gets to serve, if
\* nothing befalls it (lifecycle.py start_background_role_service).
StartServes ==
    \A n \in 0..MaxFaults :
        ~overlap /\ faults = n /\ (\E p \in Procs \ hidden : proc[p] = "launched")
            ~> \/ overlap \/ faults # n
               \/ \E p \in Living : proc[p] = "serving" \/ p \in signalled

=============================================================================
