---------------------------- MODULE RequestTurns ----------------------------
(***************************************************************************)
(* What the orchestrator and the roles promise about one request,          *)
(* whatever carries their messages: one role holds the request at a time,  *)
(* it does the work of its turn, and only then is the request handed on,   *)
(* closed or blocked, once.  The promise ends when copies or answers of    *)
(* different turns cross.  RequestRelay implements this.                   *)
(***************************************************************************)
EXTENDS Naturals

CONSTANTS Roles,      \* the roles that may hold the request
          FirstRole,  \* the one it is delegated to first
          MaxTurns    \* bound of the model: turns taken at most

VARIABLES status, holder, turn, worked,
          crossed     \* nothing is promised any more

vars == <<status, holder, turn, worked, crossed>>

Init ==
    /\ status = "delegated"
    /\ holder = FirstRole
    /\ turn = 1
    /\ worked = {}
    /\ crossed = FALSE

Open == status \in {"delegated", "blocked"}

\* The holder does the work it was given for this turn, without asking whether
\* it is still wanted.
Work ==
    /\ worked' = worked \cup {turn}
    /\ UNCHANGED <<status, holder, turn>>

\* A blocked request stays with its holder, who may still report otherwise.
HandOn(role) ==
    /\ Open /\ turn \in worked /\ turn < MaxTurns
    /\ status' = "delegated"
    /\ holder' = role
    /\ turn' = turn + 1
    /\ UNCHANGED worked

Settle(outcome) ==
    /\ Open /\ turn \in worked
    /\ status' = outcome
    /\ holder' = IF outcome = "completed" THEN "orchestrator" ELSE holder
    /\ UNCHANGED <<turn, worked>>

\* The requester may cancel at any time.
Withdraw ==
    /\ status' = "cancelled"
    /\ UNCHANGED <<holder, turn, worked>>

Advance ==
    \/ Work
    \/ \E role \in Roles : HandOn(role)
    \/ \E outcome \in {"blocked", "completed"} : Settle(outcome)

Kept == ~crossed /\ crossed' = FALSE /\ (Advance \/ Withdraw)

Lapse == crossed' = TRUE

Next == Kept \/ Lapse

Progress == status = "delegated" /\ Kept

Spec == Init /\ [][Next]_vars /\ WF_vars(Progress)
=============================================================================
