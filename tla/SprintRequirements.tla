------------------------ MODULE SprintRequirements ------------------------
(***************************************************************************)
(* The requirements of a sprint (workflows/sprints/lifecycle.py): what its *)
(* kickoff asked for and what users ask for on top while it runs.  A wish  *)
(* is a candidate of the sprint until the planner, at a checkpoint, takes  *)
(* it up as a requirement, merges it into one or rejects it; what is left  *)
(* at the end expires.  Every requirement that counts at closeout must be  *)
(* implemented by a todo that is done.                                     *)
(*                                                                         *)
(* The ledger of a copy of the sprint has the fate of each wish's          *)
(* candidate, and the wishes that became requirements.                     *)
(***************************************************************************)
EXTENDS Naturals, FiniteSets

CONSTANTS
    Wishes,    \* what users may ask for during the sprint, each once
    Kickoff    \* the requirements of the kickoff

ASSUME RequirementsAssumption == Wishes \cap Kickoff = {}

Fates == {"none", "pending", "registered", "merged", "rejected", "expired"}
Ledger == [fate : [Wishes -> Fates], required : SUBSET Wishes]
NewLedger == [fate |-> [w \in Wishes |-> "none"], required |-> {}]

Pending(ledger) == {w \in Wishes : ledger.fate[w] = "pending"}

Captured(ledger, w) == [ledger EXCEPT !.fate[w] = "pending"]

\* The requirements that closeout looks at.
Requirements(ledger) == Kickoff \cup ledger.required

-----------------------------------------------------------------------------
(* The planner's answer: apply_requirement_candidate_reconciliation.       *)

\* The decisions it may bring on a candidate.  They are applied in this order
\* and none looks at those before, so a candidate may be registered and then
\* merged or rejected; its requirement stays.
Decisions == SUBSET {"registered", "merged", "rejected"}

Decided(decisions) ==
    IF "rejected" \in decisions THEN "rejected"
    ELSE IF "merged" \in decisions THEN "merged"
    ELSE IF "registered" \in decisions THEN "registered"
    ELSE "pending"

\* Candidates it defers or does not mention stay as they are; so do all of them
\* when it brings no reconciliation.  A requirement it registers as optional is
\* none that closeout looks at; nor is one whose text is already a requirement's.
Reconciled_Mentioned(ledger) ==
    {[fate |-> [w \in Wishes |-> IF w \notin Pending(ledger) THEN ledger.fate[w]
                                 ELSE IF answer[w] = {} THEN "none" ELSE Decided(answer[w])],
      required |-> ledger.required \cup must]
     : answer \in [Pending(ledger) -> Decisions], must \in SUBSET Pending(ledger)}

Reconciled(ledger) ==
    UNION {{[fate |-> [w \in Wishes |-> IF w \in Pending(ledger) THEN Decided(answer[w])
                                        ELSE ledger.fate[w]],
             required |-> ledger.required \cup must]
            : must \in SUBSET {w \in Pending(ledger) : "registered" \in answer[w]}}
           : answer \in [Pending(ledger) -> Decisions]}

\* archive_pending_requirement_candidates, when the sprint ends.
Expired_Kept(ledger) == ledger
Expired(ledger) ==
    [ledger EXCEPT !.fate = [w \in Wishes |-> IF @[w] = "pending" THEN "expired" ELSE @[w]]]

=============================================================================
