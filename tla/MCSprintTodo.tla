---------------------------- MODULE MCSprintTodo ----------------------------
(* Two todos, the second ranked after the first, and recovery todos in reserve. *)
EXTENDS SprintTodo

CONSTANTS build, use, fix1, fix2, kick, more

MCTodos == {build, use, fix1, fix2}
MCRecovery == {fix1, fix2}
MCKickoff == {kick}
MCWishes == {more}
MCImplements == [t \in MCTodos \ MCRecovery |-> IF t = use THEN {kick} ELSE {}]
MCRank == [t \in MCTodos |-> IF t = use THEN 2 ELSE 1]
=============================================================================
