---------------------------- MODULE MCRoleService ----------------------------
\* A run of all roles, and a start, a stop and a restart of one.
EXTENDS RoleService

CONSTANTS start, run, stop, restart

MCKind == [c \in Commands |-> CASE c = stop -> "stop" [] c = restart -> "restart" [] c = run -> "run" [] OTHER -> "start"]

=============================================================================
