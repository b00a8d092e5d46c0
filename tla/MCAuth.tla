------------------------------- MODULE MCAuth -------------------------------
(***************************************************************************)
(* The start of the server, its sessions and the login limiter, for TLC: a *)
(* behaviour picks one of them and the others rest.                        *)
(***************************************************************************)
EXTENDS Sessions, LoginLimiter, Startup, TLC

VARIABLE part

authVars == <<part, vars, limiterVars, bootVars>>

Shell == {"terminal.shell"}

\* The parameters of a start that does not happen are of no interest.
AuthInit ==
  /\ Init /\ LimiterInit /\ BootInit
  /\ part \in {"sessions", "limiter", "startup"}
  /\ part # "startup" => db.applied = {}

AuthNext ==
  \/ part = "sessions" /\ Next /\ UNCHANGED <<part, limiterVars, bootVars>>
  \/ part = "limiter" /\ LimiterNext /\ UNCHANGED <<part, vars, bootVars>>
  \/ part = "startup" /\ BootNext /\ UNCHANGED <<part, vars, limiterVars>>

AuthSpec == AuthInit /\ [][AuthNext]_authVars

(* The variables of the three keep their types: among others, every stored *)
(* session is one that was signed, every login being checked has a user,   *)
(* and a database is never past the last migration.                        *)
AuthTypeOK == TypeOK /\ LimiterTypeOK /\ BootTypeOK

Symmetry == Permutations(Slots) \union Permutations(Attempts)
=============================================================================
