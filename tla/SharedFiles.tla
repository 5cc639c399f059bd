------------------------------ MODULE SharedFiles ------------------------------
(***************************************************************************)
(* The lock of a file, and five components of which processes share a file. *)
(* They share no variable: a behaviour is one of any of them, chosen by     *)
(* "part", and the others stay as they begin.                               *)
(***************************************************************************)
EXTENDS FileLock, Wire, Accounts, DataMigration, Servers, WakeSequences

VARIABLE part

Parts == {"lock", "wire", "accounts", "migration", "servers", "sequences"}

allVars == <<part, vars, wireVars, accountsVars, migrationVars, serversVars, wakeVars>>

\* What a part may begin with is fixed while another is looked at.
SharedInit ==
    /\ part \in Parts
    /\ Init /\ WireInit /\ AccountsInit
    /\ MigrationInit
    /\ part # "migration" => misplaced = Missing /\ \A y \in Old \X File : old[y] = Missing
    /\ ServersInit
    /\ part # "servers" => \A p \in Protocol : ~settings[p].enabled
    /\ WakeInit
    /\ part # "sequences" => steps = << >>

SharedNext ==
    \/ /\ part = "lock" /\ Next
       /\ UNCHANGED <<part, wireVars, accountsVars, migrationVars, serversVars, wakeVars>>
    \/ /\ part = "wire" /\ WireNext
       /\ UNCHANGED <<part, vars, accountsVars, migrationVars, serversVars, wakeVars>>
    \/ /\ part = "accounts" /\ AccountsNext
       /\ UNCHANGED <<part, vars, wireVars, migrationVars, serversVars, wakeVars>>
    \/ /\ part = "migration" /\ MigrationNext
       /\ UNCHANGED <<part, vars, wireVars, accountsVars, serversVars, wakeVars>>
    \/ /\ part = "servers" /\ ServersNext
       /\ UNCHANGED <<part, vars, wireVars, accountsVars, migrationVars, wakeVars>>
    \/ /\ part = "sequences" /\ WakeNext
       /\ UNCHANGED <<part, vars, wireVars, accountsVars, migrationVars, serversVars>>
    \/ part \notin {"lock", "servers"} /\ UNCHANGED allVars   \* bounds end the others

SharedSpec == SharedInit /\ [][SharedNext]_allVars /\ ServersFairness

\* The part that is looked at has its types.
TypesOK ==
    /\ part \in Parts
    /\ part = "wire" => WireTypeOK
    /\ part = "accounts" => AccountsTypeOK
    /\ part = "migration" => MigrationTypeOK
    /\ part = "servers" => ServersTypeOK
    /\ part = "sequences" => WakeTypeOK
================================================================================
