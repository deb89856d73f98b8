---------------------------- MODULE HookRegistry ----------------------------
(***************************************************************************)
(* What InstallHooks and UninstallHooks promise the consumers of the       *)
(* library (install.go): a table that says, per agent and consumer, which  *)
(* endpoint its hooks post to.  No files, no locks, no backups.            *)
(*                                                                         *)
(* Several slots share a file, and the user may write the files as well.   *)
(* Installer.tla is shown to implement this module.                        *)
(***************************************************************************)
CONSTANTS
  Procs,      \* processes that install and uninstall
  Slots,      \* an agent and a consumer
  FileOf,     \* the file a slot is kept in
  Endpoints,
  Unknown,    \* what a user's edit in the middle of an operation has left
  None        \* a process that does nothing

VARIABLES
  hooked,  \* per slot: the endpoints its hooks post to; none, one, or {Unknown}
  told,    \* per slot: what the last call that had its way said of it
  doing    \* per process: the slot it works on, what for, and whether it has changed it

registryVars == <<hooked, told, doing>>

RegistryInit ==
  /\ hooked = [s \in Slots |-> {}] /\ told = [s \in Slots |-> {}]
  /\ doing = [p \in Procs |-> None]

Operations == [slot : Slots, value : {{}} \cup {{e} : e \in Endpoints}, done : {FALSE}]

Busy(f) == \E p \in Procs : doing[p] # None /\ FileOf[doing[p].slot] = f

\* A process starts on one agent, when nobody else works on that file.
Begin(p) ==
  /\ doing[p] = None /\ doing'[p] \in Operations
  /\ ~Busy(FileOf[doing'[p].slot])
  /\ doing' = [doing EXCEPT ![p] = doing'[p]]
  /\ UNCHANGED <<hooked, told>>

\* The change: this slot and no other.
Effect(p) ==
  /\ doing[p] # None /\ ~doing[p].done
  /\ doing' = [doing EXCEPT ![p].done = TRUE]
  /\ hooked' = [hooked EXCEPT ![doing[p].slot] = IF @ = {Unknown} THEN @ ELSE doing[p].value]
  /\ UNCHANGED told

\* Success: the change is made, or was not needed.  (A process that dies when it has made
\* its change has had its way, too.)
Succeed(p) ==
  /\ doing[p] # None
  /\ doing[p].done \/ hooked[doing[p].slot] \in {doing[p].value, {Unknown}}
  /\ told' = [told EXCEPT ![doing[p].slot] = doing[p].value]
  /\ doing' = [doing EXCEPT ![p] = None]
  /\ UNCHANGED hooked

\* It fails, or dies, and has changed nothing.
GiveUp(p) ==
  /\ doing[p] # None /\ ~doing[p].done
  /\ doing' = [doing EXCEPT ![p] = None]
  /\ UNCHANGED <<hooked, told>>

Cleared(table, f) == [s \in Slots |-> IF FileOf[s] = f THEN {} ELSE table[s]]

\* The user puts a version of his own in place of a file nobody works on ...
UserReplaces(f) ==
  /\ ~Busy(f)
  /\ hooked' = [s \in Slots |-> IF hooked[s] = {Unknown} THEN {Unknown} ELSE Cleared(hooked, f)[s]]
  /\ told' = Cleared(told, f)

\* ... or writes one that somebody is editing, and nothing is promised for it any more.
UserInterferes(f) ==
  /\ Busy(f)
  /\ hooked' = [s \in Slots |-> IF FileOf[s] = f THEN {Unknown} ELSE hooked[s]]
  /\ told' \in {told, Cleared(told, f)}

UserWrites ==
  /\ UNCHANGED doing
  /\ \E s \in Slots : UserReplaces(FileOf[s]) \/ UserInterferes(FileOf[s])

RegistryNext ==
  \/ \E p \in Procs : Begin(p) \/ Effect(p) \/ Succeed(p) \/ GiveUp(p)
  \/ UserWrites

RegistrySpec == RegistryInit /\ [][RegistryNext]_registryVars
=============================================================================
