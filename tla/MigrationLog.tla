---------------------------- MODULE MigrationLog ----------------------------
(***************************************************************************)
(* What the migration runner promises, without sessions, statements or     *)
(* locks.                                                                  *)
(*                                                                         *)
(* The database is a log of files, which grows by the next file, in the    *)
(* order of their names, in one step in which the file takes effect and is *)
(* recorded.  Only a deployer that runs and has the file adds it.  A run   *)
(* succeeds when the log holds all of its files, and may give up whenever  *)
(* it likes.                                                               *)
(***************************************************************************)
EXTENDS Naturals

CONSTANTS Deployer, N

VARIABLES
  effects,    \* file -> how many times it took effect
  log,        \* files recorded
  wanted,     \* d -> its run is about files 1..wanted[d]
  status      \* d -> "idle", "running", "done"

mvars == <<effects, log, wanted, status>>

MInit ==
  /\ effects = [f \in 1..N |-> 0]
  /\ log = {}
  /\ wanted = [d \in Deployer |-> 0]
  /\ status = [d \in Deployer |-> "idle"]

Ask(d, n) ==
  /\ status[d] # "running"
  /\ status' = [status EXCEPT ![d] = "running"]
  /\ wanted' = [wanted EXCEPT ![d] = n]
  /\ UNCHANGED <<effects, log>>

\* The next file that is missing, for d.
AddNext(d, f) ==
  /\ status[d] = "running"
  /\ f <= wanted[d]
  /\ f \notin log /\ \A g \in 1..N : g < f => g \in log
  /\ log' = log \cup {f}
  /\ effects' = [effects EXCEPT ![f] = @ + 1]
  /\ UNCHANGED <<wanted, status>>

Succeed(d) ==
  /\ status[d] = "running"
  /\ 1..wanted[d] \subseteq log
  /\ status' = [status EXCEPT ![d] = "done"]
  /\ UNCHANGED <<effects, log, wanted>>

GiveUp(d) ==
  /\ status[d] = "running"
  /\ status' = [status EXCEPT ![d] = "idle"]
  /\ UNCHANGED <<effects, log, wanted>>

MNext ==
  \E d \in Deployer :
    \/ \E n \in 0..N : Ask(d, n)
    \/ \E f \in 1..N : AddNext(d, f)
    \/ Succeed(d)
    \/ GiveUp(d)

MSpec == MInit /\ [][MNext]_mvars

=============================================================================
