------------------------------ MODULE Migrate ------------------------------
(***************************************************************************)
(* The migration runner (internal/migrate, run by cmd/migrate).            *)
(*                                                                         *)
(* A deployer runs the files of its image in the order of their names,     *)
(* each in a transaction of its own that also records it, over one         *)
(* connection that holds a session-level advisory lock.  Several deployers *)
(* may run at once, from images of different ages, and each may be run     *)
(* again after it ended.                                                   *)
(*                                                                         *)
(* A deployer that is killed, interrupted by SIGTERM or out of its five    *)
(* minutes leaves its server process behind: the statement it had sent may *)
(* still be executed, and only then does PostgreSQL notice, roll back and  *)
(* release the lock.                                                       *)
(*                                                                         *)
(* Files are numbered in name order.  An image holds a prefix of them, as  *)
(* migrations are append-only.                                             *)
(***************************************************************************)
EXTENDS Naturals

CONSTANTS Deployer,     \* places cmd/migrate is run from
          N,            \* how many files there are in the newest image
          None

ASSUME DeployerAssumption == None \notin Deployer
ASSUME FilesAssumption == N \in Nat

VARIABLES
  (* The database *)
  table,      \* schema_migrations exists
  times,      \* file -> how many times its body took effect
  recorded,   \* files in schema_migrations
  holder,     \* the session that holds the advisory lock
  (* The sessions *)
  tx,         \* d -> what its open transaction did: "body", "row"
  client,     \* d -> "up"; "lost": gone, one statement of it is still out;
              \*      "over": gone, nothing of it is left to execute
  (* The deployers *)
  image,      \* d -> its image holds files 1..image[d]
  file,       \* d -> the file its loop is at
  pc          \* d -> the statement that comes next

database == <<table, times, recorded>>
vars == <<table, times, recorded, holder, tx, client, image, file, pc>>

File == 1..N

\* "done" is exit code 0; failed runs are back at "idle".
PC == {"idle", "lock", "table", "check", "apply", "record", "commit", "done"}

TypeOK ==
  /\ table \in BOOLEAN
  /\ times \in [File -> Nat]
  /\ recorded \subseteq File
  /\ holder \in Deployer \cup {None}
  /\ tx \in [Deployer -> SUBSET {"body", "row"}]
  /\ client \in [Deployer -> {"up", "lost", "over"}]
  /\ image \in [Deployer -> 0..N]
  /\ file \in [Deployer -> 0..N + 1]
  /\ pc \in [Deployer -> PC]

Init ==
  /\ table = FALSE
  /\ times = [f \in File |-> 0]
  /\ recorded = {}
  /\ holder = None
  /\ tx = [d \in Deployer |-> {}]
  /\ client = [d \in Deployer |-> "up"]
  /\ image = [d \in Deployer |-> 0]
  /\ file = [d \in Deployer |-> 0]
  /\ pc = [d \in Deployer |-> "idle"]

-----------------------------------------------------------------------------
(* Helpers *)

Running(d) == pc[d] \notin {"idle", "done"}

\* The server executes the statement of d at `from`; `to` is the next one.
\* Of a deployer that is gone it executes no other.
Statement(d, from, to) ==
  /\ pc[d] = from
  /\ client[d] # "over"
  /\ pc' = [pc EXCEPT ![d] = to]
  /\ client' = [client EXCEPT ![d] = IF @ = "lost" THEN "over" ELSE @]

\* The lock goes with the session that holds it.
Released(d) == IF holder = d THEN None ELSE holder

-----------------------------------------------------------------------------
(* One run *)

\* cmd/migrate is started, in an image with n files.
Start(d, n) ==
  /\ ~ Running(d) /\ client[d] = "up"
  /\ pc' = [pc EXCEPT ![d] = "lock"]
  /\ image' = [image EXCEPT ![d] = n]
  /\ file' = [file EXCEPT ![d] = 1]
  /\ UNCHANGED <<database, holder, tx, client>>

\* Mutant: pg_try_advisory_lock, its result not looked at.
LockUnchecked(d) ==
  /\ Statement(d, "lock", "table")
  /\ holder' = IF holder = None THEN d ELSE holder
  /\ UNCHANGED <<database, tx, image, file>>

\* SELECT pg_advisory_lock: waits for the lock.
Lock(d) ==
  /\ Statement(d, "lock", "table")
  /\ holder = None
  /\ holder' = d
  /\ UNCHANGED <<database, tx, image, file>>

\* CREATE TABLE IF NOT EXISTS, then the files are listed.
CreateTable(d) ==
  /\ Statement(d, "table", "check")
  /\ table' = TRUE
  /\ UNCHANGED <<times, recorded, holder, tx, image, file>>

\* Mutant: the loop runs one past the last file.
CheckAppliedPastEnd(d) ==
  /\ Statement(d, "check", "check")
  /\ file[d] <= image[d] + 1 /\ (file[d] <= image[d] => file[d] \in recorded)
  /\ file' = [file EXCEPT ![d] = @ + 1]
  /\ UNCHANGED <<database, holder, tx, image>>

\* A file on record is skipped.
CheckApplied(d) ==
  /\ Statement(d, "check", "check")
  /\ file[d] <= image[d] /\ file[d] \in recorded
  /\ file' = [file EXCEPT ![d] = @ + 1]
  /\ UNCHANGED <<database, holder, tx, image>>

\* Any other is read, and its transaction begun.
CheckMissing(d) ==
  /\ Statement(d, "check", "apply")
  /\ file[d] <= image[d] /\ file[d] \notin recorded
  /\ UNCHANGED <<database, holder, tx, image, file>>

\* Mutant: the body is run on the connection, outside of the transaction.
ApplyBodyOutside(d) ==
  /\ Statement(d, "apply", "record")
  /\ times' = [times EXCEPT ![file[d]] = @ + 1]
  /\ UNCHANGED <<table, recorded, holder, tx, image, file>>

\* tx.Exec(body): all statements of the file.
ApplyBody(d) ==
  /\ Statement(d, "apply", "record")
  /\ tx' = [tx EXCEPT ![d] = @ \cup {"body"}]
  /\ UNCHANGED <<database, holder, image, file>>

\* INSERT INTO schema_migrations; the version is its primary key.
Record(d) ==
  /\ Statement(d, "record", "commit")
  /\ file[d] \notin recorded
  /\ tx' = [tx EXCEPT ![d] = @ \cup {"row"}]
  /\ UNCHANGED <<database, holder, image, file>>

Commit(d) ==
  /\ Statement(d, "commit", "check")
  /\ times' = [times EXCEPT ![file[d]] = IF "body" \in tx[d] THEN @ + 1 ELSE @]
  /\ recorded' = IF "row" \in tx[d] THEN recorded \cup {file[d]} ELSE recorded
  /\ tx' = [tx EXCEPT ![d] = {}]
  /\ file' = [file EXCEPT ![d] = @ + 1]
  /\ UNCHANGED <<table, holder, image>>

\* Mutant: the loop stops before the last file.
FinishEarly(d) ==
  /\ Statement(d, "check", "done")
  /\ file[d] >= image[d]
  /\ holder' = Released(d)
  /\ UNCHANGED <<database, tx, image, file>>

\* The loop is over: unlock, close, exit.
Finish(d) ==
  /\ Statement(d, "check", "done")
  /\ file[d] > image[d]
  /\ holder' = Released(d)
  /\ UNCHANGED <<database, tx, image, file>>

-----------------------------------------------------------------------------
(* Failures *)

\* Mutant: the error of a file is logged and the loop goes on.
FailContinues(d) ==
  /\ pc[d] \in {"apply", "record", "commit"} /\ client[d] = "up"
  /\ tx' = [tx EXCEPT ![d] = {}]
  /\ pc' = [pc EXCEPT ![d] = "check"]
  /\ file' = [file EXCEPT ![d] = @ + 1]
  /\ UNCHANGED <<database, holder, client, image>>

\* Mutant: neither unlocked nor closed, in a process that lives on.
FailKeepsSession(d) ==
  /\ Running(d) /\ client[d] = "up"
  /\ tx' = [tx EXCEPT ![d] = {}]
  /\ pc' = [pc EXCEPT ![d] = "idle"]
  /\ UNCHANGED <<database, holder, client, image, file>>

\* A statement, or reading a file, fails: Run returns its error; the deferred
\* calls roll back, unlock and close.
Fail(d) ==
  /\ Running(d) /\ client[d] = "up"
  /\ tx' = [tx EXCEPT ![d] = {}]
  /\ holder' = Released(d)
  /\ pc' = [pc EXCEPT ![d] = "idle"]
  /\ UNCHANGED <<database, client, image, file>>

\* The deployer is killed, or its context ends while a statement is out, which
\* closes the connection.
Die(d) ==
  /\ Running(d) /\ client[d] = "up"
  /\ client' = [client EXCEPT ![d] = "lost"]
  /\ UNCHANGED <<database, holder, tx, image, file, pc>>

\* PostgreSQL notices: the session is gone, with its transaction and its lock.
SessionEnds(d) ==
  /\ client[d] # "up"
  /\ client' = [client EXCEPT ![d] = "up"]
  /\ tx' = [tx EXCEPT ![d] = {}]
  /\ holder' = Released(d)
  /\ pc' = [pc EXCEPT ![d] = "idle"]
  /\ UNCHANGED <<database, image, file>>

-----------------------------------------------------------------------------
(* The loop of Run and what follows it *)
Proceed(d) ==
  \/ CreateTable(d) \/ CheckApplied(d) \/ CheckMissing(d)
  \/ ApplyBody(d) \/ Record(d) \/ Commit(d) \/ Finish(d)

Next ==
  \E d \in Deployer :
    \/ \E n \in 0..N : Start(d, n)
    \/ Lock(d)
    \/ Proceed(d)
    \/ Fail(d)
    \/ Die(d)
    \/ SessionEnds(d)

Spec == Init /\ [][Next]_vars

\* Statements end, waiters for the lock are queued, dead sessions are noticed.
FairSpec ==
  /\ Spec
  /\ \A d \in Deployer :
       WF_vars(Proceed(d)) /\ SF_vars(Lock(d)) /\ WF_vars(SessionEnds(d))

-----------------------------------------------------------------------------
(* Properties *)

\* Whatever dies when, a file on record has taken effect exactly once, and a
\* file not on record has left no trace: a later run neither skips a file that
\* was lost nor repeats one (applyOne: one transaction for both).
AppliedOnceIffRecorded ==
  \A f \in File : times[f] = IF f \in recorded THEN 1 ELSE 0

\* "The lock stops two deployers from applying the same file twice": what a
\* deployer found missing is still missing until it commits, and no other
\* deployer is in the loop (pg_advisory_lock, migrate.go:15).
CheckStillTrue ==
  \A d \in Deployer : pc[d] \in {"apply", "record", "commit"} =>
    /\ file[d] \notin recorded
    /\ \A e \in Deployer \ {d} : pc[e] \in {"idle", "lock", "done"}

\* "migrations up to date": a deployer that exits with 0 leaves a database that
\* has all files of its image, also those that were being applied by another
\* when it started.
DoneMeansApplied ==
  \A d \in Deployer : pc[d] = "done" => 1..image[d] \subseteq recorded

\* No run hangs: whoever holds the lock and dies, gives up or ends in any other
\* way leaves it to the next (defers of Run, session-level lock).
RunsEnd == \A d \in Deployer : Running(d) ~> ~ Running(d)

\* What a deployer's user knows of its run: one that was killed has not ended
\* before PostgreSQL has noticed, though all its statements may have.
Status ==
  [d \in Deployer |->
     IF client[d] # "up" \/ Running(d) THEN "running" ELSE pc[d]]

Log == INSTANCE MigrationLog
         WITH effects <- times, log <- recorded, wanted <- image,
              status <- Status

\* Runs that overlap, fail and die at any statement behave as if each file were
\* applied and recorded in one step, in order, by a run that has it, and as if
\* success were a look at all of one's files (Run and applyOne).
ImplementsLog == Log!MSpec

=============================================================================
