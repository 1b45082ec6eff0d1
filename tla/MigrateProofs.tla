--------------------------- MODULE MigrateProofs ---------------------------
(* Proofs about Migrate, for every number of deployers and files.          *)
EXTENDS Migrate, TLAPS

-----------------------------------------------------------------------------
(* The inductive invariant                                                 *)

Loop == {"check", "apply", "record", "commit"}

\* Whoever is past the lock has it.
LockInv == \A d \in Deployer : pc[d] \in Loop \cup {"table"} => holder = d

\* The transaction of a deployer is where its program is.
TxInv ==
  \A d \in Deployer :
    tx[d] = CASE pc[d] = "record" -> {"body"}
              [] pc[d] = "commit" -> {"body", "row"}
              [] OTHER -> {}

\* The loop has left nothing behind it that is not on record.
AtFile(d) ==
  /\ pc[d] \in {"lock", "table"} => file[d] = 1
  /\ pc[d] \in Loop => /\ file[d] \in 1..image[d] + 1
                       /\ \A g \in File : g < file[d] => g \in recorded
  /\ pc[d] \in {"apply", "record", "commit"} =>
       file[d] \in 1..image[d] /\ file[d] \notin recorded

LoopInv == \A d \in Deployer : AtFile(d)

\* Files are applied in the order of their names and none is left out, though
\* runs from images of different ages follow or overtake each other and fail at
\* any file (sort.Strings, and Run returns at the first error).
InOrder ==
  \A f \in recorded : \A g \in File : g < f => g \in recorded

IInv ==
  /\ TypeOK /\ LockInv /\ TxInv /\ LoopInv
  /\ AppliedOnceIffRecorded /\ InOrder /\ DoneMeansApplied

LEMMA InitInv == Init => IInv
<1> SUFFICES ASSUME Init PROVE IInv
  OBVIOUS
<1> USE DEF Init
<1>1. TypeOK
  <2>1. /\ times \in [File -> Nat] /\ tx \in [Deployer -> SUBSET {"body", "row"}]
        /\ client \in [Deployer -> {"up", "lost", "over"}]
        /\ pc \in [Deployer -> PC]
    BY DEF PC
  <2>2. image \in [Deployer -> 0..N] /\ file \in [Deployer -> 0..N + 1]
    BY FilesAssumption
  <2>3. QED
    BY <2>1, <2>2 DEF TypeOK
<1>2. LockInv /\ TxInv /\ LoopInv
  BY DEF LockInv, TxInv, LoopInv, AtFile, Loop
<1>3. AppliedOnceIffRecorded /\ InOrder /\ DoneMeansApplied
  BY DEF AppliedOnceIffRecorded, InOrder, DoneMeansApplied
<1>4. QED
  BY <1>1, <1>2, <1>3 DEF IInv

-----------------------------------------------------------------------------
(* Steps that leave the database's files alone                             *)

\* d moves on or ends its run and commits nothing.
Moves(d) ==
  \/ \E n \in 0..N : Start(d, n)
  \/ Lock(d) \/ CreateTable(d) \/ CheckApplied(d) \/ CheckMissing(d)
  \/ ApplyBody(d) \/ Record(d) \/ Finish(d)
  \/ Fail(d) \/ Die(d) \/ SessionEnds(d)

LEMMA MovesType ==
  ASSUME IInv, NEW d \in Deployer, Moves(d)
  PROVE  TypeOK'
<1> USE FilesAssumption, DeployerAssumption
    DEF IInv, TypeOK, PC, database, Statement, Running, Released
<1>1. ASSUME NEW n \in 0..N, Start(d, n) PROVE TypeOK'
  BY <1>1 DEF Start
<1>2. ASSUME Lock(d) PROVE TypeOK'
  BY <1>2 DEF Lock
<1>3. ASSUME CreateTable(d) PROVE TypeOK'
  BY <1>3 DEF CreateTable
<1>4. ASSUME CheckApplied(d) PROVE TypeOK'
  BY <1>4 DEF CheckApplied
<1>5. ASSUME CheckMissing(d) PROVE TypeOK'
  BY <1>5 DEF CheckMissing
<1>6. ASSUME ApplyBody(d) PROVE TypeOK'
  BY <1>6 DEF ApplyBody
<1>7. ASSUME Record(d) PROVE TypeOK'
  BY <1>7 DEF Record
<1>8. ASSUME Finish(d) PROVE TypeOK'
  BY <1>8 DEF Finish
<1>9. ASSUME Fail(d) \/ Die(d) \/ SessionEnds(d) PROVE TypeOK'
  BY <1>9 DEF Fail, Die, SessionEnds
<1>10. QED
  BY <1>1, <1>2, <1>3, <1>4, <1>5, <1>6, <1>7, <1>8, <1>9 DEF Moves

\* Only d changes its place, its transaction and its file.
LEMMA MovesFrame ==
  ASSUME IInv, NEW d \in Deployer, Moves(d)
  PROVE  /\ times' = times /\ recorded' = recorded
         /\ \A e \in Deployer \ {d} :
              /\ pc'[e] = pc[e] /\ tx'[e] = tx[e]
              /\ file'[e] = file[e] /\ image'[e] = image[e]
              /\ holder = e => holder' = e
  BY DeployerAssumption DEF Moves, IInv, TypeOK, database, Statement, Released,
     Start, Lock, CreateTable, CheckApplied, CheckMissing, ApplyBody, Record,
     Finish, Fail, Die, SessionEnds

\* The invariants hold of d where it has got to.
LEMMA MovesOwn ==
  ASSUME IInv, NEW d \in Deployer, Moves(d)
  PROVE  /\ pc'[d] \in Loop \cup {"table"} => holder' = d
         /\ tx'[d] = CASE pc'[d] = "record" -> {"body"}
                       [] pc'[d] = "commit" -> {"body", "row"}
                       [] OTHER -> {}
         /\ AtFile(d)'
         /\ pc'[d] = "done" => 1..image'[d] \subseteq recorded
<1> DEFINE Own ==
      /\ pc'[d] \in Loop \cup {"table"} => holder' = d
      /\ tx'[d] = CASE pc'[d] = "record" -> {"body"}
                    [] pc'[d] = "commit" -> {"body", "row"}
                    [] OTHER -> {}
      /\ AtFile(d)'
      /\ pc'[d] = "done" => 1..image'[d] \subseteq recorded
<1> USE FilesAssumption
    DEF IInv, TypeOK, LockInv, TxInv, LoopInv, AtFile, Loop, File, PC, database,
        Statement, DoneMeansApplied
<1>1. ASSUME NEW n \in 0..N, Start(d, n) PROVE Own
  BY <1>1 DEF Start, Running
<1>2. ASSUME Lock(d) PROVE Own
  BY <1>2 DEF Lock
<1>3. ASSUME CreateTable(d) PROVE Own
  BY <1>3 DEF CreateTable
<1>4. ASSUME CheckApplied(d) PROVE Own
  BY <1>4 DEF CheckApplied
<1>5. ASSUME CheckMissing(d) PROVE Own
  BY <1>5 DEF CheckMissing
<1>6. ASSUME ApplyBody(d) PROVE Own
  BY <1>6 DEF ApplyBody
<1>7. ASSUME Record(d) PROVE Own
  BY <1>7 DEF Record
<1>8. ASSUME Finish(d) PROVE Own
  <2>1. pc[d] = "check" /\ pc' = [pc EXCEPT ![d] = "done"]
    BY <1>8 DEF Finish
  <2>2. ASSUME NEW g \in 1..image[d] PROVE g \in recorded
    BY <1>8, <2>1 DEF Finish
  <2>3. QED
    BY <1>8, <2>1, <2>2 DEF Finish
<1>9. ASSUME Fail(d) \/ SessionEnds(d) PROVE Own
  BY <1>9 DEF Fail, SessionEnds
<1>10. ASSUME Die(d) PROVE Own
  BY <1>10 DEF Die
<1>11. QED
  BY <1>1, <1>2, <1>3, <1>4, <1>5, <1>6, <1>7, <1>8, <1>9, <1>10 DEF Moves

LEMMA MovesInv ==
  ASSUME IInv, NEW d \in Deployer, Moves(d)
  PROVE  IInv'
<1>1. TypeOK'
  BY MovesType
<1>2. LockInv' /\ TxInv' /\ LoopInv' /\ DoneMeansApplied'
  BY MovesFrame, MovesOwn
  DEF IInv, LockInv, TxInv, LoopInv, AtFile, DoneMeansApplied, File
<1>3. AppliedOnceIffRecorded' /\ InOrder'
  BY MovesFrame DEF IInv, AppliedOnceIffRecorded, InOrder, File
<1>4. QED
  BY <1>1, <1>2, <1>3 DEF IInv

-----------------------------------------------------------------------------
(* The step that does not                                                  *)

\* The lock holder alone commits, the next file in order, body and row.
LEMMA CommitInv ==
  ASSUME IInv, NEW d \in Deployer, Commit(d)
  PROVE  IInv'
<1> USE FilesAssumption DEF IInv, Commit, Statement
<1>1. /\ pc[d] = "commit" /\ holder = d
      /\ file[d] \in File /\ file[d] \notin recorded
      /\ tx[d] = {"body", "row"}
  BY DEF LockInv, LoopInv, AtFile, TxInv, Loop, TypeOK, File
<1>2. recorded' = recorded \cup {file[d]}
  BY <1>1
<1>3. times' = [times EXCEPT ![file[d]] = @ + 1]
  BY <1>1
<1>4. TypeOK'
  <2>1. /\ times' \in [File -> Nat] /\ recorded' \subseteq File
        /\ tx' \in [Deployer -> SUBSET {"body", "row"}]
        /\ client' \in [Deployer -> {"up", "lost", "over"}]
        /\ pc' \in [Deployer -> PC]
    BY <1>1, <1>2, <1>3 DEF TypeOK, PC
  <2>2. file' \in [Deployer -> 0..N + 1]
    BY <1>1 DEF TypeOK, File
  <2>3. QED
    BY <2>1, <2>2 DEF TypeOK
<1>5. LockInv' /\ TxInv'
  BY <1>1 DEF LockInv, TxInv, Loop, TypeOK
<1>6. LoopInv'
  <2> SUFFICES ASSUME NEW e \in Deployer PROVE AtFile(e)'
    BY DEF LoopInv
  <2>1. CASE e = d
    <3>1. file'[d] = file[d] + 1 /\ image'[d] = image[d] /\ pc'[d] = "check"
      BY DEF TypeOK
    <3>2. file[d] \in 1..image[d] /\ image[d] \in 0..N
      BY <1>1 DEF LoopInv, AtFile, Loop, TypeOK, File
    <3>3. \A g \in File : g < file[d] + 1 => g \in recorded'
      BY <1>1, <1>2 DEF LoopInv, AtFile, Loop, File
    <3>4. QED
      BY <2>1, <3>1, <3>2, <3>3 DEF AtFile, Loop
  <2>2. CASE e # d
    <3>1. pc[e] \notin Loop
      BY <1>1, <2>2 DEF LockInv
    <3>2. QED
      BY <1>2, <2>2, <3>1 DEF LoopInv, AtFile, Loop, TypeOK
  <2>3. QED
    BY <2>1, <2>2
<1>7. AppliedOnceIffRecorded'
  BY <1>1, <1>2, <1>3 DEF AppliedOnceIffRecorded, TypeOK, File
<1>8. InOrder'
  BY <1>1, <1>2 DEF InOrder, LoopInv, AtFile, Loop, File, TypeOK
<1>9. DoneMeansApplied'
  BY <1>1, <1>2 DEF DoneMeansApplied, TypeOK
<1>10. QED
  BY <1>4, <1>5, <1>6, <1>7, <1>8, <1>9

-----------------------------------------------------------------------------
(* Refinement of MigrationLog                                              *)

\* What a step of a deployer that commits nothing is in the log.
LEMMA MovesStatus ==
  ASSUME IInv, NEW d \in Deployer, Moves(d)
  PROVE  \/ UNCHANGED Log!mvars
         \/ \E n \in 0..N : Log!Ask(d, n)
         \/ Log!Succeed(d)
         \/ Log!GiveUp(d)
<1> DEFINE Refines == \/ UNCHANGED Log!mvars
                      \/ \E n \in 0..N : Log!Ask(d, n)
                      \/ Log!Succeed(d)
                      \/ Log!GiveUp(d)
<1> USE DEF IInv, TypeOK, PC, Statement, database, Status, Running
<1>1. ASSUME NEW n \in 0..N, Start(d, n) PROVE Log!Ask(d, n)
  BY <1>1 DEF Start, Log!Ask
<1>2. ASSUME UNCHANGED <<times, recorded, image>>,
             Statement(d, pc[d], pc'[d]), Running(d), Running(d)'
      PROVE  UNCHANGED Log!mvars
  BY <1>2 DEF Log!mvars
<1>3. CASE Lock(d)
  BY <1>2, <1>3 DEF Lock
<1>4. CASE CreateTable(d)
  BY <1>2, <1>4 DEF CreateTable
<1>5. CASE CheckApplied(d)
  BY <1>2, <1>5 DEF CheckApplied
<1>6. CASE CheckMissing(d)
  BY <1>2, <1>6 DEF CheckMissing
<1>7. CASE ApplyBody(d)
  BY <1>2, <1>7 DEF ApplyBody
<1>8. CASE Record(d)
  BY <1>2, <1>8 DEF Record
<1>9. CASE Finish(d)
  <2>1. 1..image[d] \subseteq recorded
    BY <1>9, FilesAssumption DEF Finish, LoopInv, AtFile, Loop, File
  <2>2. CASE client[d] = "up"
    BY <1>9, <2>1, <2>2 DEF Finish, Log!Succeed
  <2>3. CASE client[d] # "up"
    BY <1>9, <2>3 DEF Finish, Log!mvars
  <2>4. QED
    BY <2>2, <2>3
<1>10. CASE Fail(d) \/ SessionEnds(d)
  BY <1>10 DEF Fail, SessionEnds, Log!GiveUp
<1>11. CASE Die(d)
  BY <1>11 DEF Die, Log!mvars
<1>12. QED
  BY <1>1, <1>3, <1>4, <1>5, <1>6, <1>7, <1>8, <1>9, <1>10, <1>11 DEF Moves

\* A commit adds the next file.
LEMMA CommitAdds ==
  ASSUME IInv, NEW d \in Deployer, Commit(d)
  PROVE  Log!AddNext(d, file[d]) /\ file[d] \in 1..N
<1> USE FilesAssumption DEF IInv, Commit, Statement
<1>1. /\ pc[d] = "commit" /\ tx[d] = {"body", "row"}
      /\ file[d] \in 1..image[d] /\ file[d] \in 1..N /\ file[d] \notin recorded
      /\ \A g \in 1..N : g < file[d] => g \in recorded
  BY DEF LoopInv, AtFile, TxInv, Loop, TypeOK, File
<1>2. Status[d] = "running" /\ Status' = Status
  BY <1>1 DEF Status, Running, TypeOK, PC
<1>3. QED
  BY <1>1, <1>2 DEF Log!AddNext, TypeOK

-----------------------------------------------------------------------------
(* Theorems                                                                *)

THEOREM Invariant == Spec => []IInv
<1>1. IInv /\ [Next]_vars => IInv'
  <2> SUFFICES ASSUME IInv, [Next]_vars PROVE IInv'
    OBVIOUS
  <2>1. CASE UNCHANGED vars
    BY <2>1 DEF vars, IInv, TypeOK, LockInv, TxInv, LoopInv, AtFile,
       AppliedOnceIffRecorded, InOrder, DoneMeansApplied
  <2>2. CASE Next
    BY <2>2, MovesInv, CommitInv DEF Next, Proceed, Moves
  <2>3. QED
    BY <2>1, <2>2
<1>2. QED
  BY InitInv, <1>1, PTL DEF Spec

\* The types, for any number of deployers and files.
THEOREM TypeCorrect == Spec => []TypeOK
  BY Invariant, PTL DEF IInv

\* A file is on record exactly if it took effect, and then once, whatever died
\* or failed in between.
THEOREM FilesAppliedOnce == Spec => []AppliedOnceIffRecorded
  BY Invariant, PTL DEF IInv

\* Files are applied in the order of their names.
THEOREM FilesInOrder == Spec => []InOrder
  BY Invariant, PTL DEF IInv

\* A run that exits with 0 leaves all its files applied.
THEOREM DoneRunsAreComplete == Spec => []DoneMeansApplied
  BY Invariant, PTL DEF IInv

\* No two deployers are in the loop at once, and what one found missing stays
\* missing until it commits.
THEOREM ChecksStayTrue == Spec => []CheckStillTrue
<1>1. IInv => CheckStillTrue
  BY DEF IInv, CheckStillTrue, LockInv, LoopInv, AtFile, Loop, TypeOK, PC
<1>2. QED
  BY <1>1, Invariant, PTL

\* Overlapping, failing and dying runs are as good as single steps that each
\* apply and record the next file.
THEOREM RunsImplementLog == Spec => ImplementsLog
<1>1. Init => Log!MInit
  BY DEF Init, Log!MInit, Status, Running, File
<1>2. IInv /\ [Next]_vars => [Log!MNext]_(Log!mvars)
  <2> SUFFICES ASSUME IInv, [Next]_vars PROVE [Log!MNext]_(Log!mvars)
    OBVIOUS
  <2>1. CASE UNCHANGED vars
    BY <2>1 DEF vars, Log!mvars, Status, Running
  <2>2. ASSUME NEW d \in Deployer, Moves(d)
        PROVE  [Log!MNext]_(Log!mvars)
    BY <2>2, MovesStatus DEF Log!MNext
  <2>3. ASSUME NEW d \in Deployer, Commit(d)
        PROVE  Log!MNext
    BY <2>3, CommitAdds DEF Log!MNext
  <2>4. QED
    BY <2>1, <2>2, <2>3 DEF Next, Proceed, Moves
<1>3. QED
  BY <1>1, <1>2, Invariant, PTL DEF Spec, ImplementsLog, Log!MSpec

=============================================================================
