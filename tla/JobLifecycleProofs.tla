------------------------- MODULE JobLifecycleProofs -------------------------
(* Theorems about JobLifecycle, for any number of jobs and process numbers,  *)
(* any subcommands and any faults.                                           *)
EXTENDS JobLifecycle, TLAPS

(* What ties the table, the processes and the rows the web process has read: *)
(*  - a process that has not reported yet has a queued row without a number; *)
(*  - a number in a row is that of the job's own process;                    *)
(*  - a number the web process has read was reported by the job's process;   *)
(*  - the job that is being spawned has no process.                          *)
Unreported(j) == proc[j] \in {"none", "started"}

RowsAreOwn ==
  \A j \in Jobs :
    /\ row[j].status = "none" => proc[j] = "none"
    /\ Unreported(j) => row[j].status \in {"none", "queued"} /\ row[j].pid = NoPid
    /\ row[j].pid # NoPid => row[j].pid = pidOf[j]
    /\ proc[j] # "none" => pidOf[j] # NoPid

ReadsAreOwn ==
  \A e \in web.read :
    /\ web.task = "spawn" => proc[e[1]] = "none" /\ row[e[1]].status = "queued"
    /\ web.task = "reset" => e[2] # NoPid
    /\ web.task \in {"sweep", "reset"} /\ e[2] # NoPid
         => e[2] = pidOf[e[1]] /\ ~ Unreported(e[1])

IInv == TypeOK /\ RowsAreOwn /\ ReadsAreOwn

-----------------------------------------------------------------------------
LEMMA InitIInv == Init => IInv
BY ConstantsAssumption
DEF Init, IInv, TypeOK, RowsAreOwn, ReadsAreOwn, Unreported, Statuses, Tasks, ProcStates

(* What a step does to the table: nothing, a new row, the report that a      *)
(* process runs, or a write that ends the job and leaves its pid.            *)
Rows == [status : Statuses, pid : Pids \cup {NoPid}]

Write(j, r) == row' = [row EXCEPT ![j] = r]
Creates(j)  == Write(j, [status |-> "queued", pid |-> NoPid])
Reports(j)  == Write(j, [status |-> "running", pid |-> pidOf[j]])
Ends(j)     == \E r \in Rows : r.status \in Ended /\ r.pid = row[j].pid /\ Write(j, r)

LEMMA StatusWrite ==
  ASSUME TypeOK, NEW j \in Jobs, NEW s \in Ended, Write(j, [row[j] EXCEPT !.status = s])
  PROVE  Ends(j)
<1>1. row[j] \in Rows /\ s \in Statuses
  BY DEF TypeOK, Rows, Ended, Statuses
<1>2. PICK r : r = [row[j] EXCEPT !.status = s]
  OBVIOUS
<1>3. r \in Rows /\ r.status = s /\ r.pid = row[j].pid
  BY <1>1, <1>2 DEF Rows
<1> QED
  BY <1>2, <1>3 DEF Ends, Write

LEMMA TableTyped ==
  ASSUME TypeOK, NEW j \in Jobs,
         \/ UNCHANGED row
         \/ Creates(j)
         \/ Reports(j) /\ pidOf[j] # NoPid
         \/ Ends(j)
  PROVE  /\ row' \in [Jobs -> Rows]
         /\ \A i \in Jobs : row'[i].status = "running" => row'[i].pid # NoPid
<1>1. row \in [Jobs -> Rows] /\ pidOf[j] \in Pids \cup {NoPid}
  BY DEF TypeOK, Rows
<1>2. \A i \in Jobs : row[i].status = "running" => row[i].pid # NoPid
  BY DEF TypeOK
<1>3. CASE UNCHANGED row
  BY <1>1, <1>2, <1>3
<1>4. CASE Creates(j)
  <2> DEFINE r == [status |-> "queued", pid |-> NoPid]
  <2>1. r \in Rows /\ r.status = "queued"
    BY DEF Rows, Statuses
  <2> HIDE DEF r
  <2> QED
    BY <1>1, <1>2, <1>4, <2>1 DEF Creates, Write, r
<1>5. CASE Reports(j) /\ pidOf[j] # NoPid
  BY <1>1, <1>2, <1>5 DEF Rows, Statuses, Reports, Write
<1>6. CASE Ends(j)
  BY <1>1, <1>2, <1>6 DEF Ends, Ended, Write
<1> QED
  BY <1>3, <1>4, <1>5, <1>6

-----------------------------------------------------------------------------
(* A write is the creation of the row, the report of a process that starts,  *)
(* or the end of the job of a process that finished, raised or has gone.     *)
Finishes(j) == Ends(j) /\ (\/ proc[j] = "finished" /\ row'[j].status = "done"
                           \/ proc[j] \in {"raised", "gone"})
TableAction ==
  \/ UNCHANGED row
  \/ \E j \in Jobs : row[j].status = "none" /\ Creates(j)
  \/ \E j \in Jobs : proc[j] = "started" /\ Reports(j)
  \/ \E j \in Jobs : Finishes(j)

LEMMA CondemnedIsGone ==
  ASSUME IInv, NEW e \in web.read, web.task \in {"sweep", "reset"},
         SweepCondemns(e[2]) \/ (web.task = "reset" /\ ResetCondemns(e[2]))
  PROVE  e[1] \in Jobs /\ proc[e[1]] = "gone"
<1>1. e[1] \in Jobs
  BY DEF IInv, TypeOK
<1>2. e[2] # NoPid /\ ~ Alive(e[2])
  BY DEF IInv, ReadsAreOwn, SweepCondemns, ResetCondemns
<1>3. e[2] = pidOf[e[1]] /\ ~ Unreported(e[1])
  BY <1>2 DEF IInv, ReadsAreOwn
<1>4. proc[e[1]] \notin Running \cup {"zombie"}
  BY <1>1, <1>2, <1>3 DEF Alive
<1>5. proc[e[1]] \in ProcStates
  BY <1>1 DEF IInv, TypeOK
<1> QED
  BY <1>1, <1>3, <1>4, <1>5 DEF ProcStates, Running, Unreported

LEMMA WebVerdict ==
  ASSUME IInv, SweepRow \/ ResetJudges
  PROVE  UNCHANGED row \/ \E j \in Jobs : proc[j] = "gone" /\ Ends(j)
<1>1. web.task \in {"sweep", "reset"}
  BY DEF SweepRow, ResetJudges
<1>2. PICK e \in web.read :
        \/ UNCHANGED row
        \/ SweepCondemns(e[2]) /\ UpdateJob(e[1], "error")
        \/ web.task = "reset" /\ ResetCondemns(e[2]) /\ UpdateJob(e[1], "error")
  BY DEF SweepRow, ResetJudges
<1>3. CASE UNCHANGED row
  BY <1>3
<1>4. CASE ~ UNCHANGED row
  <2>1. e[1] \in Jobs /\ proc[e[1]] = "gone"
    BY <1>1, <1>2, <1>4, CondemnedIsGone
  <2>2. Write(e[1], [row[e[1]] EXCEPT !.status = "error"])
    BY <1>2, <1>4 DEF UpdateJob, Write
  <2>3. Ends(e[1])
    BY <2>1, <2>2, StatusWrite DEF IInv, Ended
  <2> QED
    BY <2>1, <2>3
<1> QED
  BY <1>3, <1>4

LEMMA TableStep == IInv /\ [Next]_vars => TableAction
<1> SUFFICES ASSUME IInv, [Next]_vars PROVE TableAction
  OBVIOUS
<1>1. CASE UNCHANGED vars
  BY <1>1 DEF vars, TableAction
<1>2. CASE WebStart \/ SweepEnds \/ SweepFails \/ WebStop \/ Spawn \/ SpawnFails \/ ResetFails
  BY <1>2 DEF TableAction, WebStart, SweepEnds, SweepFails, WebStop, Spawn, SpawnFails, ResetFails
<1>3. CASE SweepRow \/ ResetJudges
  BY <1>3, WebVerdict DEF TableAction, Finishes
<1>5. ASSUME NEW j \in Jobs, NEW c \in Subcommands, CreateJob(j, c) PROVE TableAction
  BY <1>5 DEF CreateJob, TableAction, Creates, Write
<1>6. ASSUME NEW j \in Jobs, ResetReads(j) PROVE TableAction
  BY <1>6 DEF ResetReads, TableAction
<1>7. ASSUME NEW j \in Jobs, ProcessStep(j) PROVE TableAction
  <2>1. CASE RejectsArguments(j) \/ FailsToConnect(j) \/ Work(j) \/ Kill(j) \/ Reap(j)
    BY <2>1 DEF RejectsArguments, FailsToConnect, Work, Kill, Reap, TableAction
  <2>2. CASE MarkRunning(j)
    BY <2>2 DEF MarkRunning, Report, TableAction, Reports, Write
  <2>3. CASE MarkDone(j)
    <3>1. CASE UNCHANGED row
      BY <3>1 DEF TableAction
    <3>2. CASE row' = [row EXCEPT ![j] = [row[j] EXCEPT !.status = "done"]]
      <4>1. Ends(j)
        BY <3>2, StatusWrite DEF IInv, Ended, Write
      <4>2. row'[j].status = "done"
        BY <3>2 DEF IInv, TypeOK
      <4> QED
        BY <2>3, <4>1, <4>2 DEF MarkDone, Finishes, TableAction
    <3> QED
      BY <2>3, <3>1, <3>2 DEF MarkDone, Report
  <2>4. CASE MarkError(j)
    <3>1. CASE UNCHANGED row
      BY <3>1 DEF TableAction
    <3>2. CASE row' = [row EXCEPT ![j] = [row[j] EXCEPT !.status = "error"]]
      <4>1. Ends(j)
        BY <3>2, StatusWrite DEF IInv, Ended, Write
      <4> QED
        BY <2>4, <4>1 DEF MarkError, Finishes, TableAction
    <3> QED
      BY <2>4, <3>1, <3>2 DEF MarkError, Report
  <2> QED
    BY <1>7, <2>1, <2>2, <2>3, <2>4 DEF ProcessStep
<1>8. ASSUME NEW pid \in Pids, PidTaken(pid) \/ PidFreed(pid) PROVE TableAction
  BY <1>8 DEF PidTaken, PidFreed, TableAction
<1> QED
  BY <1>1, <1>2, <1>3, <1>5, <1>6, <1>7, <1>8 DEF Next, WebStep

-----------------------------------------------------------------------------
(* The types of everything but the table.                                    *)
OthersTyped ==
  /\ command \in [Jobs -> Subcommands \cup {"none"}]
  /\ proc \in [Jobs -> ProcStates]
  /\ exit \in [Jobs -> {"none", "ok", "error", "killed"}]
  /\ pidOf \in [Jobs -> Pids \cup {NoPid}]
  /\ foreign \subseteq Pids
  /\ web \in [task : Tasks, read : SUBSET (Jobs \X (Pids \cup {NoPid}))]
  /\ owed \subseteq Jobs

LEMMA OthersStep == TypeOK /\ [Next]_vars => OthersTyped'
<1> SUFFICES ASSUME TypeOK, [Next]_vars PROVE OthersTyped'
  OBVIOUS
<1> USE DEF TypeOK, OthersTyped, Tasks, ProcStates
<1>1. CASE UNCHANGED vars
  BY <1>1 DEF vars
<1>2. CASE WebStart
  <2>1. \A i \in Jobs : row[i].pid \in Pids \cup {NoPid}
    OBVIOUS
  <2> QED
    BY <1>2, <2>1 DEF WebStart
<1>3. CASE SweepRow
  <2>1. PICK e \in web.read : web' = [web EXCEPT !.read = @ \ {e}]
    BY <1>3 DEF SweepRow
  <2>2. web' \in [task : Tasks, read : SUBSET (Jobs \X (Pids \cup {NoPid}))]
    BY <2>1
  <2> QED
    BY <1>3, <2>2 DEF SweepRow
<1>4. CASE SweepEnds \/ SweepFails \/ WebStop \/ SpawnFails \/ ResetFails \/ ResetJudges
  BY <1>4 DEF SweepEnds, SweepFails, WebStop, SpawnFails, ResetFails, ResetJudges, Idle
<1>5. ASSUME NEW j \in Jobs, NEW c \in Subcommands, CreateJob(j, c) PROVE OthersTyped'
  BY <1>5 DEF CreateJob
<1>6. CASE Spawn
  <2>1. PICK e \in web.read, pid \in Pids : /\ proc' = [proc EXCEPT ![e[1]] = "started"]
                                           /\ pidOf' = [pidOf EXCEPT ![e[1]] = pid]
    BY <1>6 DEF Spawn
  <2> QED
    BY <1>6, <2>1 DEF Spawn, Idle
<1>7. ASSUME NEW j \in Jobs, ResetReads(j) PROVE OthersTyped'
  <2>1. row[j].pid \in Pids \cup {NoPid}
    OBVIOUS
  <2> QED
    BY <1>7, <2>1 DEF ResetReads
<1>8. ASSUME NEW j \in Jobs, ProcessStep(j) PROVE OthersTyped'
  <2>1. CASE RejectsArguments(j) \/ FailsToConnect(j) \/ MarkDone(j)
    BY <2>1 DEF RejectsArguments, FailsToConnect, MarkDone, Exit
  <2>2. CASE MarkRunning(j)
    BY <2>2 DEF MarkRunning
  <2>6. CASE Work(j)
    <3>1. PICK outcome \in {"finished", "raised"} : proc' = [proc EXCEPT ![j] = outcome]
      BY <2>6 DEF Work
    <3> QED
      BY <2>6, <3>1 DEF Work
  <2>3. CASE MarkError(j)
    BY <2>3 DEF MarkError, Exit
  <2>4. CASE Kill(j)
    BY <2>4 DEF Kill, Exit
  <2>5. CASE Reap(j)
    BY <2>5 DEF Reap
  <2> QED
    BY <1>8, <2>1, <2>2, <2>3, <2>4, <2>5, <2>6 DEF ProcessStep
<1>9. ASSUME NEW pid \in Pids, PidTaken(pid) \/ PidFreed(pid) PROVE OthersTyped'
  BY <1>9 DEF PidTaken, PidFreed
<1> QED
  BY <1>1, <1>2, <1>3, <1>4, <1>5, <1>6, <1>7, <1>8, <1>9 DEF Next, WebStep

LEMMA TypeStep == IInv /\ [Next]_vars => TypeOK'
<1> SUFFICES ASSUME IInv, [Next]_vars PROVE TypeOK'
  OBVIOUS
<1> DEFINE TableOK == /\ row' \in [Jobs -> Rows]
                      /\ \A i \in Jobs : row'[i].status = "running" => row'[i].pid # NoPid
<1>1. TypeOK /\ OthersTyped' /\ TableAction
  BY OthersStep, TableStep DEF IInv
<1>2. ASSUME UNCHANGED row PROVE TableOK
  BY <1>1, <1>2 DEF TypeOK, Rows
<1>3. ASSUME NEW j \in Jobs, Creates(j) PROVE TableOK
  BY <1>1, <1>3, TableTyped
<1>4. ASSUME NEW j \in Jobs, proc[j] = "started", Reports(j) PROVE TableOK
  <2>1. pidOf[j] # NoPid
    BY <1>4 DEF IInv, RowsAreOwn
  <2> QED
    BY <1>1, <1>4, <2>1, TableTyped
<1>5. ASSUME NEW j \in Jobs, Finishes(j) PROVE TableOK
  BY <1>1, <1>5, TableTyped DEF Finishes
<1>6. TableOK
  BY <1>1, <1>2, <1>3, <1>4, <1>5 DEF TableAction
<1> QED
  BY <1>1, <1>6 DEF TypeOK, OthersTyped, Rows

-----------------------------------------------------------------------------
(* A step of a process moves it beyond its report, and touches its own row.   *)
Moves(j) ==
  /\ proc[j] # "none"
  /\ \E s \in ProcStates \ {"none", "started"} : proc' = [proc EXCEPT ![j] = s]
  /\ UNCHANGED <<pidOf, web>>

LEMMA ProcessMoves ==
  ASSUME IInv, NEW j \in Jobs, ProcessStep(j)
  PROVE  Moves(j) /\ (UNCHANGED row \/ Reports(j) \/ Ends(j))
<1>1. Moves(j)
  BY DEF Moves, ProcStates, Running, ProcessStep, RejectsArguments, FailsToConnect,
     MarkRunning, Work, MarkDone, MarkError, Kill, Reap, Exit
<1>2. \/ UNCHANGED row
      \/ Reports(j)
      \/ \E s \in Ended : row' = [row EXCEPT ![j] = [row[j] EXCEPT !.status = s]]
  BY DEF ProcessStep, RejectsArguments, FailsToConnect, MarkRunning, Work, MarkDone, MarkError,
     Kill, Reap, Report, Reports, Write, Ended
<1>3. ASSUME NEW s \in Ended, row' = [row EXCEPT ![j] = [row[j] EXCEPT !.status = s]]
      PROVE  Ends(j)
  BY <1>3, StatusWrite DEF IInv, Write
<1> QED
  BY <1>1, <1>2, <1>3

LEMMA RowsStep == IInv /\ [Next]_vars => RowsAreOwn'
<1> SUFFICES ASSUME IInv, [Next]_vars PROVE RowsAreOwn'
  OBVIOUS
<1>1. TypeOK /\ TypeOK' /\ RowsAreOwn /\ ReadsAreOwn
  BY TypeStep DEF IInv
<1>2. CASE UNCHANGED <<row, proc, pidOf>>
  BY <1>1, <1>2 DEF RowsAreOwn, Unreported
<1>3. ASSUME NEW j \in Jobs, NEW c \in Subcommands, CreateJob(j, c) PROVE RowsAreOwn'
  <2>1. row' = [row EXCEPT ![j] = [status |-> "queued", pid |-> NoPid]]
    BY <1>3 DEF CreateJob
  <2>2. UNCHANGED <<proc, pidOf>> /\ proc[j] = "none"
    BY <1>1, <1>3 DEF CreateJob, RowsAreOwn
  <2> QED
    BY <1>1, <2>1, <2>2 DEF RowsAreOwn, Unreported, TypeOK
<1>4. CASE Spawn
  <2>1. PICK e \in web.read, pid \in Pids : /\ proc' = [proc EXCEPT ![e[1]] = "started"]
                                           /\ pidOf' = [pidOf EXCEPT ![e[1]] = pid]
    BY <1>4 DEF Spawn
  <2>2. proc[e[1]] = "none" /\ row[e[1]].status = "queued" /\ UNCHANGED row /\ e[1] \in Jobs
    BY <1>1, <1>4 DEF Spawn, ReadsAreOwn, TypeOK
  <2> QED
    BY <1>1, <2>1, <2>2, ConstantsAssumption DEF RowsAreOwn, Unreported, TypeOK
<1>5. ASSUME NEW j \in Jobs, proc[j] = "gone", Ends(j), UNCHANGED <<proc, pidOf>>
      PROVE  RowsAreOwn'
  BY <1>1, <1>5 DEF RowsAreOwn, Unreported, Ends, Ended, Write, TypeOK
<1>6. ASSUME NEW j \in Jobs, ProcessStep(j) PROVE RowsAreOwn'
  <2>1. Moves(j) /\ (UNCHANGED row \/ Reports(j) \/ Ends(j))
    BY <1>6, ProcessMoves
  <2>2. CASE UNCHANGED row
    BY <1>1, <2>1, <2>2 DEF RowsAreOwn, Unreported, Moves, TypeOK
  <2>3. CASE Reports(j)
    BY <1>1, <2>1, <2>3 DEF RowsAreOwn, Unreported, Moves, TypeOK, Reports, Write
  <2>4. CASE Ends(j)
    BY <1>1, <2>1, <2>4 DEF RowsAreOwn, Unreported, Moves, TypeOK, Ends, Ended, Write
  <2> QED
    BY <2>1, <2>2, <2>3, <2>4
<1>7. CASE SweepRow \/ ResetJudges
  BY <1>2, <1>5, <1>7, WebVerdict DEF SweepRow, ResetJudges
<1>8. CASE WebStep
  BY <1>2, <1>3, <1>4, <1>7, <1>8 DEF WebStep, WebStart, SweepEnds, SweepFails, WebStop,
     SpawnFails, ResetReads, ResetFails
<1>9. ASSUME NEW pid \in Pids, PidTaken(pid) \/ PidFreed(pid) PROVE RowsAreOwn'
  BY <1>2, <1>9 DEF PidTaken, PidFreed
<1>10. CASE UNCHANGED vars
  BY <1>2, <1>10 DEF vars
<1> QED
  BY <1>6, <1>8, <1>9, <1>10 DEF Next

(* What the web process has read stays true: the processes it is about never *)
(* go back, and while it spawns a job nobody else touches that job.          *)
LEMMA ReadsStep == IInv /\ [Next]_vars => ReadsAreOwn'
<1> SUFFICES ASSUME IInv, [Next]_vars PROVE ReadsAreOwn'
  OBVIOUS
<1> USE DEF ReadsAreOwn, Unreported
<1>1. TypeOK /\ RowsAreOwn /\ ReadsAreOwn
  BY DEF IInv
<1>2. CASE UNCHANGED <<row, proc, pidOf, web>>
  BY <1>1, <1>2
<1>3. CASE WebStart
  BY <1>1, <1>3 DEF WebStart, RowsAreOwn, TypeOK
<1>4. CASE SweepRow
  BY <1>1, <1>4 DEF SweepRow, TypeOK
<1>5. CASE SweepEnds \/ SweepFails \/ WebStop \/ Spawn \/ SpawnFails \/ ResetJudges \/ ResetFails
  BY <1>5 DEF SweepEnds, SweepFails, WebStop, Spawn, SpawnFails, ResetJudges, ResetFails, Idle
<1>6. ASSUME NEW j \in Jobs, NEW c \in Subcommands, CreateJob(j, c) PROVE ReadsAreOwn'
  <2>1. proc[j] = "none" /\ row'[j].status = "queued"
    BY <1>1, <1>6 DEF CreateJob, RowsAreOwn, TypeOK
  <2> QED
    BY <1>6, <2>1 DEF CreateJob
<1>7. ASSUME NEW j \in Jobs, ResetReads(j) PROVE ReadsAreOwn'
  BY <1>1, <1>7 DEF ResetReads, RowsAreOwn, TypeOK
<1>8. ASSUME NEW j \in Jobs, ProcessStep(j) PROVE ReadsAreOwn'
  <2>1. Moves(j) /\ (UNCHANGED row \/ Reports(j) \/ Ends(j))
    BY <1>8, ProcessMoves
  <2>2. \A i \in Jobs : i # j => row'[i] = row[i]
    BY <1>1, <2>1 DEF Reports, Ends, Write, TypeOK
  <2> QED
    BY <1>1, <2>1, <2>2 DEF Moves, TypeOK
<1>9. ASSUME NEW pid \in Pids, PidTaken(pid) \/ PidFreed(pid) PROVE ReadsAreOwn'
  BY <1>2, <1>9 DEF PidTaken, PidFreed
<1>10. CASE UNCHANGED vars
  BY <1>2, <1>10 DEF vars
<1> QED
  BY <1>3, <1>4, <1>5, <1>6, <1>7, <1>8, <1>9, <1>10 DEF Next, WebStep

-----------------------------------------------------------------------------
LEMMA Invariance == Spec => []IInv
<1>1. IInv /\ [Next]_vars => IInv'
  BY TypeStep, RowsStep, ReadsStep DEF IInv
<1> QED
  BY InitIInv, <1>1, PTL DEF Spec

(* Every reachable state is type-correct, and a running row carries a pid.   *)
THEOREM TypeCorrect == Spec => []TypeOK
<1>1. IInv => TypeOK
  BY DEF IInv
<1> QED
  BY Invariance, <1>1, PTL

(* Neither the sweep nor the reset ever condemns a process at work, whatever *)
(* is killed, lost or reused between the read of a row and the verdict.      *)
THEOREM NoLiveJobCondemned == Spec => VerdictsAreTrue
<1> DEFINE A == \A j \in Jobs :
                  row[j].status # "error" /\ row'[j].status = "error"
                    => proc[j] \in {"raised", "zombie", "gone"}
<1>1. IInv /\ [Next]_vars => [A]_vars
  <2> SUFFICES ASSUME IInv, [Next]_vars PROVE A
    OBVIOUS
  <2>1. TypeOK /\ TableAction
    BY TableStep DEF IInv
  <2> QED
    BY <2>1 DEF TableAction, TypeOK, Creates, Reports, Finishes, Ends, Write
<1> QED
  BY Invariance, <1>1, PTL DEF Spec, VerdictsAreTrue

(* A job that has ended never goes back: the only report that a process runs *)
(* finds the row as create_job left it.                                      *)
THEOREM EndedJobsStayEnded == Spec => EndedStaysEnded
<1> DEFINE A == \A j \in Jobs : row[j].status \in Ended => row'[j].status \in Ended
<1>1. IInv /\ [Next]_vars => [A]_vars
  <2> SUFFICES ASSUME IInv, [Next]_vars PROVE A
    OBVIOUS
  <2>1. TypeOK /\ RowsAreOwn /\ TableAction
    BY TableStep DEF IInv
  <2> QED
    BY <2>1 DEF TableAction, RowsAreOwn, Unreported, TypeOK, Creates, Reports, Finishes, Ends,
       Ended, Write
<1> QED
  BY Invariance, <1>1, PTL DEF Spec, EndedStaysEnded
-----------------------------------------------------------------------------
(* The sweep.  A dead job that it has to mark is either still among the rows *)
(* it has yet to visit, with a number that nobody has, or has ended.         *)
SweepInv ==
  /\ web.task = "down" => owed = {}
  /\ \A j \in owed :
       /\ row[j].status \in {"running"} \cup Ended
       /\ row[j].status = "running"
            => /\ web.task = "sweep"
               /\ <<j, row[j].pid>> \in web.read
               /\ ~ Alive(row[j].pid)

SweptIInv == IInv /\ SweepInv

(* A dead number comes back to life only for a process that is spawned, and  *)
(* when another program takes it.                                            *)
LEMMA DeadStaysDead ==
  ASSUME IInv, NEW pid, ~ Alive(pid), [Next]_vars, ~ Spawn,
         ~ (pid \in Pids /\ PidTaken(pid))
  PROVE  ~ Alive(pid)'
<1>1. TypeOK
  BY DEF IInv
<1>2. CASE UNCHANGED <<foreign, proc, pidOf>>
  BY <1>2 DEF Alive
<1>3. ASSUME NEW j \in Jobs, ProcessStep(j) PROVE ~ Alive(pid)'
  <2>1. proc[j] \in Running \cup {"zombie"}
    BY <1>3 DEF ProcessStep, RejectsArguments, FailsToConnect, MarkRunning, Work, MarkDone,
       MarkError, Kill, Reap, Running
  <2>2. \E s : proc' = [proc EXCEPT ![j] = s]
    BY <1>3, ProcessMoves DEF Moves
  <2>3. UNCHANGED <<foreign, pidOf>>
    BY <1>3 DEF ProcessStep, RejectsArguments, FailsToConnect, MarkRunning, Work, MarkDone,
       MarkError, Kill, Reap
  <2> QED
    BY <1>1, <2>1, <2>2, <2>3 DEF Alive, TypeOK
<1>4. ASSUME NEW p \in Pids, PidTaken(p) \/ PidFreed(p) PROVE ~ Alive(pid)'
  BY <1>4 DEF PidTaken, PidFreed, Alive
<1>5. CASE WebStep
  BY <1>2, <1>5 DEF WebStep, WebStart, SweepRow, SweepEnds, SweepFails, WebStop, CreateJob,
     SpawnFails, ResetReads, ResetJudges, ResetFails
<1>6. CASE UNCHANGED vars
  BY <1>2, <1>6 DEF vars
<1> QED
  BY <1>3, <1>4, <1>5, <1>6 DEF Next

(* An owed row that is not running does not run again, and an owed row that  *)
(* runs still carries its number.                                            *)
LEMMA OwedRows ==
  ASSUME IInv, [Next]_vars, NEW j \in Jobs, row[j].status \in {"running"} \cup Ended
  PROVE  /\ row'[j].status \in {"running"} \cup Ended
         /\ row'[j].status = "running" => row'[j] = row[j]
<1>1. TypeOK /\ RowsAreOwn /\ TableAction
  BY TableStep DEF IInv
<1>2. CASE UNCHANGED row
  BY <1>2
<1>3. ASSUME NEW i \in Jobs, row[i].status = "none", Creates(i)
      PROVE  row'[j] = row[j]
  BY <1>1, <1>3 DEF Creates, Write, TypeOK, Ended
<1>4. ASSUME NEW i \in Jobs, proc[i] = "started", Reports(i)
      PROVE  row'[j] = row[j]
  BY <1>1, <1>4 DEF Reports, Write, TypeOK, Ended, RowsAreOwn, Unreported
<1>5. ASSUME NEW i \in Jobs, Finishes(i)
      PROVE  row'[j] = row[j] \/ row'[j].status \in Ended
  BY <1>1, <1>5 DEF Finishes, Ends, Write, TypeOK
<1> QED
  BY <1>1, <1>2, <1>3, <1>4, <1>5 DEF TableAction, Ended

(* A dead job that the sweep owes a verdict is owed it until it has ended.    *)
OwedInSweep(j) ==
  /\ web.task = "sweep"
  /\ <<j, row[j].pid>> \in web.read
  /\ row[j].status = "running"
  /\ ~ Alive(row[j].pid)

LEMMA OwedKept ==
  ASSUME SweptIInv, [Next]_vars, NEW j \in owed, NEW p, p = row[j].pid,
         ~ (p \in Pids /\ PidTaken(p))
  PROVE  /\ j \in Jobs
         /\ row'[j].status \in {"running"} \cup Ended
         /\ row'[j].status = "running" => OwedInSweep(j) /\ row'[j].pid = p /\ ~ Alive(p)'
<1>1. IInv /\ SweepInv /\ j \in Jobs
  BY DEF SweptIInv, IInv, TypeOK
<1>2. /\ row'[j].status \in {"running"} \cup Ended
      /\ row'[j].status = "running" => row'[j] = row[j]
  BY <1>1, OwedRows DEF SweepInv
<1>3. ASSUME row'[j].status = "running"
      PROVE  OwedInSweep(j) /\ row'[j].pid = p /\ ~ Alive(p)'
  <2>1. OwedInSweep(j)
    BY <1>1, <1>2, <1>3 DEF SweepInv, OwedInSweep
  <2>2. ~ Alive(p) /\ ~ Spawn
    BY <2>1 DEF OwedInSweep, Spawn
  <2>3. ~ Alive(p)'
    BY <1>1, <2>2, DeadStaysDead
  <2> QED
    BY <1>2, <1>3, <2>1, <2>3
<1> QED
  BY <1>1, <1>2, <1>3

LEMMA InitSweepInv == Init => SweepInv
BY DEF Init, SweepInv

LEMMA SweepStep == SweptIInv /\ [Next]_vars => SweepInv'
<1> SUFFICES ASSUME SweptIInv, [Next]_vars PROVE SweepInv'
  OBVIOUS
<1>1. TypeOK /\ SweepInv
  BY DEF SweptIInv, IInv
(* What the table and the processes do to a row that is still owed.          *)
<1>2. ASSUME NEW j \in owed, ~ (row[j].pid \in Pids /\ PidTaken(row[j].pid))
      PROVE  /\ j \in Jobs
             /\ row'[j].status \in {"running"} \cup Ended
             /\ row'[j].status = "running"
                  => OwedInSweep(j) /\ row'[j].pid = row[j].pid /\ ~ Alive(row[j].pid)'
  <2>1. PICK p : p = row[j].pid
    OBVIOUS
  <2> QED
    BY <1>2, <2>1, OwedKept
<1>3. CASE WebStart
  <2>1. ASSUME NEW j \in owed'
        PROVE  /\ row'[j].status = "running"
               /\ <<j, row'[j].pid>> \in web'.read
               /\ ~ Alive(row[j].pid)'
    <3>1. j \in Jobs /\ row[j].status = "running" /\ ~ Alive(row[j].pid) /\ UNCHANGED row
      BY <1>3, <2>1 DEF WebStart
    <3>2. ~ Alive(row[j].pid)'
      BY <1>3, <3>1 DEF WebStart, Alive
    <3> QED
      BY <1>3, <3>1, <3>2 DEF WebStart
  <2>2. web'.task = "sweep"
    BY <1>3 DEF WebStart
  <2> QED
    BY <2>1, <2>2 DEF SweepInv
<1>4. CASE SweepRow
  <2>1. PICK e \in web.read :
          /\ web' = [web EXCEPT !.read = @ \ {e}]
          /\ SweepCondemns(e[2]) => UpdateJob(e[1], "error")
    BY <1>4 DEF SweepRow
  <2>2. web'.task = "sweep" /\ web'.read = web.read \ {e} /\ web.task = "sweep" /\ UNCHANGED owed
    BY <1>1, <1>4, <2>1 DEF SweepRow, TypeOK
  <2>3. ASSUME NEW j \in owed
        PROVE  /\ row'[j].status \in {"running"} \cup Ended
               /\ row'[j].status = "running" => /\ <<j, row'[j].pid>> \in web'.read
                                                /\ ~ Alive(row[j].pid)'
    <3>1. ~ PidTaken(row[j].pid)
      BY <2>2, <1>1, <2>1 DEF PidTaken, TypeOK
    <3>2. /\ j \in Jobs
          /\ row'[j].status \in {"running"} \cup Ended
          /\ row'[j].status = "running"
               => OwedInSweep(j) /\ row'[j].pid = row[j].pid /\ ~ Alive(row[j].pid)'
      BY <1>2, <3>1
    <3>3. ASSUME OwedInSweep(j), e = <<j, row[j].pid>> PROVE row'[j].status = "error"
      <4>1. SweepCondemns(e[2]) /\ e[1] = j
        BY <1>1, <3>2, <3>3 DEF OwedInSweep, SweepCondemns, TypeOK
      <4> QED
        BY <1>1, <2>1, <3>2, <4>1 DEF UpdateJob, TypeOK
    <3> QED
      BY <2>2, <3>2, <3>3 DEF OwedInSweep
  <2> QED
    BY <2>2, <2>3 DEF SweepInv
<1>5. CASE SweepFails \/ WebStop
  BY <1>5 DEF SweepFails, WebStop, SweepInv
(* In the other steps of the web process no row that is owed is running.     *)
<1>6. ASSUME UNCHANGED owed, web.task # "down", web'.task # "down",
             \/ web.task # "sweep"
             \/ web.read = {},
             ~ \E pid \in Pids : PidTaken(pid)
      PROVE  SweepInv'
  <2>1. ASSUME NEW j \in owed PROVE row'[j].status \in Ended
    BY <1>2, <1>6 DEF OwedInSweep
  <2> QED
    BY <1>6, <2>1 DEF SweepInv, Ended
<1>7. ASSUME UNCHANGED web, owed' \subseteq owed,
             \A j \in owed' : ~ (row[j].pid \in Pids /\ PidTaken(row[j].pid))
      PROVE  SweepInv'
  <2>1. ASSUME NEW j \in owed'
        PROVE  /\ row'[j].status \in {"running"} \cup Ended
               /\ row'[j].status = "running" => /\ web.task = "sweep"
                                                /\ <<j, row'[j].pid>> \in web.read
                                                /\ ~ Alive(row[j].pid)'
    BY <1>2, <1>7, <2>1 DEF OwedInSweep
  <2> QED
    BY <1>1, <1>7, <2>1 DEF SweepInv
<1>8. CASE WebStep
  <2>1. ASSUME web.task = "spawn" \/ web.task = "reset" \/ web.task = "idle" \/ SweepEnds,
               UNCHANGED owed, UNCHANGED foreign, web'.task # "down"
        PROVE  SweepInv'
    BY <1>6, <2>1 DEF SweepEnds, PidTaken, Alive
  <2> QED
    BY <1>3, <1>4, <1>5, <1>8, <2>1 DEF WebStep, SweepEnds, CreateJob, Spawn, SpawnFails,
       ResetReads, ResetJudges, ResetFails, Idle
<1>9. ASSUME NEW j \in Jobs, ProcessStep(j) PROVE SweepInv'
  <2>1. UNCHANGED <<web, owed, foreign>>
    BY <1>9 DEF ProcessStep, RejectsArguments, FailsToConnect, MarkRunning, Work, MarkDone,
       MarkError, Kill, Reap
  <2>2. \A pid \in Pids : ~ PidTaken(pid)
    BY <2>1 DEF PidTaken, Alive
  <2> QED
    BY <1>7, <2>1, <2>2
<1>10. ASSUME NEW pid \in Pids, PidTaken(pid) PROVE SweepInv'
  <2>1. UNCHANGED web /\ owed' = {j \in owed : row[j].pid # pid}
    BY <1>10 DEF PidTaken
  <2>2. \A p \in Pids : PidTaken(p) => p = pid
    BY <1>10 DEF PidTaken, Alive
  <2> QED
    BY <1>7, <2>1, <2>2
<1>11. CASE (\E pid \in Pids : PidFreed(pid)) \/ UNCHANGED vars
  <2>1. UNCHANGED <<web, owed>> /\ foreign' \subseteq foreign
    BY <1>11 DEF PidFreed, vars
  <2>2. \A pid \in Pids : ~ PidTaken(pid)
    BY <2>1 DEF PidTaken, Alive
  <2> QED
    BY <1>7, <2>1, <2>2
<1> QED
  BY <1>8, <1>9, <1>10, <1>11 DEF Next

(* When the web process serves, the rows whose process was dead when it      *)
(* started have been marked: the sweep skips none, whatever is reported,     *)
(* killed, reaped or given a freed number between two of its rows.           *)
THEOREM TheDeadAreMarked == Spec => []SweepMarksTheDead
<1>1. SweptIInv /\ [Next]_vars => SweptIInv'
  BY TypeStep, RowsStep, ReadsStep, SweepStep DEF SweptIInv, IInv
<1>2. Init => SweptIInv
  BY InitIInv, InitSweepInv DEF SweptIInv
<1>3. SweptIInv => SweepMarksTheDead
  BY DEF SweptIInv, SweepInv, SweepMarksTheDead
<1> QED
  BY <1>1, <1>2, <1>3, PTL DEF Spec
=============================================================================
