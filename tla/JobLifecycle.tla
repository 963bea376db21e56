---------------------------- MODULE JobLifecycle ----------------------------
(***************************************************************************)
(* The life of a row of indexer_jobs: the web process that creates it and  *)
(* spawns a detached `python -m src.indexer <subcommand> --job-id N`       *)
(* (web_ui/helpers/subprocess_runner.py), that process, which reports what *)
(* it does (indexer/__main__.py, indexer/seed_patterns.py), the sweep of a *)
(* web process that starts (db/job_registry.py) and the reset by an        *)
(* administrator (web_ui/routes/jobs.py).                                  *)
(*                                                                         *)
(* The web process is one event loop and none of these handlers awaits     *)
(* between its first and its last statement, so it does one task at a      *)
(* time; the spawned processes run beside it, and outlive it.  What a      *)
(* subcommand does apart from its reports is one step, "working".          *)
(***************************************************************************)
EXTENDS Naturals, FiniteSets

CONSTANTS
  Jobs,         \* indexer_jobs.id, a finite set of numbers
  Pids,         \* process numbers of the operating system
  NoPid,        \* pid IS NULL
  Subcommands,  \* those in use
  Faults        \* what may go wrong

AllSubcommands == {"index-repo", "index-core", "seed-patterns"}
AllFaults ==
  { "kill",     \* a spawned process is killed
    "web",      \* the web process stops
    "popen",    \* subprocess.Popen, or opening the log file, raises
    "connect",  \* a spawned process cannot open its connections
    "update",   \* update_job raises
    "pids" }    \* other processes take process numbers

ASSUME ConstantsAssumption ==
  /\ Jobs \subseteq Nat
  /\ NoPid \notin Pids
  /\ Subcommands \subseteq AllSubcommands
  /\ Faults \subseteq AllFaults

VARIABLES
  row,      \* the table: status ("none": no such row) and pid of each job
  command,  \* the subcommand of the job's process
  proc,     \* where that process is
  exit,     \* how it ended
  pidOf,    \* the number the operating system gave it
  foreign,  \* process numbers taken by other programs
  web,      \* the task of the web process, and the rows it has read for it
  owed      \* auxiliary: dead jobs that the present sweep has to mark

vars == <<row, command, proc, exit, pidOf, foreign, web, owed>>

Statuses == {"none", "queued", "running", "done", "error"}
Ended    == {"done", "error"}
Tasks    == {"down", "sweep", "idle", "spawn", "reset"}

\* A process that has exited is a zombie until its parent, or init, reaps it.
ProcStates == {"none", "started", "working", "finished", "raised", "zombie", "gone"}
Running    == {"started", "working", "finished", "raised"}

\* os.kill(pid, 0) raises no ProcessLookupError: zombies and the processes of
\* other users (PermissionError) count as alive.
Alive(pid) ==
  \/ pid \in foreign
  \/ \E j \in Jobs : pidOf[j] = pid /\ proc[j] \in Running \cup {"zombie"}

\* What reset_stuck_job takes for a stuck job, and mark_dead_jobs for a dead one.
ResetCondemns(pid) == pid = NoPid \/ ~ Alive(pid)
SweepCondemns(pid) == pid # NoPid /\ ~ Alive(pid)

Init ==
  /\ row = [j \in Jobs |-> [status |-> "none", pid |-> NoPid]]
  /\ command = [j \in Jobs |-> "none"]
  /\ proc = [j \in Jobs |-> "none"]
  /\ exit = [j \in Jobs |-> "none"]
  /\ pidOf = [j \in Jobs |-> NoPid]
  /\ foreign = {}
  /\ web = [task |-> "down", read |-> {}]
  /\ owed = {}

-----------------------------------------------------------------------------
(* The web process. *)

Idle == [task |-> "idle", read |-> {}]

\* JobStore.update_job with these columns.
UpdateJob(j, status) == row' = [row EXCEPT ![j].status = status]

\* mark_dead_jobs begins: all rows that are running or queued are read at once.
WebStart ==
  /\ web.task = "down"
  /\ web' = [task |-> "sweep",
             read |-> {<<j, row[j].pid>> :
                         j \in {i \in Jobs : row[i].status \in {"running", "queued"}}}]
  /\ owed' = {j \in Jobs : row[j].status = "running" /\ ~ Alive(row[j].pid)}
  /\ UNCHANGED <<row, command, proc, exit, pidOf, foreign>>

\* One iteration of its loop.  (Mutant: the loop ends at the first live process.)
SweepRowThenBreak ==
  /\ web.task = "sweep"
  /\ \E e \in web.read :
       /\ \A other \in web.read : e[1] <= other[1]
       /\ web' = [web EXCEPT !.read = IF Alive(e[2]) THEN {} ELSE @ \ {e}]
       /\ IF SweepCondemns(e[2]) THEN UpdateJob(e[1], "error") ELSE UNCHANGED row
  /\ UNCHANGED <<command, proc, exit, pidOf, foreign, owed>>

SweepRow ==
  /\ web.task = "sweep"
  /\ \E e \in web.read :
       /\ \A other \in web.read : e[1] <= other[1]
       /\ web' = [web EXCEPT !.read = @ \ {e}]
       /\ IF SweepCondemns(e[2]) THEN UpdateJob(e[1], "error") ELSE UNCHANGED row
  /\ UNCHANGED <<command, proc, exit, pidOf, foreign, owed>>

SweepEnds ==
  /\ web.task = "sweep"
  /\ web.read = {}
  /\ web' = Idle
  /\ UNCHANGED <<row, command, proc, exit, pidOf, foreign, owed>>

\* A failing sweep is logged and given up; the web process serves all the same.
SweepFails ==
  /\ "update" \in Faults
  /\ web.task = "sweep"
  /\ web' = Idle
  /\ owed' = {}
  /\ UNCHANGED <<row, command, proc, exit, pidOf, foreign>>

WebStop ==
  /\ "web" \in Faults
  /\ web.task # "down"
  /\ web' = [task |-> "down", read |-> {}]
  /\ owed' = {}
  /\ UNCHANGED <<row, command, proc, exit, pidOf, foreign>>

\* create_job takes the next number of the sequence.
CreateJob(j, c) ==
  /\ web.task = "idle"
  /\ row[j].status = "none"
  /\ \A i \in Jobs : row[i].status = "none" => j <= i
  /\ row' = [row EXCEPT ![j] = [status |-> "queued", pid |-> NoPid]]
  /\ command' = [command EXCEPT ![j] = c]
  /\ web' = [task |-> "spawn", read |-> {<<j, NoPid>>}]
  /\ UNCHANGED <<proc, exit, pidOf, foreign, owed>>

Spawn ==
  /\ web.task = "spawn"
  /\ \E e \in web.read, pid \in Pids :
       /\ ~ Alive(pid)
       /\ proc' = [proc EXCEPT ![e[1]] = "started"]
       /\ pidOf' = [pidOf EXCEPT ![e[1]] = pid]
  /\ web' = Idle
  /\ UNCHANGED <<row, command, exit, foreign, owed>>

SpawnFails ==
  /\ "popen" \in Faults
  /\ web.task = "spawn"
  /\ web' = Idle
  /\ UNCHANGED <<row, command, proc, exit, pidOf, foreign, owed>>

\* reset_stuck_job reads the row and refuses what is not running.  (Mutant: it
\* refuses only what has ended.)
ResetReadsUnended(j) ==
  /\ web.task = "idle"
  /\ row[j].status \in {"queued", "running"}
  /\ web' = [task |-> "reset", read |-> {<<j, row[j].pid>>}]
  /\ UNCHANGED <<row, command, proc, exit, pidOf, foreign, owed>>

ResetReads(j) ==
  /\ web.task = "idle"
  /\ row[j].status = "running"
  /\ web' = [task |-> "reset", read |-> {<<j, row[j].pid>>}]
  /\ UNCHANGED <<row, command, proc, exit, pidOf, foreign, owed>>

\* It then looks for the process and, if there is none, updates the row.
ResetJudges ==
  /\ web.task = "reset"
  /\ web' = Idle
  /\ \E e \in web.read :
       IF ResetCondemns(e[2]) THEN UpdateJob(e[1], "error") ELSE UNCHANGED row
  /\ UNCHANGED <<command, proc, exit, pidOf, foreign, owed>>

ResetFails ==
  /\ "update" \in Faults
  /\ web.task = "reset"
  /\ web' = Idle
  /\ UNCHANGED <<row, command, proc, exit, pidOf, foreign, owed>>

-----------------------------------------------------------------------------
(* The process of job j. *)

Exit(j, code) ==
  /\ proc' = [proc EXCEPT ![j] = "zombie"]
  /\ exit' = [exit EXCEPT ![j] = code]

\* What becomes of a report.  index-repo calls job_registry.update_job, which
\* does not exist: the AttributeError is swallowed, like any other failure.
Report(j, new) ==
  \/ /\ command[j] = "seed-patterns"
     /\ row' = [row EXCEPT ![j] = new]
  \/ /\ command[j] = "index-repo" \/ "update" \in Faults
     /\ UNCHANGED row

\* The parser of index-core knows no --job-id: argparse exits with status 2.
RejectsArguments(j) ==
  /\ proc[j] = "started"
  /\ command[j] = "index-core"
  /\ Exit(j, "error")
  /\ UNCHANGED <<row, command, pidOf, foreign, web, owed>>

\* open_production_pg or init_pool raises, before anything is reported.
FailsToConnect(j) ==
  /\ "connect" \in Faults
  /\ proc[j] = "started"
  /\ command[j] # "index-core"
  /\ Exit(j, "error")
  /\ UNCHANGED <<row, command, pidOf, foreign, web, owed>>

\* (Mutant: the report forgets the pid.)
MarkRunningWithoutPid(j) ==
  /\ proc[j] = "started"
  /\ command[j] # "index-core"
  /\ proc' = [proc EXCEPT ![j] = "working"]
  /\ Report(j, [row[j] EXCEPT !.status = "running"])
  /\ UNCHANGED <<command, exit, pidOf, foreign, web, owed>>

MarkRunning(j) ==
  /\ proc[j] = "started"
  /\ command[j] # "index-core"
  /\ proc' = [proc EXCEPT ![j] = "working"]
  /\ Report(j, [status |-> "running", pid |-> pidOf[j]])
  /\ UNCHANGED <<command, exit, pidOf, foreign, web, owed>>

Work(j) ==
  /\ proc[j] = "working"
  /\ \E outcome \in {"finished", "raised"} : proc' = [proc EXCEPT ![j] = outcome]
  /\ UNCHANGED <<row, command, exit, pidOf, foreign, web, owed>>

MarkDone(j) ==
  /\ proc[j] = "finished"
  /\ Report(j, [row[j] EXCEPT !.status = "done"])
  /\ Exit(j, "ok")
  /\ UNCHANGED <<command, pidOf, foreign, web, owed>>

MarkError(j) ==
  /\ proc[j] = "raised"
  /\ Report(j, [row[j] EXCEPT !.status = "error"])
  /\ Exit(j, "error")
  /\ UNCHANGED <<command, pidOf, foreign, web, owed>>

\* SIGKILL, or SIGTERM: the handler of index-repo fails to report it too.
Kill(j) ==
  /\ "kill" \in Faults
  /\ proc[j] \in Running
  /\ Exit(j, "killed")
  /\ UNCHANGED <<row, command, pidOf, foreign, web, owed>>

\* The waiting thread of the web process, or init when there is none.
Reap(j) ==
  /\ proc[j] = "zombie"
  /\ proc' = [proc EXCEPT ![j] = "gone"]
  /\ UNCHANGED <<row, command, exit, pidOf, foreign, web, owed>>

\* Another program is given the number; what the sweep finds then is its process.
PidTaken(pid) ==
  /\ "pids" \in Faults
  /\ ~ Alive(pid)
  /\ foreign' = foreign \cup {pid}
  /\ owed' = {j \in owed : row[j].pid # pid}
  /\ UNCHANGED <<row, command, proc, exit, pidOf, web>>

PidFreed(pid) ==
  /\ pid \in foreign
  /\ foreign' = foreign \ {pid}
  /\ UNCHANGED <<row, command, proc, exit, pidOf, web, owed>>

-----------------------------------------------------------------------------
WebStep ==
  \/ WebStart \/ SweepRow \/ SweepEnds \/ SweepFails \/ WebStop
  \/ \E j \in Jobs, c \in Subcommands : CreateJob(j, c)
  \/ Spawn \/ SpawnFails
  \/ \E j \in Jobs : ResetReads(j)
  \/ ResetJudges \/ ResetFails

ProcessStep(j) ==
  \/ RejectsArguments(j) \/ FailsToConnect(j)
  \/ MarkRunning(j) \/ Work(j) \/ MarkDone(j) \/ MarkError(j)
  \/ Kill(j) \/ Reap(j)

Next ==
  \/ WebStep
  \/ \E j \in Jobs : ProcessStep(j)
  \/ \E pid \in Pids : PidTaken(pid) \/ PidFreed(pid)

Spec == Init /\ [][Next]_vars

-----------------------------------------------------------------------------
(* Types.  A running row always carries the number of a process, because   *)
(* update_job writes both columns in one statement.                        *)
TypeOK ==
  /\ row \in [Jobs -> [status : Statuses, pid : Pids \cup {NoPid}]]
  /\ command \in [Jobs -> Subcommands \cup {"none"}]
  /\ proc \in [Jobs -> ProcStates]
  /\ exit \in [Jobs -> {"none", "ok", "error", "killed"}]
  /\ pidOf \in [Jobs -> Pids \cup {NoPid}]
  /\ foreign \subseteq Pids
  /\ web \in [task : Tasks, read : SUBSET (Jobs \X (Pids \cup {NoPid}))]
  /\ owed \subseteq Jobs
  /\ \A j \in Jobs : row[j].status = "running" => row[j].pid # NoPid

(* A job is turned into an error only when its process raised or has       *)
(* exited: neither the sweep nor the reset, which act on rows read before, *)
(* ever condemns a process that is still at work ("when its PID is dead",  *)
(* routes/jobs.py:67).                                                     *)
VerdictsAreTrue ==
  [][\A j \in Jobs :
       row[j].status # "error" /\ row'[j].status = "error"
         => proc[j] \in {"raised", "zombie", "gone"}]_vars

(* A job that has ended never goes back to queued or running: the badge    *)
(* stops polling at done or error (docs/deploy.md:1218).                   *)
EndedStaysEnded ==
  [][\A j \in Jobs : row[j].status \in Ended => row'[j].status \in Ended]_vars

(* When the web process serves, no job is running whose process was dead   *)
(* when it started (and whose number nobody was given since): the sweep    *)
(* reaches every row, whatever the other rows and processes do meanwhile.  *)
SweepMarksTheDead ==
  web.task \notin {"down", "sweep"} => \A j \in owed : row[j].status # "running"

(* A process that did its work and exited with status 0 leaves its job     *)
(* done (docs/deploy.md:1215, tests/test_indexer_job_id.py:38).            *)
SuccessIsReported ==
  \A j \in Jobs : exit[j] = "ok" => row[j].status = "done"
=============================================================================
