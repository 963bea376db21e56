---------------------- MODULE IncrementalIndexerProofs ----------------------
(***************************************************************************)
(* Theorems about IncrementalIndexer, for every value of its constants:    *)
(* types, mutual exclusion, the invariant of a worker, and that a full     *)
(* reindex mirrors HEAD.                                                   *)
(*                                                                         *)
(* Then, for constants in which checkouts are pulled and never rewritten,  *)
(* git diff answers, and sessions last: what the next run will skip is in  *)
(* the stores, and head_sha only advances.  The same for checkouts that    *)
(* are rewritten between undisturbed runs; and the dependents of a change  *)
(* are revisited.                                                          *)
(***************************************************************************)
EXTENDS IncrementalIndexer, TLAPS

-----------------------------------------------------------------------------
(* Type correctness                                                        *)

\* A run works on repositories of its profile, and a worker on a repository
\* that its run has not finished.
RunsAndWorkers ==
  /\ \A p \in Procs : run[p] # NoRun => run[p].todo \subseteq ReposOf(run[p].prof)
  /\ \A p \in Procs, r \in Repos : w[p][r].pc # "idle" => run[p] # NoRun /\ r \in run[p].todo

TypeInv == TypeOK /\ RunsAndWorkers

LEMMA TypeInvInit == Init => TypeInv
<1> SUFFICES ASSUME Init PROVE TypeInv
  OBVIOUS
<1> USE ConstantsAssumption
<1>1. 1 \in Commits /\ Absent \in Shas /\ NoSha \in Shas /\ Commits \subseteq Shas
  BY DEF Commits, Shas, NoSha, Absent
<1>2. IdleWorker \in Worker
  BY <1>1 DEF IdleWorker, Worker, Phases
<1>3. tree \in [Repos -> [Commits -> [Modules -> Shas]]]
  BY <1>1 DEF Init
<1>4. anc \in [Repos -> [Commits -> SUBSET Commits]]
  BY <1>1 DEF Init
<1>5. store \in [Modules -> Layers]
  BY <1>1 DEF Init, Layers
<1>6. TypeOK
  BY <1>1, <1>2, <1>3, <1>4, <1>5 DEF Init, TypeOK, Run
<1>7. RunsAndWorkers
  BY DEF Init, RunsAndWorkers, IdleWorker
<1> QED
  BY <1>6, <1>7 DEF TypeInv

LEMMA NewCommitType ==
  ASSUME TypeInv, NEW r \in Repos, NEW base \in Commits, NEW content \in [Modules -> Shas],
         NewCommit(r, base, content)
  PROVE  TypeInv'
<1> USE ConstantsAssumption
<1> DEFINE n == last[r] + 1
<1>1. n \in Commits
  BY DEF TypeInv, TypeOK, NewCommit, Commits
<1>2. head' \in [Repos -> Commits] /\ last' \in [Repos -> Commits]
  BY <1>1 DEF TypeInv, TypeOK, NewCommit
<1>3. anc' \in [Repos -> [Commits -> SUBSET Commits]]
  BY <1>1 DEF TypeInv, TypeOK, NewCommit
<1>4. tree' \in [Repos -> [Commits -> [Modules -> Shas]]]
  BY <1>1 DEF TypeInv, TypeOK, NewCommit
<1> QED
  BY <1>2, <1>3, <1>4 DEF TypeInv, TypeOK, NewCommit, RunsAndWorkers

LEMMA MoveType ==
  ASSUME TypeInv, NEW r \in Repos, Pull(r) \/ Amend(r) \/ Revert(r)
  PROVE  TypeInv'
<1> USE ConstantsAssumption
<1>1. ASSUME NEW base \in Commits, NEW touched \in SUBSET ModulesOf(r), NEW gone \in SUBSET touched,
             NewCommit(r, base, Touch(r, base, touched, gone))
      PROVE  Touch(r, base, touched, gone) \in [Modules -> Shas]
  <2>1. last[r] + 1 \in Shas /\ Absent \in Shas
    BY <1>1 DEF TypeInv, TypeOK, NewCommit, Commits, Shas, NoSha, Absent
  <2> QED
    BY <2>1 DEF Touch, TypeInv, TypeOK
<1>2. CASE Pull(r)
  <2>1. PICK touched \in SUBSET ModulesOf(r) : \E gone \in SUBSET touched :
          NewCommit(r, head[r], Touch(r, head[r], touched, gone))
    BY <1>2 DEF Pull
  <2>2. PICK gone \in SUBSET touched : NewCommit(r, head[r], Touch(r, head[r], touched, gone))
    BY <2>1
  <2>3. head[r] \in Commits
    BY DEF TypeInv, TypeOK
  <2> QED
    BY <1>1, <2>2, <2>3, NewCommitType
<1>3. CASE Amend(r)
  <2>1. PICK base \in anc[r][head[r]], touched \in SUBSET ModulesOf(r) :
          \E gone \in SUBSET touched : NewCommit(r, base, Touch(r, base, touched, gone))
    BY <1>3 DEF Amend
  <2>2. PICK gone \in SUBSET touched : NewCommit(r, base, Touch(r, base, touched, gone))
    BY <2>1
  <2>3. base \in Commits
    BY DEF TypeInv, TypeOK
  <2> QED
    BY <1>1, <2>2, <2>3, NewCommitType
<1>4. CASE Revert(r)
  <2>1. PICK old \in anc[r][head[r]] : NewCommit(r, head[r], tree[r][old])
    BY <1>4 DEF Revert
  <2>2. head[r] \in Commits /\ old \in Commits /\ tree[r][old] \in [Modules -> Shas]
    BY DEF TypeInv, TypeOK
  <2> QED
    BY <2>1, <2>2, NewCommitType
<1> QED
  BY <1>2, <1>3, <1>4

\* Begin, End, Crash and LoseSession.
LEMMA ProcessType ==
  ASSUME TypeInv, NEW p \in Procs,
         \/ \E prof \in Profiles, kind \in Kinds : Begin(p, prof, kind)
         \/ End(p) \/ Crash(p) \/ LoseSession(p)
  PROVE  TypeInv'
<1> USE ConstantsAssumption
<1>1. CASE \E prof \in Profiles, kind \in Kinds : Begin(p, prof, kind)
  <2>1. PICK prof \in Profiles, kind \in Kinds : Begin(p, prof, kind)
    BY <1>1
  <2>2. ReposOf(prof) \subseteq Repos
    BY DEF ReposOf
  <2>3. run' \in [Procs -> Run] /\ lock' \in [Profiles -> Procs \cup {NoProc}]
    BY <2>1, <2>2 DEF Begin, TypeInv, TypeOK, Run
  <2>4. RunsAndWorkers'
    <3>1. run'[p].prof = prof /\ run'[p].todo = ReposOf(prof)
      BY <2>1 DEF Begin, TypeInv, TypeOK
    <3>2. run[p] = NoRun /\ w' = w /\ \A q \in Procs : q # p => run'[q] = run[q]
      BY <2>1 DEF Begin, TypeInv, TypeOK
    <3>3. \A q \in Procs : run'[q] # NoRun => run'[q].todo \subseteq ReposOf(run'[q].prof)
      BY <3>1, <3>2 DEF TypeInv, RunsAndWorkers
    <3>4. \A q \in Procs, r \in Repos :
            w'[q][r].pc # "idle" => run'[q] # NoRun /\ r \in run'[q].todo
      BY <3>2 DEF TypeInv, RunsAndWorkers
    <3>5. \A profile : ReposOf(profile)' = ReposOf(profile)
      BY DEF ReposOf
    <3> QED
      BY <3>3, <3>4, <3>5 DEF RunsAndWorkers
  <2> QED
    BY <2>1, <2>3, <2>4 DEF Begin, TypeInv, TypeOK, gitVars, storeVars
<1>2. Unlock(p) \in [Profiles -> Procs \cup {NoProc}]
  BY DEF Unlock, TypeInv, TypeOK
<1>3. CASE End(p)
  <2>1. RunsAndWorkers'
    BY <1>3 DEF End, TypeInv, TypeOK, RunsAndWorkers, NoRun, ReposOf
  <2> QED
    BY <1>2, <1>3, <2>1 DEF End, TypeInv, TypeOK, Run, gitVars, storeVars
<1>4. CASE Crash(p)
  <2>1. IdleWorker \in Worker
    BY DEF IdleWorker, Worker, Phases, Shas, NoSha, Absent
  <2>2. w' \in [Procs -> [Repos -> Worker]]
    BY <1>4, <2>1 DEF Crash, TypeInv, TypeOK
  <2>3. RunsAndWorkers'
    BY <1>4 DEF Crash, TypeInv, TypeOK, RunsAndWorkers, NoRun, ReposOf, IdleWorker
  <2>4. faults' \in 0..MaxFaults
    BY <1>4 DEF Crash, TypeInv, TypeOK
  <2> QED
    BY <1>2, <1>4, <2>2, <2>3, <2>4 DEF Crash, TypeInv, TypeOK, Run, gitVars, storeVars
<1>5. CASE LoseSession(p)
  BY <1>2, <1>5 DEF LoseSession, TypeInv, TypeOK, RunsAndWorkers, gitVars, storeVars
<1> QED
  BY <1>1, <1>3, <1>4, <1>5

\* The steps of a worker that leave its run alone change w, and stored or the
\* graph and the table.
LEMMA WorkerType ==
  ASSUME TypeInv, NEW p \in Procs, NEW r \in Repos, NEW x \in Worker,
         w' = [w EXCEPT ![p][r] = x],
         x.pc # "idle" => run[p] # NoRun /\ r \in run[p].todo,
         UNCHANGED <<gitVars, status, lock, run, faults>>,
         stored' \in [Repos -> Shas], store' \in [Modules -> Layers],
         edges' \subseteq DependsOn, basis' \in [Modules -> [Modules -> Shas]]
  PROVE  TypeInv'
<1>1. w' \in [Procs -> [Repos -> Worker]]
  BY DEF TypeInv, TypeOK
<1>2. RunsAndWorkers'
  BY DEF TypeInv, TypeOK, RunsAndWorkers, ReposOf
<1> QED
  BY <1>1, <1>2 DEF TypeInv, TypeOK, gitVars

LEMMA SelectType ==
  ASSUME TypeInv, NEW p \in Procs, NEW r \in Repos,
         Skip(p, r) \/ Start(p, r) \/ Scan(p, r) \/ NothingChanged(p, r)
  PROVE  TypeInv'
<1> USE ConstantsAssumption
<1>0. w[p][r] \in Worker /\ IdleWorker \in Worker
  BY DEF TypeInv, TypeOK, IdleWorker, Worker, Phases, Shas, NoSha, Absent
<1>1. CASE Skip(p, r)
  <2>1. [IdleWorker EXCEPT !.pc = "status"] \in Worker
    BY <1>0 DEF Worker, Phases
  <2> QED
    BY <1>1, <2>1, WorkerType DEF Skip, MayStart, TypeInv, TypeOK, storeVars, gitVars
<1>2. CASE Start(p, r)
  <2>0. PICK cur \in ReadHead(r) : \E prev \in LastHead(p, r, cur) :
          w' = [w EXCEPT ![p][r] = [IdleWorker EXCEPT !.pc = "scan", !.cur = cur, !.prev = prev]]
    BY <1>2 DEF Start
  <2>1. PICK prev \in LastHead(p, r, cur) :
          w' = [w EXCEPT ![p][r] = [IdleWorker EXCEPT !.pc = "scan", !.cur = cur, !.prev = prev]]
    BY <2>0
  <2>2. cur \in Shas /\ prev \in Shas
    <3>1. head[r] \in Shas /\ stored[r] \in Shas /\ NoSha \in Shas
      BY DEF TypeInv, TypeOK, Shas
    <3>2. cur \in Shas
      BY <3>1 DEF ReadHead
    <3>3. \A y \in LastHead(p, r, cur) : y \in {NoSha, stored[r]}
      BY DEF LastHead
    <3> QED
      BY <3>1, <3>2, <3>3
  <2>3. [IdleWorker EXCEPT !.pc = "scan", !.cur = cur, !.prev = prev] \in Worker
    BY <1>0, <2>2 DEF Worker, Phases
  <2> QED
    BY <1>2, <2>1, <2>3, WorkerType DEF Start, MayStart, TypeInv, TypeOK, storeVars, gitVars
<1>3. CASE Scan(p, r)
  <2>1. PICK sel \in IF Incremental(w[p][r]) THEN Changed(r, w[p][r], Live(r)) ELSE {Live(r)} :
          w' = [w EXCEPT ![p][r] =
                  [w[p][r] EXCEPT !.pc = IF sel = {} THEN "gc" ELSE "parse",
                                  !.live = Live(r), !.sel = sel, !.todo = sel]]
    BY <1>3 DEF Scan
  <2>2. Live(r) \subseteq Modules /\ sel \subseteq Modules
    BY DEF Live, ModulesOf, Changed
  <2>3. [w[p][r] EXCEPT !.pc = IF sel = {} THEN "gc" ELSE "parse",
                        !.live = Live(r), !.sel = sel, !.todo = sel] \in Worker
    BY <1>0, <2>2 DEF Worker, Phases
  <2>4. run[p] # NoRun /\ r \in run[p].todo
    BY <1>3 DEF Scan, TypeInv, RunsAndWorkers
  <2> QED
    BY <1>3, <2>1, <2>3, <2>4, WorkerType DEF Scan, TypeInv, TypeOK, storeVars, gitVars
<1>4. CASE NothingChanged(p, r)
  <2>1. Live(r) \subseteq Modules
    BY DEF Live, ModulesOf
  <2>2. [w[p][r] EXCEPT !.pc = "status", !.live = Live(r)] \in Worker
    BY <1>0, <2>1 DEF Worker, Phases
  <2>3. run[p] # NoRun /\ r \in run[p].todo
    BY <1>4 DEF NothingChanged, TypeInv, RunsAndWorkers
  <2>4. stored' \in [Repos -> Shas]
    BY <1>0, <1>4 DEF NothingChanged, TypeInv, TypeOK, Worker
  <2> QED
    BY <1>4, <2>2, <2>3, <2>4, WorkerType DEF NothingChanged, TypeInv, TypeOK, storeVars, gitVars
<1> QED
  BY <1>1, <1>2, <1>3, <1>4

LEMMA PhaseStepType ==
  ASSUME NEW x \in Worker, NEW m \in Modules, NEW next \in {"models", "views", "gc"}
  PROVE  /\ PhaseStep(x, m, next) \in Worker
         /\ PhaseStep(x, m, next).pc # "idle" \/ x.pc = "idle"
  BY DEF PhaseStep, Worker, Phases

\* Rewriting one layer of a module.
LEMMA LayerWritten ==
  ASSUME NEW v \in Layers, NEW s \in Shas
  PROVE  /\ [v EXCEPT !.emb = s] \in Layers
         /\ [v EXCEPT !.models = s] \in Layers
         /\ [v EXCEPT !.views = s] \in Layers
  BY DEF Layers

LEMMA WriteType ==
  ASSUME TypeInv, NEW p \in Procs, NEW r \in Repos, NEW m \in Modules,
         Parse(p, r, m) \/ WriteModels(p, r, m) \/ WriteViews(p, r, m)
  PROVE  TypeInv'
<1> USE ConstantsAssumption
<1> DEFINE x == w[p][r]
<1>0. x \in Worker /\ Absent \in Shas /\ x.parsed[m] \in Shas
  BY DEF TypeInv, TypeOK, Worker, Shas, NoSha, Absent
<1>b. store \in [Modules -> Layers] /\ store[m] \in Layers
  BY DEF TypeInv, TypeOK
<1>a. x.pc # "idle" => run[p] # NoRun /\ r \in run[p].todo
  BY DEF TypeInv, RunsAndWorkers
<1>1. CASE Parse(p, r, m)
  <2> DEFINE content == tree[r][head[r]][m]
             y == [PhaseStep(x, m, "models") EXCEPT !.parsed[m] = content]
  <2>1. content \in Shas
    BY DEF TypeInv, TypeOK
  <2>2. y \in Worker
    <3>1. PhaseStep(x, m, "models") \in Worker
      BY <1>0, PhaseStepType
    <3> QED
      BY <2>1, <3>1 DEF Worker
  <2>3. store' \in [Modules -> Layers]
    <3>1. [store[m] EXCEPT !.emb = content] \in Layers
      BY <1>b, <2>1, LayerWritten
    <3>2. store' = store \/ store' = [store EXCEPT ![m] = [store[m] EXCEPT !.emb = content]]
      BY <1>1 DEF Parse
    <3> QED
      BY <1>b, <3>1, <3>2
  <2>4. w' = [w EXCEPT ![p][r] = y]
    BY <1>1 DEF Parse
  <2>5. run[p] # NoRun /\ r \in run[p].todo
    BY <1>1, <1>a DEF Parse
  <2>6. UNCHANGED <<gitVars, stored, status, edges, basis, lock, run, faults>>
    BY <1>1 DEF Parse
  <2> QED
    BY <2>2, <2>3, <2>4, <2>5, <2>6, WorkerType DEF TypeInv, TypeOK, gitVars
<1>2. CASE WriteModels(p, r, m)
  <2>1. PhaseStep(x, m, "views") \in Worker
    BY <1>0, PhaseStepType
  <2>2. store' \in [Modules -> Layers]
    <3>1. [store[m] EXCEPT !.models = x.parsed[m]] \in Layers
      BY <1>0, <1>b, LayerWritten
    <3>2. store' = [store EXCEPT ![m] = [store[m] EXCEPT !.models = x.parsed[m]]]
      BY <1>2 DEF WriteModels
    <3> QED
      BY <1>b, <3>1, <3>2
  <2>3. edges' \subseteq DependsOn
    BY <1>2 DEF WriteModels, TypeInv, TypeOK
  <2>4. \A d \in Modules : store[d].models \in Shas
    BY DEF TypeInv, TypeOK, Layers
  <2>5. basis' \in [Modules -> [Modules -> Shas]]
    BY <1>0, <1>2, <2>4 DEF WriteModels, TypeInv, TypeOK
  <2>6. w' = [w EXCEPT ![p][r] = PhaseStep(x, m, "views")]
    BY <1>2 DEF WriteModels
  <2>7. run[p] # NoRun /\ r \in run[p].todo
    BY <1>2, <1>a DEF WriteModels
  <2>8. UNCHANGED <<gitVars, stored, status, lock, run, faults>>
    BY <1>2 DEF WriteModels
  <2> QED
    BY <2>1, <2>2, <2>3, <2>5, <2>6, <2>7, <2>8, WorkerType DEF TypeInv, TypeOK, gitVars
<1>3. CASE WriteViews(p, r, m)
  <2>1. PhaseStep(x, m, "gc") \in Worker
    BY <1>0, PhaseStepType
  <2>2. store' \in [Modules -> Layers]
    <3>1. [store[m] EXCEPT !.views = x.parsed[m]] \in Layers
      BY <1>0, <1>b, LayerWritten
    <3>2. store' = [store EXCEPT ![m] = [store[m] EXCEPT !.views = x.parsed[m]]]
      BY <1>3 DEF WriteViews
    <3> QED
      BY <1>b, <3>1, <3>2
  <2>3. w' = [w EXCEPT ![p][r] = PhaseStep(x, m, "gc")]
    BY <1>3 DEF WriteViews
  <2>4. run[p] # NoRun /\ r \in run[p].todo
    BY <1>3, <1>a DEF WriteViews
  <2>5. UNCHANGED <<gitVars, stored, status, edges, basis, lock, run, faults>>
    BY <1>3 DEF WriteViews
  <2> QED
    BY <2>1, <2>2, <2>3, <2>4, <2>5, WorkerType DEF TypeInv, TypeOK, gitVars
<1> QED
  BY <1>1, <1>2, <1>3

\* CollectStale, Advance and Propagate.
LEMMA ClosingType ==
  ASSUME TypeInv, NEW p \in Procs, NEW r \in Repos,
         CollectStale(p, r) \/ Advance(p, r) \/ Propagate(p, r)
  PROVE  TypeInv'
<1> USE ConstantsAssumption
<1> DEFINE x == w[p][r]
<1>0. x \in Worker /\ Absent \in Shas /\ NoSha \in Shas
  BY DEF TypeInv, TypeOK, Shas, NoSha, Absent
<1>a. x.pc # "idle" => run[p] # NoRun /\ r \in run[p].todo
  BY DEF TypeInv, RunsAndWorkers
<1>1. CASE CollectStale(p, r)
  <2>1. [x EXCEPT !.pc = "advance"] \in Worker
    BY <1>0 DEF Worker, Phases
  <2>2. store' \in [Modules -> Layers]
    <3>1. \A m \in Modules : store[m] \in Layers /\ [store[m] EXCEPT !.models = Absent] \in Layers
      BY <1>0, LayerWritten DEF TypeInv, TypeOK
    <3>2. store' = [m \in Modules |-> IF m \in Stale(p, r)
                                        THEN [store[m] EXCEPT !.models = Absent] ELSE store[m]]
      BY <1>1 DEF CollectStale
    <3> QED
      BY <3>1, <3>2
  <2>3. edges' \subseteq DependsOn
    BY <1>1 DEF CollectStale, TypeInv, TypeOK
  <2>4. w' = [w EXCEPT ![p][r] = [x EXCEPT !.pc = "advance"]]
    BY <1>1 DEF CollectStale
  <2>5. run[p] # NoRun /\ r \in run[p].todo
    BY <1>1, <1>a DEF CollectStale
  <2>6. UNCHANGED <<gitVars, stored, status, basis, lock, run, faults>>
    BY <1>1 DEF CollectStale
  <2> QED
    BY <2>1, <2>2, <2>3, <2>4, <2>5, <2>6, WorkerType DEF TypeInv, TypeOK, gitVars
<1>2. CASE Advance(p, r)
  <2> DEFINE y == [x EXCEPT !.pc = IF Incremental(x) THEN "propagate" ELSE "status"]
  <2>1. y \in Worker
    BY <1>0 DEF Worker, Phases
  <2>2. stored' \in [Repos -> Shas]
    BY <1>0, <1>2 DEF Advance, TypeInv, TypeOK, Worker
  <2>3. w' = [w EXCEPT ![p][r] = y]
    BY <1>2 DEF Advance
  <2>4. run[p] # NoRun /\ r \in run[p].todo
    BY <1>2, <1>a DEF Advance
  <2>5. UNCHANGED <<gitVars, status, storeVars, lock, run, faults>>
    BY <1>2 DEF Advance
  <2> QED
    BY <2>1, <2>2, <2>3, <2>4, <2>5, WorkerType DEF TypeInv, TypeOK, gitVars, storeVars
<1>3. CASE Propagate(p, r)
  <2>1. [x EXCEPT !.pc = "status"] \in Worker
    BY <1>0 DEF Worker, Phases
  <2>2. stored' \in [Repos -> Shas]
    BY <1>0, <1>3 DEF Propagate, TypeInv, TypeOK
  <2>3. w' = [w EXCEPT ![p][r] = [x EXCEPT !.pc = "status"]]
    BY <1>3 DEF Propagate
  <2>4. run[p] # NoRun /\ r \in run[p].todo
    BY <1>3, <1>a DEF Propagate
  <2>5. UNCHANGED <<gitVars, status, storeVars, lock, run, faults>>
    BY <1>3 DEF Propagate
  <2> QED
    BY <2>1, <2>2, <2>3, <2>4, <2>5, WorkerType DEF TypeInv, TypeOK, gitVars, storeVars
<1> QED
  BY <1>1, <1>2, <1>3

\* Succeed and Fail.
LEMMA DoneType ==
  ASSUME TypeInv, NEW p \in Procs, NEW r \in Repos, Succeed(p, r) \/ Fail(p, r)
  PROVE  TypeInv'
<1> USE ConstantsAssumption
<1>1. IdleWorker \in Worker /\ IdleWorker.pc = "idle"
  BY DEF IdleWorker, Worker, Phases, Shas, NoSha, Absent
<1>2. PICK outcome \in {"indexed", "error"} : Done(p, r, outcome)
  BY DEF Succeed, Fail
<1>3. run[p] # NoRun /\ r \in run[p].todo
  <2>1. CASE Succeed(p, r)
    BY <2>1 DEF Succeed, TypeInv, RunsAndWorkers
  <2>2. CASE Fail(p, r)
    <3>1. MayStart(p, r) \/ w[p][r].pc # "idle"
      BY <2>2, ConstantsAssumption DEF Fail, Phases
    <3> QED
      BY <3>1 DEF MayStart, TypeInv, RunsAndWorkers
  <2> QED
    BY <2>1, <2>2
<1>4. run' \in [Procs -> Run]
  <2>1. [run[p] EXCEPT !.todo = @ \ {r}] \in Run
    <3>1. run[p] \in [pc : {"running"}, prof : Profiles, kind : Kinds, todo : SUBSET Repos]
      BY <1>3 DEF TypeInv, TypeOK, Run
    <3>2. [run[p] EXCEPT !.todo = @ \ {r}]
            \in [pc : {"running"}, prof : Profiles, kind : Kinds, todo : SUBSET Repos]
      BY <3>1
    <3> QED
      BY <3>2 DEF Run
  <2>2. run' = [run EXCEPT ![p] = [run[p] EXCEPT !.todo = @ \ {r}]]
    BY <1>2 DEF Done
  <2>3. run \in [Procs -> Run]
    BY DEF TypeInv, TypeOK
  <2> QED
    BY <2>1, <2>2, <2>3
<1>b. run[p] \in [pc : {"running"}, prof : Profiles, kind : Kinds, todo : SUBSET Repos]
  BY <1>3 DEF TypeInv, TypeOK, Run
<1>c. run'[p].pc = "running" /\ run'[p].prof = run[p].prof /\ run'[p].kind = run[p].kind
      /\ run'[p].todo = run[p].todo \ {r} /\ DOMAIN run'[p] = {"pc", "prof", "kind", "todo"}
  <2>1. run'[p] = [run[p] EXCEPT !.todo = @ \ {r}]
    BY <1>2 DEF Done, TypeInv, TypeOK
  <2> QED
    BY <1>b, <2>1
<1>d. \A q \in Procs : q # p => run'[q] = run[q]
  BY <1>2 DEF Done, TypeInv, TypeOK
<1>5. w' \in [Procs -> [Repos -> Worker]] /\ status' \in [Repos -> {"pending", "indexed", "error"}]
  BY <1>1, <1>2 DEF Done, TypeInv, TypeOK
<1>6. RunsAndWorkers'
  <2>1. \A q \in Procs : run'[q] # NoRun =>
          /\ run[q] # NoRun
          /\ run'[q].prof = run[q].prof
          /\ run'[q].todo = IF q = p THEN run[q].todo \ {r} ELSE run[q].todo
    <3>1. TAKE q \in Procs
    <3>2. CASE q = p
      BY <1>3, <1>b, <1>c, <3>2
    <3>3. CASE q # p
      BY <1>d, <3>3
    <3> QED
      BY <3>2, <3>3
  <2>2. \A q \in Procs : run[q] # NoRun => run'[q] # NoRun
    <3>1. TAKE q \in Procs
    <3>2. CASE q = p
      BY <1>c, <3>2 DEF NoRun
    <3>3. CASE q # p
      BY <1>d, <3>3
    <3> QED
      BY <3>2, <3>3
  <2>3. \A q \in Procs, s \in Repos :
          w'[q][s].pc # "idle" => w[q][s].pc # "idle" /\ ~(q = p /\ s = r)
    BY <1>1, <1>2 DEF Done, TypeInv, TypeOK
  <2>4. \A q \in Procs : run'[q] # NoRun => run'[q].todo \subseteq ReposOf(run'[q].prof)
    BY <2>1 DEF TypeInv, RunsAndWorkers
  <2>5. ASSUME NEW q \in Procs, NEW s \in Repos, w'[q][s].pc # "idle"
        PROVE  run'[q] # NoRun /\ s \in run'[q].todo
    <3>1. run[q] # NoRun /\ s \in run[q].todo /\ ~(q = p /\ s = r)
      BY <2>3, <2>5 DEF TypeInv, RunsAndWorkers
    <3> QED
      BY <2>1, <2>2, <3>1
  <2> QED
    BY <2>4, <2>5 DEF RunsAndWorkers, ReposOf
<1>7. faults' \in 0..MaxFaults
  BY DEF Succeed, Fail, TypeInv, TypeOK
<1>8. UNCHANGED <<gitVars, stored, storeVars, lock>>
  BY DEF Succeed, Fail
<1> QED
  BY <1>4, <1>5, <1>6, <1>7, <1>8 DEF TypeInv, TypeOK, gitVars, storeVars

LEMMA TypeInvNext == TypeInv /\ [Next]_vars => TypeInv'
<1> SUFFICES ASSUME TypeInv, [Next]_vars PROVE TypeInv'
  OBVIOUS
<1>1. CASE \E r \in Repos : Pull(r) \/ Amend(r) \/ Revert(r)
  BY <1>1, MoveType
<1>2. ASSUME NEW p \in Procs,
             \/ \E prof \in Profiles, kind \in Kinds : Begin(p, prof, kind)
             \/ End(p) \/ Crash(p) \/ LoseSession(p)
      PROVE  TypeInv'
  BY <1>2, ProcessType
<1>3. ASSUME NEW p \in Procs, NEW r \in Repos, WorkerStep(p, r) \/ Fail(p, r)
      PROVE  TypeInv'
  BY <1>3, SelectType, WriteType, ClosingType, DoneType DEF WorkerStep
<1>4. CASE UNCHANGED vars
  BY <1>4 DEF vars, TypeInv, TypeOK, RunsAndWorkers
<1> QED
  BY <1>1, <1>2, <1>3, <1>4 DEF Next

\* Every state has the types that TypeOK states: what is written to the
\* bookkeeping column, the graph and the table, and the workers' variables.
THEOREM TypeCorrect == Spec => []TypeOK
<1>1. Spec => []TypeInv
  BY TypeInvInit, TypeInvNext, PTL DEF Spec
<1>2. TypeInv => TypeOK
  BY DEF TypeInv
<1> QED
  BY <1>1, <1>2, PTL

-----------------------------------------------------------------------------
(* Mutual exclusion                                                        *)

\* A run holds the lock of its profile.
RunsHoldTheirLock == \A p \in Procs : run[p] # NoRun => lock[run[p].prof] = p

LockInv == TypeInv /\ RunsHoldTheirLock

LEMMA LockInvInit == Init => LockInv
  BY TypeInvInit DEF LockInv, RunsHoldTheirLock, Init

LEMMA RunsHoldTheirLockNext ==
  ASSUME ~SessionDrops, LockInv, [Next]_vars
  PROVE  RunsHoldTheirLock'
<1>0. /\ run \in [Procs -> Run]
      /\ lock \in [Profiles -> Procs \cup {NoProc}]
      /\ \A p \in Procs : run[p] # NoRun => run[p].prof \in Profiles
  BY DEF LockInv, TypeInv, TypeOK, Run
<1>1. ASSUME NEW p \in Procs, NEW prof \in Profiles, NEW kind \in Kinds, Begin(p, prof, kind)
      PROVE  RunsHoldTheirLock'
  BY <1>0, <1>1, ConstantsAssumption DEF Begin, LockInv, RunsHoldTheirLock
<1>2. ASSUME NEW p \in Procs, run[p] # NoRun, lock' = Unlock(p), run' = [run EXCEPT ![p] = NoRun]
      PROVE  RunsHoldTheirLock'
  <2> SUFFICES ASSUME NEW q \in Procs, run'[q] # NoRun
               PROVE  lock'[run'[q].prof] = q
    BY DEF RunsHoldTheirLock
  <2>1. q # p /\ run'[q] = run[q] /\ run[q] # NoRun
    BY <1>0, <1>2
  <2>2. lock[run[q].prof] = q /\ lock[run[p].prof] = p
    BY <1>2, <2>1 DEF LockInv, RunsHoldTheirLock
  <2>3. lock' = [lock EXCEPT ![run[p].prof] = NoProc]
    BY <1>2, <2>2 DEF Unlock
  <2> QED
    BY <1>0, <2>1, <2>2, <2>3
<1>3. ASSUME NEW p \in Procs, End(p) \/ Crash(p)
      PROVE  RunsHoldTheirLock'
  BY <1>2, <1>3 DEF End, Crash
<1>4. ASSUME NEW p \in Procs, NEW r \in Repos, Succeed(p, r) \/ Fail(p, r)
      PROVE  RunsHoldTheirLock'
  <2>1. run' = [run EXCEPT ![p].todo = @ \ {r}] /\ lock' = lock
    BY <1>4 DEF Succeed, Fail, Done
  <2>2. run[p] # NoRun
    <3>1. MayStart(p, r) \/ w[p][r].pc # "idle"
      BY <1>4, ConstantsAssumption DEF Succeed, Fail, Phases
    <3> QED
      BY <3>1 DEF MayStart, LockInv, TypeInv, RunsAndWorkers
  <2>3. \A q \in Procs : run'[q] # NoRun => run[q] # NoRun /\ run'[q].prof = run[q].prof
    BY <1>0, <2>1, <2>2 DEF Run, NoRun
  <2> QED
    BY <2>1, <2>3 DEF LockInv, RunsHoldTheirLock
<1>5. ASSUME UNCHANGED <<lock, run>>
      PROVE  RunsHoldTheirLock'
  BY <1>5 DEF LockInv, RunsHoldTheirLock
<1>6. ASSUME NEW r \in Repos, Pull(r) \/ Amend(r) \/ Revert(r)
      PROVE  UNCHANGED <<lock, run>>
  BY <1>6 DEF Pull, Amend, Revert, NewCommit
<1>7. ASSUME NEW p \in Procs, NEW r \in Repos, WorkerStep(p, r), ~Succeed(p, r)
      PROVE  UNCHANGED <<lock, run>>
  BY <1>7 DEF WorkerStep, Skip, Start, Scan, NothingChanged, Parse, WriteModels, WriteViews,
              CollectStale, Advance, Propagate
<1>8. UNCHANGED vars => UNCHANGED <<lock, run>>
  BY DEF vars
<1>9. \A p \in Procs : ~LoseSession(p)
  BY DEF LoseSession
<1> QED
  BY <1>1, <1>3, <1>4, <1>5, <1>6, <1>7, <1>8, <1>9 DEF Next

LEMMA LockInvExcludes == LockInv => OneWorkerPerRepo
<1> SUFFICES ASSUME LockInv, NEW p \in Procs, NEW q \in Procs, NEW r \in Repos,
                    w[p][r].pc # "idle", w[q][r].pc # "idle"
             PROVE  p = q
  BY DEF OneWorkerPerRepo
<1>1. run[p] # NoRun /\ ProfileOf[r] = run[p].prof
  BY DEF LockInv, TypeInv, RunsAndWorkers, ReposOf
<1>2. run[q] # NoRun /\ ProfileOf[r] = run[q].prof
  BY DEF LockInv, TypeInv, RunsAndWorkers, ReposOf
<1> QED
  BY <1>1, <1>2 DEF LockInv, RunsHoldTheirLock

\* While sessions last, the advisory lock of _indexer_lock keeps two workers
\* from one repository, whatever is killed and however many processes there are.
THEOREM MutualExclusion == ~SessionDrops => (Spec => []OneWorkerPerRepo)
<1> SUFFICES ASSUME ~SessionDrops PROVE Spec => []OneWorkerPerRepo
  OBVIOUS
<1>1. LockInv /\ [Next]_vars => LockInv'
  BY TypeInvNext, RunsHoldTheirLockNext DEF LockInv
<1>2. Spec => []LockInv
  BY <1>1, LockInvInit, PTL DEF Spec
<1> QED
  BY <1>2, LockInvExcludes, PTL

-----------------------------------------------------------------------------
(* The inductive invariant of a worker                                     *)

\* The content k of m was on disk after the worker read HEAD, and after what
\* repos.head_sha says.
ReadSince(r, x, m, k) ==
  \E h \in Commits : /\ x.cur <= h
                     /\ stored[r] <= h
                     /\ h <= head[r]
                     /\ tree[r][h][m] = k

Scanned(x) ==
  \/ x.pc \in {"parse", "models", "views", "gc", "advance", "propagate"}
  \/ x.pc = "status" /\ x.cur # NoSha

IsParsed(x, m) ==
  \/ x.pc = "parse" /\ m \notin x.todo
  \/ x.pc \in {"models", "views", "gc", "advance", "propagate", "status"}
ModelsWritten(x, m) ==
  \/ x.pc = "models" /\ m \notin x.todo
  \/ x.pc \in {"views", "gc", "advance", "propagate", "status"}
ViewsWritten(x, m) ==
  \/ x.pc = "views" /\ m \notin x.todo
  \/ x.pc \in {"gc", "advance", "propagate", "status"}

\* Commits are numbered as they are made; head_sha and the worker are behind HEAD.
Behind(r) == head[r] <= last[r] /\ stored[r] <= head[r]

Selection(p, r, x) ==
  /\ x.cur <= head[r]
  /\ x.cur # NoSha => stored[r] <= x.cur
  /\ x.todo \subseteq x.sel /\ x.sel \subseteq x.live /\ x.live \subseteq ModulesOf(r)
  /\ x.pc = "scan" => x.sel = {} /\ x.live = {}
  /\ run[p].kind.full => x.prev = NoSha
  /\ Scanned(x) => Incremental(x) \/ x.sel = x.live
  /\ Scanned(x) => \A m \in ModulesOf(r) \ x.live : ReadSince(r, x, m, Absent)

Progress(p, r, x) ==
  /\ \A m \in x.sel : IsParsed(x, m) => ReadSince(r, x, m, x.parsed[m])
  /\ \A m \in x.sel : ModelsWritten(x, m) => store[m].models = x.parsed[m]
  /\ \A m \in x.sel : ViewsWritten(x, m) => store[m].views = x.parsed[m]
  /\ x.pc \in {"advance", "propagate", "status"} /\ ~Incremental(x) /\ run[p].kind.gc /\ x.live # {} =>
       \A m \in ModulesOf(r) \ x.live : store[m].models = Absent

WorkerInv ==
  /\ \A r \in Repos : Behind(r)
  /\ \A p \in Procs, r \in Repos : w[p][r].pc # "idle" =>
       Selection(p, r, w[p][r]) /\ Progress(p, r, w[p][r])

-----------------------------------------------------------------------------
(* WorkerInv is inductive                                                  *)

LEMMA ShasAreNumbers ==
  Commits \subseteq Nat /\ Shas \subseteq Nat /\ Commits \subseteq Shas /\ NoSha \notin Commits
  BY ConstantsAssumption DEF Shas, NoSha, Commits

LEMMA WorkerInvInit == Init => WorkerInv
<1> SUFFICES ASSUME Init PROVE WorkerInv
  OBVIOUS
<1>1. \A r \in Repos : Behind(r)
  BY DEF Init, Behind, NoSha
<1> QED
  BY <1>1 DEF Init, WorkerInv, IdleWorker

\* A worker that does not move keeps its invariant when the others, or the
\* checkout's owner, do.
LEMMA KeepWorker ==
  ASSUME TypeInv, TypeInv', NEW p \in Procs, NEW r \in Repos, NEW x \in Worker,
         Selection(p, r, x), Progress(p, r, x),
         run'[p] # NoRun => run'[p].kind = run[p].kind,
         run'[p] # NoRun,
         head[r] <= head'[r],
         stored'[r] \in {stored[r], NoSha},
         \A h \in Commits : h <= head[r] => tree'[r][h] = tree[r][h],
         \A m \in ModulesOf(r) : store'[m] = store[m]
  PROVE  Selection(p, r, x)' /\ Progress(p, r, x)'
<1>1. /\ head[r] \in Nat /\ head'[r] \in Nat /\ stored[r] \in Nat /\ stored'[r] \in Nat
      /\ x.cur \in Nat /\ Commits \subseteq Nat
  BY ConstantsAssumption DEF TypeInv, TypeOK, Worker, Shas, NoSha, Commits
<1>2. ASSUME NEW m \in Modules, NEW k, ReadSince(r, x, m, k)
      PROVE  ReadSince(r, x, m, k)'
  <2>1. PICK h \in Commits : x.cur <= h /\ stored[r] <= h /\ h <= head[r] /\ tree[r][h][m] = k
    BY <1>2 DEF ReadSince
  <2>2. h <= head'[r] /\ stored'[r] <= h /\ tree'[r][h][m] = k
    BY <1>1, <2>1 DEF NoSha
  <2> QED
    BY <2>1, <2>2 DEF ReadSince
<1>3. ModulesOf(r) \subseteq Modules
  BY DEF ModulesOf
<1>4. Selection(p, r, x)'
  <2>1. x.cur <= head'[r] /\ (x.cur # NoSha => stored'[r] <= x.cur)
    BY <1>1 DEF Selection, NoSha
  <2>2. Scanned(x) => \A m \in ModulesOf(r) \ x.live : ReadSince(r, x, m, Absent)'
    BY <1>2, <1>3 DEF Selection
  <2> QED
    BY <2>1, <2>2 DEF Selection
<1>5. Progress(p, r, x)'
  <2>1. x.sel \subseteq ModulesOf(r)
    BY DEF Selection
  <2>2. \A m \in x.sel : IsParsed(x, m) => ReadSince(r, x, m, x.parsed[m])'
    BY <1>2, <1>3, <2>1 DEF Progress
  <2> QED
    BY <2>1, <2>2 DEF Progress
<1> QED
  BY <1>4, <1>5

LEMMA WorkerInvMove ==
  ASSUME TypeInv, TypeInv', WorkerInv, NEW r \in Repos, Pull(r) \/ Amend(r) \/ Revert(r)
  PROVE  WorkerInv'
<1>1. PICK base, content : NewCommit(r, base, content)
  BY DEF Pull, Amend, Revert
<1>2. /\ head \in [Repos -> Nat] /\ last \in [Repos -> Nat] /\ stored \in [Repos -> Nat]
      /\ tree \in [Repos -> [Commits -> [Modules -> Shas]]]
  BY ShasAreNumbers DEF TypeInv, TypeOK
<1>3. \A q \in Repos : /\ head[q] <= head'[q]
                       /\ Behind(q)'
                       /\ \A h \in Commits : h <= head[q] => tree'[q][h] = tree[q][h]
  BY <1>1, <1>2 DEF NewCommit, WorkerInv, Behind
<1>4. ASSUME NEW p \in Procs, NEW q \in Repos, w'[p][q].pc # "idle"
      PROVE  Selection(p, q, w[p][q])' /\ Progress(p, q, w[p][q])'
  <2>1. w' = w /\ run' = run /\ stored' = stored /\ store' = store
    BY <1>1 DEF NewCommit
  <2>2. w[p][q] \in Worker /\ run[p] # NoRun
    BY <1>4, <2>1 DEF TypeInv, TypeOK, RunsAndWorkers
  <2>3. Selection(p, q, w[p][q]) /\ Progress(p, q, w[p][q])
    BY <1>4, <2>1 DEF WorkerInv
  <2> DEFINE x == w[p][q]
  <2>4. x' = x
    BY <2>1
  <2> HIDE DEF x
  <2>5. Selection(p, q, x)' /\ Progress(p, q, x)'
    BY <1>3, <2>1, <2>2, <2>3, <2>4, KeepWorker DEF x
  <2> QED
    BY <2>5 DEF x
<1> QED
  BY <1>3, <1>4 DEF WorkerInv

\* It is enough to look at the worker that moves: no other one is on its
\* repository, and it writes no module of another repository.
LEMMA WorkerActs ==
  ASSUME TypeInv, TypeInv', OneWorkerPerRepo', WorkerInv,
         NEW p \in Procs, NEW r \in Repos, NEW y \in Worker,
         w' = [w EXCEPT ![p][r] = y], y.pc # "idle",
         UNCHANGED <<gitVars, run>>,
         \A q \in Repos \ {r} : stored'[q] \in {stored[q], NoSha},
         stored'[r] <= head[r],
         \A m \in Modules \ ModulesOf(r) : store'[m] = store[m],
         Selection(p, r, y)', Progress(p, r, y)'
  PROVE  WorkerInv'
<1>1. \A q \in Repos : Behind(q)'
  <2>1. \A q \in Repos : head[q] \in Nat /\ head'[q] = head[q] /\ last'[q] = last[q]
    BY ShasAreNumbers DEF gitVars, TypeInv, TypeOK
  <2>2. \A q \in Repos : head[q] <= last[q] /\ stored[q] <= head[q]
    BY DEF WorkerInv, Behind
  <2> QED
    BY <2>1, <2>2 DEF Behind, NoSha
<1>2. ASSUME NEW q \in Procs, NEW s \in Repos, w'[q][s].pc # "idle"
      PROVE  Selection(q, s, w[q][s])' /\ Progress(q, s, w[q][s])'
  <2> DEFINE x == w[q][s]
  <2>0. w \in [Procs -> [Repos -> Worker]]
    BY DEF TypeInv, TypeOK
  <2>1. CASE q = p /\ s = r
    <3>1. x' = y
      BY <2>0, <2>1
    <3> HIDE DEF x
    <3>2. Selection(q, s, x)' /\ Progress(q, s, x)'
      BY <2>1, <3>1
    <3> QED
      BY <3>2 DEF x
  <2>2. CASE s # r
    <3>1. x' = x /\ x \in Worker /\ x.pc # "idle"
      BY <1>2, <2>0, <2>2
    <3>2. Selection(q, s, x) /\ Progress(q, s, x)
      BY <3>1 DEF WorkerInv
    <3>3. run'[q] # NoRun /\ run' = run
      BY <1>2 DEF TypeInv, RunsAndWorkers
    <3>4. head' = head /\ tree' = tree /\ head[s] <= head'[s]
      <4>1. head[s] \in Nat
        BY ShasAreNumbers DEF TypeInv, TypeOK
      <4> QED
        BY <4>1 DEF gitVars
    <3>5. \A m \in ModulesOf(s) : store'[m] = store[m]
      BY <2>2 DEF ModulesOf
    <3> HIDE DEF x
    <3>6. Selection(q, s, x)' /\ Progress(q, s, x)'
      BY <2>2, <3>1, <3>2, <3>3, <3>4, <3>5, KeepWorker
    <3> QED
      BY <3>6 DEF x
  <2>3. CASE s = r /\ q # p
    <3>1. w'[p][r].pc # "idle"
      BY <2>0
    <3> QED
      BY <1>2, <2>3, <3>1 DEF OneWorkerPerRepo
  <2> QED
    BY <2>1, <2>2, <2>3
<1> QED
  BY <1>1, <1>2 DEF WorkerInv

LEMMA WorkerInvSelect ==
  ASSUME TypeInv, TypeInv', OneWorkerPerRepo', WorkerInv, NEW p \in Procs, NEW r \in Repos,
         Skip(p, r) \/ Start(p, r) \/ Scan(p, r) \/ NothingChanged(p, r)
  PROVE  WorkerInv'
<1>0. /\ w \in [Procs -> [Repos -> Worker]] /\ head[r] \in Commits /\ stored[r] \in Nat
      /\ head[r] \in Nat /\ stored \in [Repos -> Shas] /\ stored[r] <= head[r]
      /\ w' \in [Procs -> [Repos -> Worker]]
  BY ShasAreNumbers DEF TypeInv, TypeOK, WorkerInv, Behind
<1>1. CASE Skip(p, r)
  <2> DEFINE y == [IdleWorker EXCEPT !.pc = "status"]
  <2>1. w' = [w EXCEPT ![p][r] = y]
    BY <1>1 DEF Skip
  <2>2. y \in Worker
    BY <1>0, <2>1 DEF TypeInv, TypeOK
  <2>3. /\ y.pc = "status" /\ y.cur = NoSha /\ y.prev = NoSha
        /\ y.live = {} /\ y.sel = {} /\ y.todo = {}
    BY DEF IdleWorker
  <2> HIDE DEF y
  <2>4. UNCHANGED <<gitVars, run, stored, store>>
    BY <1>1 DEF Skip, storeVars
  <2>5. Selection(p, r, y)' /\ Progress(p, r, y)'
    BY <1>0, <2>3, <2>4 DEF Selection, Progress, Scanned, NoSha, gitVars
  <2> QED
    BY <1>0, <2>1, <2>2, <2>3, <2>4, <2>5, WorkerActs
<1>2. CASE Start(p, r)
  <2>0. PICK cur \in ReadHead(r) : \E prev \in LastHead(p, r, cur) :
          w' = [w EXCEPT ![p][r] = [IdleWorker EXCEPT !.pc = "scan", !.cur = cur, !.prev = prev]]
    BY <1>2 DEF Start
  <2>1. PICK prev \in LastHead(p, r, cur) :
          w' = [w EXCEPT ![p][r] = [IdleWorker EXCEPT !.pc = "scan", !.cur = cur, !.prev = prev]]
    BY <2>0
  <2> DEFINE y == [IdleWorker EXCEPT !.pc = "scan", !.cur = cur, !.prev = prev]
  <2>2. w' = [w EXCEPT ![p][r] = y] /\ y \in Worker
    BY <1>0, <2>1 DEF TypeInv, TypeOK
  <2>3. /\ y.pc = "scan" /\ y.cur = cur /\ y.prev = prev
        /\ y.live = {} /\ y.sel = {} /\ y.todo = {}
    BY DEF IdleWorker
  <2>4. UNCHANGED <<gitVars, run, stored, store>>
    BY <1>2 DEF Start, storeVars
  <2>5. cur \in {head[r], NoSha} /\ (run[p].kind.full => prev = NoSha)
    BY DEF ReadHead, LastHead, NoSha
  <2>6. cur <= head[r] /\ (cur # NoSha => stored[r] <= cur)
    BY <1>0, <2>5 DEF NoSha
  <2> HIDE DEF y
  <2>7. Selection(p, r, y)' /\ Progress(p, r, y)'
    BY <2>3, <2>4, <2>5, <2>6 DEF Selection, Progress, Scanned, gitVars
  <2> QED
    BY <1>0, <2>2, <2>3, <2>4, <2>7, WorkerActs
<1>a. PICK x \in Worker : x = w[p][r]
  BY <1>0
<1>b. PICK L \in SUBSET Modules : L = Live(r)
  BY DEF Live, ModulesOf
<1>3. L \subseteq ModulesOf(r) /\ \A m \in ModulesOf(r) \ L : tree[r][head[r]][m] = Absent
  BY <1>b DEF Live
<1>4. ASSUME NEW y \in Worker, y.cur = x.cur, y.live = L, UNCHANGED gitVars, stored'[r] <= head[r],
             x.pc # "idle"
      PROVE  \A m \in ModulesOf(r) \ y.live : ReadSince(r, y, m, Absent)'
  <2>1. x.cur <= head[r]
    BY <1>4, <1>a DEF WorkerInv, Selection
  <2> QED
    BY <1>0, <1>3, <1>4, <2>1 DEF ReadSince, gitVars
<1>5. CASE Scan(p, r)
  <2>1. PICK sel \in IF Incremental(x) THEN Changed(r, x, L) ELSE {L} :
          w' = [w EXCEPT ![p][r] = [x EXCEPT !.pc = IF sel = {} THEN "gc" ELSE "parse",
                                             !.live = L, !.sel = sel, !.todo = sel]]
    BY <1>5, <1>a, <1>b DEF Scan
  <2> DEFINE y == [x EXCEPT !.pc = IF sel = {} THEN "gc" ELSE "parse",
                            !.live = L, !.sel = sel, !.todo = sel]
  <2>2. w' = [w EXCEPT ![p][r] = y] /\ y \in Worker
    BY <1>0, <2>1
  <2>4. /\ y.pc = (IF sel = {} THEN "gc" ELSE "parse") /\ y.cur = x.cur /\ y.prev = x.prev
        /\ y.live = L /\ y.sel = sel /\ y.todo = sel
    BY DEF Worker
  <2>5. UNCHANGED <<gitVars, run, stored, store>>
    BY <1>5 DEF Scan, storeVars
  <2>6. sel \subseteq L /\ (Incremental(x) \/ sel = L)
    BY DEF Changed
  <2>7. x.pc = "scan" /\ Selection(p, r, x)
    BY <1>5, <1>a DEF Scan, WorkerInv
  <2> HIDE DEF y
  <2>8. \A m \in ModulesOf(r) \ y.live : ReadSince(r, y, m, Absent)'
    BY <1>0, <1>4, <2>2, <2>4, <2>5, <2>7
  <2>9. Selection(p, r, y)'
    BY <1>3, <2>4, <2>5, <2>6, <2>7, <2>8 DEF Selection, Incremental, gitVars
  <2>10. Progress(p, r, y)'
    BY <2>4 DEF Progress, IsParsed, ModelsWritten, ViewsWritten
  <2> QED
    BY <1>0, <2>2, <2>4, <2>5, <2>9, <2>10, WorkerActs
<1>6. CASE NothingChanged(p, r)
  <2> DEFINE y == [x EXCEPT !.pc = "status", !.live = L]
  <2>1. w' = [w EXCEPT ![p][r] = y] /\ y \in Worker
    BY <1>0, <1>6, <1>a, <1>b DEF NothingChanged
  <2>2. /\ y.pc = "status" /\ y.cur = x.cur /\ y.prev = x.prev
        /\ y.live = L /\ y.sel = x.sel /\ y.todo = x.todo
    BY DEF Worker
  <2>3. UNCHANGED <<gitVars, run, store>> /\ stored' = [stored EXCEPT ![r] = x.cur]
    BY <1>6, <1>a DEF NothingChanged, storeVars
  <2>4. x.pc = "scan" /\ Incremental(x) /\ Selection(p, r, x)
    BY <1>6, <1>a DEF NothingChanged, WorkerInv
  <2>5. stored'[r] = x.cur /\ x.cur <= head[r] /\ \A q \in Repos \ {r} : stored'[q] = stored[q]
    BY <1>0, <2>3, <2>4 DEF Selection
  <2> HIDE DEF y
  <2>6. \A m \in ModulesOf(r) \ y.live : ReadSince(r, y, m, Absent)'
    BY <1>4, <2>1, <2>2, <2>3, <2>4, <2>5
  <2>7. x.cur \in Nat
    BY ShasAreNumbers DEF Worker
  <2>8. Selection(p, r, y)' /\ Progress(p, r, y)'
    BY <1>3, <2>2, <2>3, <2>4, <2>5, <2>6, <2>7 DEF Selection, Progress, Incremental, gitVars
  <2> QED
    BY <1>0, <2>1, <2>2, <2>3, <2>5, <2>8, WorkerActs
<1> QED
  BY <1>1, <1>2, <1>5, <1>6

LEMMA PhaseStepFields ==
  ASSUME NEW x \in Worker, NEW m, NEW next \in {"models", "views", "gc"}
  PROVE  LET y == PhaseStep(x, m, next) IN
         /\ y.pc = IF x.todo = {m} THEN next ELSE x.pc
         /\ y.todo = IF x.todo = {m} THEN x.sel ELSE x.todo \ {m}
         /\ y.cur = x.cur /\ y.prev = x.prev /\ y.live = x.live /\ y.sel = x.sel
         /\ y.parsed = x.parsed
  BY DEF PhaseStep, Worker

LEMMA ReadSinceKept ==
  ASSUME TypeInv, TypeInv', NEW r \in Repos, NEW x \in Worker, NEW y \in Worker, y.cur = x.cur,
         UNCHANGED gitVars, stored'[r] \in {stored[r], x.cur},
         NEW m, NEW k, ReadSince(r, x, m, k)
  PROVE  ReadSince(r, y, m, k)'
  BY DEF ReadSince, gitVars

LEMMA WorkerInvWrite ==
  ASSUME TypeInv, TypeInv', OneWorkerPerRepo', WorkerInv,
         NEW p \in Procs, NEW r \in Repos, NEW m \in Modules,
         Parse(p, r, m) \/ WriteModels(p, r, m) \/ WriteViews(p, r, m)
  PROVE  WorkerInv'
<1>0. /\ w \in [Procs -> [Repos -> Worker]] /\ head[r] \in Commits /\ stored[r] <= head[r]
      /\ head[r] \in Nat /\ store \in [Modules -> Layers] /\ store' \in [Modules -> Layers]
  BY ShasAreNumbers DEF TypeInv, TypeOK, WorkerInv, Behind
<1>1. PICK x \in Worker : x = w[p][r]
  BY <1>0
<1>2. /\ x.pc \in {"parse", "models", "views"} /\ m \in x.todo
      /\ Selection(p, r, x) /\ Progress(p, r, x)
  BY <1>1 DEF Parse, WriteModels, WriteViews, WorkerInv
<1>3. m \in x.sel /\ x.sel \subseteq x.live /\ x.live \subseteq ModulesOf(r) /\ ModulesOf(r) \subseteq Modules
  BY <1>2 DEF Selection, ModulesOf
<1>4. UNCHANGED <<gitVars, run, stored>> /\ \A n \in Modules \ {m} : store'[n] = store[n]
  BY <1>0 DEF Parse, WriteModels, WriteViews
<1>5. ASSUME NEW y \in Worker, y.cur = x.cur, y.prev = x.prev, y.live = x.live, y.sel = x.sel,
             y.todo \subseteq x.sel, y.pc \in {"parse", "models", "views", "gc"},
             w' = [w EXCEPT ![p][r] = y], Progress(p, r, y)'
      PROVE  WorkerInv'
  <2>1. \A n \in ModulesOf(r) \ y.live : ReadSince(r, y, n, Absent)'
    <3>1. \A n \in ModulesOf(r) \ x.live : ReadSince(r, x, n, Absent)
      BY <1>2 DEF Selection, Scanned
    <3> QED
      BY <3>1, <1>4, <1>5, ReadSinceKept
  <2>2. Selection(p, r, y)'
    BY <1>2, <1>4, <1>5, <2>1 DEF Selection, Scanned, Incremental, gitVars
  <2> QED
    BY <1>0, <1>3, <1>4, <1>5, <2>2, WorkerActs
<1>6. CASE Parse(p, r, m)
  <2>1. PICK content \in Shas : content = tree[r][head[r]][m]
    BY DEF TypeInv, TypeOK
  <2> DEFINE z == PhaseStep(x, m, "models")
             y == [z EXCEPT !.parsed[m] = content]
  <2>2. w' = [w EXCEPT ![p][r] = y]
    BY <1>1, <1>6, <2>1 DEF Parse
  <2>3. z \in Worker
    BY PhaseStepType
  <2>a. /\ z.pc = IF x.todo = {m} THEN "models" ELSE x.pc
        /\ z.todo = IF x.todo = {m} THEN x.sel ELSE x.todo \ {m}
        /\ z.cur = x.cur /\ z.prev = x.prev /\ z.live = x.live /\ z.sel = x.sel
        /\ z.parsed = x.parsed
    BY PhaseStepFields
  <2> HIDE DEF z
  <2>b. y \in Worker
    BY <2>3 DEF Worker
  <2>c. y.parsed = [x.parsed EXCEPT ![m] = content]
    BY <2>3, <2>a DEF Worker
  <2>d. /\ y.pc = z.pc /\ y.todo = z.todo /\ y.cur = z.cur /\ y.prev = z.prev
        /\ y.live = z.live /\ y.sel = z.sel
    BY <2>3 DEF Worker
  <2> HIDE DEF y
  <2>4. y \in Worker /\ y.parsed = [x.parsed EXCEPT ![m] = content]
    BY <2>b, <2>c
  <2>5. /\ y.pc = IF x.todo = {m} THEN "models" ELSE x.pc
        /\ y.todo = IF x.todo = {m} THEN x.sel ELSE x.todo \ {m}
        /\ y.cur = x.cur /\ y.prev = x.prev /\ y.live = x.live /\ y.sel = x.sel
    BY <2>a, <2>d
  <2>6. x.pc = "parse"
    BY <1>1, <1>6 DEF Parse
  <2>7. ASSUME NEW n \in x.sel, IsParsed(y, n)
        PROVE  ReadSince(r, y, n, y.parsed[n])'
    <3>1. CASE n = m
      <4>1. y.parsed[m] = content
        BY <2>4 DEF Worker
      <4>2. x.cur <= head[r]
        BY <1>2 DEF Selection
      <4> QED
        BY <1>0, <1>4, <2>1, <2>5, <3>1, <4>1, <4>2 DEF ReadSince, gitVars
    <3>2. CASE n # m
      <4>1. IsParsed(x, n)
        BY <2>5, <2>6, <2>7, <3>2 DEF IsParsed
      <4>2. y.parsed[n] = x.parsed[n]
        BY <1>3, <2>4, <3>2 DEF Worker
      <4>3. ReadSince(r, x, n, x.parsed[n])
        BY <1>2, <4>1 DEF Progress
      <4> QED
        BY <1>4, <2>4, <2>5, <4>2, <4>3, ReadSinceKept
    <3> QED
      BY <3>1, <3>2
  <2>8. Progress(p, r, y)'
    BY <2>5, <2>6, <2>7 DEF Progress, ModelsWritten, ViewsWritten
  <2>9. y.todo \subseteq x.sel
    BY <1>2, <2>5 DEF Selection
  <2> QED
    BY <1>5, <2>2, <2>4, <2>5, <2>6, <2>8, <2>9
<1>7. ASSUME NEW next \in {"models", "views", "gc"}, w' = [w EXCEPT ![p][r] = PhaseStep(x, m, next)],
             Progress(p, r, PhaseStep(x, m, next))', x.pc # "parse"
      PROVE  WorkerInv'
  <2> DEFINE y == PhaseStep(x, m, next)
  <2>1. y \in Worker
    BY PhaseStepType
  <2>2. x.todo \subseteq x.sel
    BY <1>2 DEF Selection
  <2>3. /\ y.pc = IF x.todo = {m} THEN next ELSE x.pc
        /\ y.todo = IF x.todo = {m} THEN x.sel ELSE x.todo \ {m}
        /\ y.cur = x.cur /\ y.prev = x.prev /\ y.live = x.live /\ y.sel = x.sel
    BY DEF PhaseStep, Worker
  <2>4. w' = [w EXCEPT ![p][r] = y] /\ Progress(p, r, y)'
    BY <1>7
  <2> HIDE DEF y
  <2> QED
    BY <1>2, <1>5, <1>7, <2>1, <2>2, <2>3, <2>4
<1>8. ASSUME NEW y \in Worker, y.cur = x.cur, y.sel = x.sel, y.parsed = x.parsed, x.pc # "parse"
      PROVE  \A n \in y.sel : IsParsed(y, n) => ReadSince(r, y, n, y.parsed[n])'
  <2>1. \A n \in x.sel : ReadSince(r, x, n, x.parsed[n])
    BY <1>2, <1>8 DEF Progress, IsParsed
  <2> QED
    BY <1>4, <1>8, <2>1, ReadSinceKept
<1>9. CASE WriteModels(p, r, m)
  <2> DEFINE y == PhaseStep(x, m, "views")
  <2>1. w' = [w EXCEPT ![p][r] = y] /\ store' = [store EXCEPT ![m].models = x.parsed[m]]
    BY <1>1, <1>9 DEF WriteModels
  <2>2. x.pc = "models"
    BY <1>1, <1>9 DEF WriteModels
  <2>3. y \in Worker
    BY PhaseStepType
  <2>4. /\ y.pc = IF x.todo = {m} THEN "views" ELSE x.pc
        /\ y.todo = IF x.todo = {m} THEN x.sel ELSE x.todo \ {m}
        /\ y.cur = x.cur /\ y.sel = x.sel /\ y.parsed = x.parsed
    BY PhaseStepFields
  <2> HIDE DEF y
  <2>5. store'[m].models = x.parsed[m]
    BY <1>0, <2>1 DEF Layers
  <2>6. ASSUME NEW n \in x.sel, ModelsWritten(y, n)
        PROVE  store'[n].models = y.parsed[n]
    <3>1. CASE n = m
      BY <2>4, <2>5, <3>1
    <3>2. CASE n # m
      <4>1. ModelsWritten(x, n)
        BY <2>2, <2>4, <2>6, <3>2 DEF ModelsWritten
      <4> QED
        BY <1>2, <1>3, <1>4, <2>4, <3>2, <4>1 DEF Progress
    <3> QED
      BY <3>1, <3>2
  <2>7. \A n \in x.sel : ~ViewsWritten(y, n)
    BY <2>2, <2>4 DEF ViewsWritten
  <2>8. Progress(p, r, y)'
    BY <1>8, <2>2, <2>3, <2>4, <2>6, <2>7 DEF Progress
  <2> QED
    BY <1>7, <2>1, <2>2, <2>8 DEF y
<1>10. CASE WriteViews(p, r, m)
  <2> DEFINE y == PhaseStep(x, m, "gc")
  <2>1. w' = [w EXCEPT ![p][r] = y] /\ store' = [store EXCEPT ![m].views = x.parsed[m]]
    BY <1>1, <1>10 DEF WriteViews
  <2>2. x.pc = "views"
    BY <1>1, <1>10 DEF WriteViews
  <2>3. y \in Worker
    BY PhaseStepType
  <2>4. /\ y.pc = IF x.todo = {m} THEN "gc" ELSE x.pc
        /\ y.todo = IF x.todo = {m} THEN x.sel ELSE x.todo \ {m}
        /\ y.cur = x.cur /\ y.sel = x.sel /\ y.parsed = x.parsed
    BY PhaseStepFields
  <2> HIDE DEF y
  <2>5. store'[m].views = x.parsed[m] /\ store'[m].models = store[m].models
    BY <1>0, <2>1 DEF Layers
  <2>6. ASSUME NEW n \in x.sel
        PROVE  store'[n].models = y.parsed[n]
    <3>1. store[n].models = x.parsed[n]
      BY <1>2, <2>2 DEF Progress, ModelsWritten
    <3> QED
      BY <1>3, <1>4, <2>4, <2>5, <3>1
  <2>7. ASSUME NEW n \in x.sel, ViewsWritten(y, n)
        PROVE  store'[n].views = y.parsed[n]
    <3>1. CASE n = m
      BY <2>4, <2>5, <3>1
    <3>2. CASE n # m
      <4>1. ViewsWritten(x, n)
        BY <2>2, <2>4, <2>7, <3>2 DEF ViewsWritten
      <4> QED
        BY <1>2, <1>3, <1>4, <2>4, <3>2, <4>1 DEF Progress
    <3> QED
      BY <3>1, <3>2
  <2>8. Progress(p, r, y)'
    BY <1>8, <2>2, <2>3, <2>4, <2>6, <2>7 DEF Progress
  <2> QED
    BY <1>7, <2>1, <2>2, <2>8 DEF y
<1> QED
  BY <1>6, <1>9, <1>10

LEMMA WorkerInvClose ==
  ASSUME TypeInv, TypeInv', OneWorkerPerRepo', WorkerInv, NEW p \in Procs, NEW r \in Repos,
         CollectStale(p, r) \/ Advance(p, r) \/ Propagate(p, r)
  PROVE  WorkerInv'
<1>0. /\ w \in [Procs -> [Repos -> Worker]] /\ stored[r] <= head[r] /\ stored \in [Repos -> Shas]
      /\ store \in [Modules -> Layers]
  BY DEF TypeInv, TypeOK, WorkerInv, Behind
<1>1. PICK x \in Worker : x = w[p][r]
  BY <1>0
<1>2. /\ x.pc \in {"gc", "advance", "propagate"}
      /\ Selection(p, r, x) /\ Progress(p, r, x)
  BY <1>1 DEF CollectStale, Advance, Propagate, WorkerInv
<1>3. x.sel \subseteq x.live /\ x.live \subseteq ModulesOf(r) /\ ModulesOf(r) \subseteq Modules
  BY <1>2 DEF Selection, ModulesOf
<1>4. UNCHANGED <<gitVars, run>>
  BY DEF CollectStale, Advance, Propagate
\* The three steps write no module of the selection, and end the phase.
<1>5. ASSUME NEW pc \in {"advance", "propagate", "status"},
             w' = [w EXCEPT ![p][r].pc = pc],
             stored'[r] \in {stored[r], x.cur},
             \A q \in Repos \ {r} : stored'[q] \in {stored[q], NoSha},
             \A m \in (Modules \ ModulesOf(r)) \cup x.sel : store'[m] = store[m],
             ~Incremental(x) /\ run[p].kind.gc /\ x.live # {} =>
               \A m \in ModulesOf(r) \ x.live : store'[m].models = Absent
      PROVE  WorkerInv'
  <2> DEFINE y == [x EXCEPT !.pc = pc]
  <2>1. y \in Worker
    BY DEF Worker, Phases
  <2>2. w' = [w EXCEPT ![p][r] = y]
    BY <1>1, <1>5
  <2>3. /\ y.pc = pc /\ y.cur = x.cur /\ y.prev = x.prev /\ y.live = x.live
        /\ y.sel = x.sel /\ y.todo = x.todo /\ y.parsed = x.parsed
    BY DEF Worker
  <2> HIDE DEF y
  <2>4. x.cur <= head[r] /\ stored'[r] <= head[r]
    BY <1>0, <1>2, <1>5 DEF Selection
  <2>5. \A m \in ModulesOf(r) \ y.live : ReadSince(r, y, m, Absent)'
    <3>1. \A m \in ModulesOf(r) \ x.live : ReadSince(r, x, m, Absent)
      BY <1>2 DEF Selection, Scanned
    <3> QED
      BY <1>4, <1>5, <2>1, <2>3, <3>1, ReadSinceKept
  <2>6. x.cur # NoSha => stored'[r] <= x.cur
    <3>1. x.cur \in Nat
      BY ShasAreNumbers DEF Worker
    <3> QED
      BY <1>2, <1>5, <3>1 DEF Selection
  <2>7. Selection(p, r, y)'
    <3>1. Incremental(x) \/ x.sel = x.live
      BY <1>2 DEF Selection, Scanned
    <3> QED
      BY <1>2, <1>4, <1>5, <2>3, <2>4, <2>5, <2>6, <3>1 DEF Selection, Incremental, gitVars
  <2>8. \A m \in y.sel : ReadSince(r, y, m, y.parsed[m])'
    <3>1. \A m \in x.sel : ReadSince(r, x, m, x.parsed[m])
      BY <1>2 DEF Progress, IsParsed
    <3> QED
      BY <1>4, <1>5, <2>1, <2>3, <3>1, ReadSinceKept
  <2>9. \A m \in y.sel : store'[m].models = y.parsed[m] /\ store'[m].views = y.parsed[m]
    <3>1. \A m \in x.sel : store[m].models = x.parsed[m] /\ store[m].views = x.parsed[m]
      BY <1>2 DEF Progress, ModelsWritten, ViewsWritten
    <3> QED
      BY <1>5, <2>3, <3>1
  <2>10. Progress(p, r, y)'
    BY <1>4, <1>5, <2>3, <2>8, <2>9 DEF Progress, Incremental
  <2> QED
    BY <1>4, <1>5, <2>1, <2>2, <2>3, <2>4, <2>7, <2>10, WorkerActs
<1>6. CASE CollectStale(p, r)
  <2>1. \A m \in Modules : store'[m] = IF m \in Stale(p, r)
                                         THEN [store[m] EXCEPT !.models = Absent] ELSE store[m]
    BY <1>6 DEF CollectStale
  <2>2. \A m \in (Modules \ ModulesOf(r)) \cup x.sel : m \in Modules /\ m \notin Stale(p, r)
    BY <1>1, <1>3 DEF Stale
  <2>3. ~Incremental(x) /\ run[p].kind.gc /\ x.live # {} =>
          \A m \in ModulesOf(r) \ x.live : store'[m].models = Absent
    <3>1. ~Incremental(x) /\ run[p].kind.gc /\ x.live # {} =>
            \A m \in ModulesOf(r) \ x.live : store'[m] = [store[m] EXCEPT !.models = Absent]
      BY <1>1, <1>3, <2>1 DEF Stale
    <3>2. ASSUME NEW m \in Modules
          PROVE  [store[m] EXCEPT !.models = Absent].models = Absent
      <4>1. store[m] \in Layers
        BY <1>0
      <4> QED
        BY <4>1 DEF Layers
    <3> QED
      BY <1>3, <3>1, <3>2
  <2>4. w' = [w EXCEPT ![p][r].pc = "advance"] /\ stored' = stored
    BY <1>6 DEF CollectStale
  <2> QED
    BY <1>5, <2>1, <2>2, <2>3, <2>4
<1>7. CASE Advance(p, r)
  <2>1. PICK pc \in {"propagate", "status"} : w' = [w EXCEPT ![p][r].pc = pc]
    BY <1>7 DEF Advance
  <2>2. x.pc = "advance" /\ store' = store
    BY <1>1, <1>7 DEF Advance, storeVars
  <2>3. stored'[r] \in {stored[r], x.cur} /\ \A q \in Repos \ {r} : stored'[q] = stored[q]
    BY <1>0, <1>1, <1>7 DEF Advance
  <2>4. ~Incremental(x) /\ run[p].kind.gc /\ x.live # {} =>
          \A m \in ModulesOf(r) \ x.live : store[m].models = Absent
    BY <1>2, <2>2 DEF Progress
  <2> QED
    BY <1>5, <2>1, <2>2, <2>3, <2>4
<1>8. CASE Propagate(p, r)
  <2>1. w' = [w EXCEPT ![p][r].pc = "status"] /\ x.pc = "propagate" /\ store' = store
    BY <1>1, <1>8 DEF Propagate, storeVars
  <2>2. stored'[r] = stored[r] /\ \A q \in Repos \ {r} : stored'[q] \in {stored[q], NoSha}
    BY <1>0, <1>8 DEF Propagate, DependentRepos
  <2>3. ~Incremental(x) /\ run[p].kind.gc /\ x.live # {} =>
          \A m \in ModulesOf(r) \ x.live : store[m].models = Absent
    BY <1>2, <2>1 DEF Progress
  <2> QED
    BY <1>5, <2>1, <2>2, <2>3
<1> QED
  BY <1>6, <1>7, <1>8

\* Whatever starts, ends or breaks runs leaves the stores alone and moves no
\* worker except to idle.
LEMMA WorkerInvRun ==
  ASSUME TypeInv, TypeInv', WorkerInv, UNCHANGED <<gitVars, stored, storeVars>>,
         \A p \in Procs, r \in Repos : w'[p][r].pc # "idle" =>
           /\ w'[p][r] = w[p][r]
           /\ run'[p].kind = run[p].kind
  PROVE  WorkerInv'
<1>1. \A r \in Repos : Behind(r)'
  BY DEF WorkerInv, Behind, gitVars
<1>2. ASSUME NEW p \in Procs, NEW r \in Repos, w'[p][r].pc # "idle"
      PROVE  Selection(p, r, w[p][r])' /\ Progress(p, r, w[p][r])'
  <2> DEFINE x == w[p][r]
  <2>1. x' = x /\ x \in Worker /\ x.pc # "idle"
    BY <1>2 DEF TypeInv, TypeOK
  <2>2. Selection(p, r, x) /\ Progress(p, r, x)
    BY <2>1 DEF WorkerInv
  <2>3. run'[p] # NoRun /\ run'[p].kind = run[p].kind
    BY <1>2 DEF TypeInv, RunsAndWorkers
  <2>4. head[r] <= head'[r] /\ tree' = tree /\ stored' = stored /\ store' = store
    <3>1. head[r] \in Nat
      BY ShasAreNumbers DEF TypeInv, TypeOK
    <3> QED
      BY <3>1 DEF gitVars, storeVars
  <2> HIDE DEF x
  <2>5. Selection(p, r, x)' /\ Progress(p, r, x)'
    BY <2>1, <2>2, <2>3, <2>4, KeepWorker
  <2> QED
    BY <2>5 DEF x
<1> QED
  BY <1>1, <1>2 DEF WorkerInv

\* Begin, End, Crash, and the outcomes of a repository.
LEMMA WorkerInvOutcome ==
  ASSUME TypeInv, TypeInv', WorkerInv, NEW p \in Procs,
         \/ \E prof \in Profiles, kind \in Kinds : Begin(p, prof, kind)
         \/ End(p) \/ Crash(p) \/ LoseSession(p)
         \/ \E r \in Repos : Succeed(p, r) \/ Fail(p, r)
  PROVE  WorkerInv'
<1>0. w \in [Procs -> [Repos -> Worker]] /\ run \in [Procs -> Run] /\ IdleWorker.pc = "idle"
  BY DEF TypeInv, TypeOK, IdleWorker
<1>1. UNCHANGED <<gitVars, stored, storeVars>>
  BY DEF Begin, End, Crash, LoseSession, Succeed, Fail
<1>2. ASSUME NEW q \in Procs, NEW s \in Repos, w'[q][s].pc # "idle"
      PROVE  w'[q][s] = w[q][s] /\ run'[q].kind = run[q].kind
  <2>1. CASE LoseSession(p)
    BY <2>1 DEF LoseSession
  <2>2. ASSUME w' = w, run[p] = NoRun \/ run'[p] = NoRun, \A o \in Procs \ {p} : run'[o] = run[o]
        PROVE  w'[q][s] = w[q][s] /\ run'[q].kind = run[q].kind
    BY <1>2, <2>2 DEF TypeInv, RunsAndWorkers
  <2>3. CASE \E prof \in Profiles, kind \in Kinds : Begin(p, prof, kind)
    BY <1>0, <2>2, <2>3 DEF Begin
  <2>4. CASE End(p)
    BY <1>0, <2>2, <2>4 DEF End
  <2>5. CASE Crash(p)
    BY <1>0, <1>2, <2>5 DEF Crash
  <2>6. ASSUME NEW r \in Repos, Succeed(p, r) \/ Fail(p, r)
        PROVE  w'[q][s] = w[q][s] /\ run'[q].kind = run[q].kind
    <3>1. w' = [w EXCEPT ![p][r] = IdleWorker] /\ run' = [run EXCEPT ![p].todo = @ \ {r}]
      BY <2>6 DEF Succeed, Fail, Done
    <3>2. w'[q][s] = w[q][s]
      BY <1>0, <1>2, <3>1
    <3>3. run[q] # NoRun
      BY <1>2, <3>2 DEF TypeInv, RunsAndWorkers
    <3>4. run'[q].kind = run[q].kind
      BY <1>0, <3>1, <3>3 DEF Run
    <3> QED
      BY <3>2, <3>4
  <2> QED
    BY <2>1, <2>3, <2>4, <2>5, <2>6
<1> QED
  BY <1>1, <1>2, WorkerInvRun

LEMMA WorkerInvNext ==
  ASSUME TypeInv, TypeInv', OneWorkerPerRepo', WorkerInv, [Next]_vars
  PROVE  WorkerInv'
<1>1. CASE \E r \in Repos : Pull(r) \/ Amend(r) \/ Revert(r)
  BY <1>1, WorkerInvMove
<1>2. ASSUME NEW p \in Procs,
             \/ \E prof \in Profiles, kind \in Kinds : Begin(p, prof, kind)
             \/ End(p) \/ Crash(p) \/ LoseSession(p)
             \/ \E r \in Repos : Succeed(p, r) \/ Fail(p, r)
      PROVE  WorkerInv'
  BY <1>2, WorkerInvOutcome
<1>3. ASSUME NEW p \in Procs, NEW r \in Repos, WorkerStep(p, r), ~Succeed(p, r)
      PROVE  WorkerInv'
  BY <1>3, WorkerInvSelect, WorkerInvWrite, WorkerInvClose DEF WorkerStep
<1>4. CASE UNCHANGED vars
  BY <1>4, WorkerInvRun DEF vars, gitVars, storeVars
<1> QED
  BY <1>1, <1>2, <1>3, <1>4 DEF Next

-----------------------------------------------------------------------------
(* The reset button                                                        *)

\* What was read between the commit HEAD pointed at and HEAD is HEAD's content
\* when they are the same commit.
LEMMA WorkerInvMirrors == TypeInv /\ WorkerInv => FullReindexMirrorsHead
<1> SUFFICES ASSUME TypeInv, WorkerInv, NEW p \in Procs, NEW r \in Repos,
                    w[p][r].pc = "status", run[p].kind.full, w[p][r].cur = head[r],
                    NEW m \in ModulesOf(r)
             PROVE  /\ tree[r][head[r]][m] # Absent =>
                         store[m].models = tree[r][head[r]][m] /\ store[m].views = tree[r][head[r]][m]
                    /\ tree[r][head[r]][m] = Absent /\ run[p].kind.gc /\ w[p][r].live # {} =>
                         store[m].models = Absent
  BY DEF FullReindexMirrorsHead
<1> DEFINE x == w[p][r]
<1>1. Selection(p, r, x) /\ Progress(p, r, x)
  <2>1. x.pc # "idle"
    OBVIOUS
  <2> QED
    BY <2>1 DEF WorkerInv
<1>a. head[r] \in Nat /\ Commits \subseteq Nat /\ head[r] # NoSha
  <2>1. head[r] \in Commits
    BY DEF TypeInv, TypeOK
  <2> QED
    BY <2>1, ShasAreNumbers
<1>2. ASSUME NEW n, NEW k, ReadSince(r, x, n, k)
      PROVE  tree[r][head[r]][n] = k
  <2>1. PICK h \in Commits : head[r] <= h /\ h <= head[r] /\ tree[r][h][n] = k
    BY <1>2 DEF ReadSince
  <2>2. h = head[r]
    BY <1>a, <2>1
  <2> QED
    BY <2>1, <2>2
<1>3. x.prev = NoSha /\ x.sel = x.live /\ \A n \in ModulesOf(r) \ x.live : ReadSince(r, x, n, Absent)
  BY <1>1, <1>a DEF Selection, Scanned, Incremental
<1>4. CASE m \in x.live
  <2>1. /\ ReadSince(r, x, m, x.parsed[m])
        /\ store[m].models = x.parsed[m] /\ store[m].views = x.parsed[m]
    BY <1>1, <1>3, <1>4 DEF Progress, IsParsed, ModelsWritten, ViewsWritten
  <2> QED
    BY <1>2, <2>1
<1>5. CASE m \notin x.live
  <2>1. tree[r][head[r]][m] = Absent
    BY <1>2, <1>3, <1>5
  <2>2. run[p].kind.gc /\ x.live # {} => store[m].models = Absent
    BY <1>1, <1>3, <1>5 DEF Progress, Incremental
  <2> QED
    BY <2>1, <2>2
<1> QED
  BY <1>4, <1>5

\* ADR-0007 D4 and D5: whatever failed, was killed, rewritten or missed before,
\* and whatever git call fails during it, a full reindex that ends on the
\* commit it began with leaves the modules of that commit in the graph, and
\* with --gc no others.
THEOREM FullReindexMirrors == ~SessionDrops => (Spec => []FullReindexMirrorsHead)
<1> SUFFICES ASSUME ~SessionDrops PROVE Spec => []FullReindexMirrorsHead
  OBVIOUS
<1> DEFINE Inv == LockInv /\ WorkerInv
<1>1. Init => Inv
  BY LockInvInit, WorkerInvInit
<1>2. Inv /\ [Next]_vars => Inv'
  <2>1. LockInv /\ [Next]_vars => LockInv'
    BY TypeInvNext, RunsHoldTheirLockNext DEF LockInv
  <2>2. LockInv' => OneWorkerPerRepo' /\ TypeInv'
    BY LockInvExcludes, PTL DEF LockInv
  <2> QED
    BY <2>1, <2>2, WorkerInvNext DEF LockInv
<1>3. Inv => FullReindexMirrorsHead
  BY WorkerInvMirrors DEF LockInv
<1> QED
  BY <1>1, <1>2, <1>3, PTL DEF Spec

-----------------------------------------------------------------------------
(* Checkouts that are only pulled                                          *)

\* A module that two commits agree on has not changed in between.
Linear(r) ==
  /\ head[r] = last[r]
  /\ \A c \in Commits, m \in Modules : tree[r][c][m] <= c
  /\ \A b, c, d \in Commits, m \in Modules :
       b <= c /\ c <= d /\ d <= last[r] /\ tree[r][b][m] = tree[r][d][m] /\ tree[r][b][m] # Absent
         => tree[r][c][m] = tree[r][b][m]
  /\ \A c \in Commits : c <= last[r] => anc[r][c] = 1..c

\* The modules that s and HEAD agree on are indexed.
IndexedSince(r, s) ==
  s # NoSha => \A m \in ModulesOf(r) :
    LET k == tree[r][head[r]][m] IN
    tree[r][s][m] = k /\ k # Absent => store[m].models = k /\ store[m].views = k

Continues(r, x) ==
  /\ Incremental(x) => x.prev <= x.cur /\ IndexedSince(r, x.prev)
  /\ Incremental(x) /\ x.pc \in {"parse", "models", "views", "gc", "advance"} =>
       \A m \in x.live \ x.sel : tree[r][x.prev][m] = tree[r][x.cur][m]

PullInv ==
  /\ \A r \in Repos : Linear(r) /\ IndexedSince(r, stored[r])
  /\ \A p \in Procs, r \in Repos : w[p][r].pc # "idle" => Continues(r, w[p][r])

\* What the theorems assume of the constants.
PulledOnly == HeadMoves \subseteq {"pull"} /\ "diff" \notin GitFaults

LEMMA PullInvInit == Init => PullInv
<1> SUFFICES ASSUME Init PROVE PullInv
  OBVIOUS
<1>1. \A c \in Commits : c <= 1 => c = 1
  BY ConstantsAssumption DEF Commits
<1>2. ASSUME NEW r \in Repos
      PROVE  Linear(r)
  <2>1. head[r] = 1 /\ last[r] = 1
    BY DEF Init
  <2>2. \A c \in Commits : c <= last[r] => anc[r][c] = 1..c
    <3>1. ASSUME NEW c \in Commits, c <= last[r]
          PROVE  anc[r][c] = 1..c
      <4>1. c = 1
        BY <1>1, <2>1, <3>1
      <4>2. anc[r][c] = {1}
        BY <4>1 DEF Init
      <4> QED
        BY <4>1, <4>2
    <3> QED
      BY <3>1
  <2>3. PICK present \in SUBSET Modules :
          tree = [q \in Repos |-> [c \in Commits |-> [m \in Modules |->
                   IF c = 1 /\ m \in present /\ RepoOf[m] = q THEN 1 ELSE Absent]]]
    BY DEF Init
  <2>4. \A c \in Commits, m \in Modules : tree[r][c][m] <= c
    BY <2>3, ShasAreNumbers, ConstantsAssumption DEF Absent, Commits
  <2>5. \A b, c, d \in Commits, m \in Modules :
          b <= c /\ c <= d /\ d <= last[r] => b = c
    BY <1>1, <2>1, ConstantsAssumption DEF Commits
  <2> QED
    BY <2>1, <2>2, <2>4, <2>5 DEF Linear
<1>3. \A r \in Repos : IndexedSince(r, stored[r])
  BY DEF Init, IndexedSince
<1> QED
  BY <1>2, <1>3 DEF Init, PullInv, IdleWorker

LEMMA ContentsAreNumbers ==
  ASSUME TypeInv
  PROVE  \A r \in Repos, c \in Commits, m \in Modules : tree[r][c][m] \in Nat
<1>1. tree \in [Repos -> [Commits -> [Modules -> Shas]]]
  BY DEF TypeInv, TypeOK
<1>2. \A r \in Repos, c \in Commits, m \in Modules : tree[r][c][m] \in Shas
  BY <1>1
<1> QED
  BY <1>2, ShasAreNumbers

\* A content that two commits share is that of every commit between them.
LEMMA Between ==
  ASSUME TypeInv, NEW r \in Repos, Linear(r), NEW s \in Commits, NEW h \in Commits,
         s <= h, h <= head[r], NEW m \in Modules,
         tree[r][s][m] = tree[r][head[r]][m], tree[r][head[r]][m] # Absent
  PROVE  tree[r][h][m] = tree[r][head[r]][m]
<1>1. head[r] \in Commits /\ head[r] = last[r] /\ head[r] \in Nat
  BY ShasAreNumbers DEF TypeInv, TypeOK, Linear
<1>2. head[r] <= last[r]
  BY <1>1
<1>3. \A b, c, d \in Commits, n \in Modules :
        b <= c /\ c <= d /\ d <= last[r] /\ tree[r][b][n] = tree[r][d][n] /\ tree[r][b][n] # Absent
          => tree[r][c][n] = tree[r][b][n]
  BY DEF Linear
<1> QED
  BY <1>1, <1>2, <1>3

\* Writing what was read after s, or removing what was absent after s, keeps
\* what is indexed since s.
LEMMA IndexedSinceKept ==
  ASSUME TypeInv, NEW r \in Repos, Linear(r), UNCHANGED gitVars, NEW s \in Shas, s <= head[r],
         IndexedSince(r, s),
         \A m \in ModulesOf(r) : \E h \in Commits :
           /\ s <= h
           /\ h <= head[r]
           /\ \/ tree[r][h][m] = Absent
              \/ /\ store'[m].models \in {store[m].models, tree[r][h][m]}
                 /\ store'[m].views \in {store[m].views, tree[r][h][m]}
  PROVE  IndexedSince(r, s)'
<1> SUFFICES ASSUME s # NoSha, NEW m \in ModulesOf(r),
                    tree[r][s][m] = tree[r][head[r]][m], tree[r][head[r]][m] # Absent
             PROVE  /\ store'[m].models = tree[r][head[r]][m]
                    /\ store'[m].views = tree[r][head[r]][m]
  BY DEF IndexedSince, gitVars
<1>1. m \in Modules /\ s \in Commits
  BY DEF ModulesOf, Shas
<1>2. PICK h \in Commits :
           /\ s <= h
           /\ h <= head[r]
           /\ \/ tree[r][h][m] = Absent
              \/ /\ store'[m].models \in {store[m].models, tree[r][h][m]}
                 /\ store'[m].views \in {store[m].views, tree[r][h][m]}
  OBVIOUS
<1>3. tree[r][h][m] = tree[r][head[r]][m]
  BY <1>1, <1>2, Between
<1>4. store[m].models = tree[r][head[r]][m] /\ store[m].views = tree[r][head[r]][m]
  BY <1>1 DEF IndexedSince
<1> QED
  BY <1>2, <1>3, <1>4

\* A new commit restores no older content: what it shares with an earlier commit,
\* the commit before it has too.
LEMMA MoveAgrees ==
  ASSUME PulledOnly, TypeInv, PullInv, NEW r \in Repos, Pull(r) \/ Amend(r) \/ Revert(r),
         NEW q \in Repos, NEW s \in Shas, s # NoSha, s <= head[q], NEW m \in ModulesOf(q),
         tree'[q][s][m] = tree'[q][head'[q]][m], tree'[q][head'[q]][m] # Absent
  PROVE  /\ tree[q][s][m] = tree[q][head[q]][m]
         /\ tree'[q][head'[q]][m] = tree[q][head[q]][m]
<1>1. PICK touched \in SUBSET ModulesOf(r) : \E gone \in SUBSET touched :
        NewCommit(r, head[r], Touch(r, head[r], touched, gone))
  BY DEF Pull, Amend, Revert, PulledOnly
<1>2. PICK gone \in SUBSET touched : NewCommit(r, head[r], Touch(r, head[r], touched, gone))
  BY <1>1
<1>3. PICK content : content = Touch(r, head[r], touched, gone)
  OBVIOUS
<1>4. PICK n \in Commits : n = last[r] + 1
  <2>1. last[r] + 1 \in Commits
    BY <1>2, ShasAreNumbers, ConstantsAssumption DEF NewCommit, TypeInv, TypeOK, Commits
  <2> QED
    BY <2>1
<1>5. m \in Modules /\ s \in Commits /\ content[m] \in {Absent, n, tree[r][head[r]][m]}
  BY <1>3, <1>4 DEF Touch, ModulesOf, Shas
<1>6. /\ tree'[r][n] = content /\ \A c \in Commits \ {n} : tree'[r][c] = tree[r][c]
      /\ head'[r] = n
      /\ \A i \in Repos \ {r} : tree'[i] = tree[i] /\ head'[i] = head[i]
  <2>1. head' = [head EXCEPT ![r] = n] /\ tree' = [tree EXCEPT ![r][n] = content]
    BY <1>2, <1>3, <1>4 DEF NewCommit
  <2> QED
    BY <2>1 DEF TypeInv, TypeOK
<1>7. CASE q # r
  BY <1>6, <1>7
<1>8. CASE q = r
  <2>1. head[r] \in Nat /\ head[r] = last[r] /\ s \in Nat /\ Linear(r)
    BY <1>5, ShasAreNumbers DEF TypeInv, TypeOK, PullInv, Linear
  <2>2. s < n /\ n \in Nat /\ tree'[r][s] = tree[r][s]
    BY <1>4, <1>5, <1>6, <1>8, <2>1
  <2>3. tree[r][s][m] <= s /\ tree[r][s][m] \in Nat
    BY <1>5, <2>1, ContentsAreNumbers DEF Linear
  <2>4. content[m] = tree[r][s][m] /\ content[m] # Absent
    BY <1>6, <1>8, <2>2
  <2>5. content[m] # n
    BY <2>1, <2>2, <2>3, <2>4
  <2>6. content[m] = tree[r][head[r]][m]
    BY <1>5, <2>4, <2>5
  <2> QED
    BY <1>6, <1>8, <2>4, <2>6
<1> QED
  BY <1>7, <1>8

\* A new commit keeps what is indexed since s.
LEMMA PullInvMove ==
  ASSUME PulledOnly, TypeInv, TypeInv', WorkerInv, PullInv, NEW r \in Repos,
         Pull(r) \/ Amend(r) \/ Revert(r)
  PROVE  PullInv'
<1>1. PICK touched \in SUBSET ModulesOf(r) : \E gone \in SUBSET touched :
        NewCommit(r, head[r], Touch(r, head[r], touched, gone))
  BY DEF Pull, Amend, Revert, PulledOnly
<1>2. PICK gone \in SUBSET touched : NewCommit(r, head[r], Touch(r, head[r], touched, gone))
  BY <1>1
<1>a. PICK content : content = Touch(r, head[r], touched, gone)
  OBVIOUS
<1>b. PICK n \in Commits : n = last[r] + 1
  <2>1. last[r] + 1 \in Commits
    BY <1>2, ShasAreNumbers, ConstantsAssumption DEF NewCommit, TypeInv, TypeOK, Commits
  <2> QED
    BY <2>1
<1>3. \A m \in Modules : content[m] \in {Absent, n, tree[r][head[r]][m]}
  BY <1>a, <1>b DEF Touch
<1>4. /\ head' = [head EXCEPT ![r] = n]
      /\ last' = [last EXCEPT ![r] = n]
      /\ anc' = [anc EXCEPT ![r][n] = anc[r][head[r]] \cup {n}]
      /\ tree' = [tree EXCEPT ![r][n] = content]
      /\ UNCHANGED <<stored, store, run, w>>
  BY <1>2, <1>a, <1>b DEF NewCommit
<1>5. /\ head[r] \in Commits /\ head[r] = last[r] /\ head[r] < n
      /\ Commits \subseteq Nat /\ last[r] \in Nat
  <2>1. head[r] \in Commits /\ last[r] \in Commits /\ Commits \subseteq Nat
    BY ShasAreNumbers DEF TypeInv, TypeOK
  <2>2. head[r] = last[r]
    BY DEF PullInv, Linear
  <2> QED
    BY <1>b, <2>1, <2>2
<1>6. \A c \in Commits : c <= n => c <= head[r] \/ c = n
  BY <1>5, <1>b
<1>7. /\ tree'[r][n] = content /\ \A c \in Commits \ {n} : tree'[r][c] = tree[r][c]
      /\ anc'[r][n] = anc[r][head[r]] \cup {n} /\ \A c \in Commits \ {n} : anc'[r][c] = anc[r][c]
      /\ head'[r] = n /\ last'[r] = n
      /\ \A q \in Repos \ {r} : /\ tree'[q] = tree[q] /\ anc'[q] = anc[q]
                                /\ head'[q] = head[q] /\ last'[q] = last[q]
  BY <1>4 DEF TypeInv, TypeOK
<1>8. Linear(r)'
  <2>0. Linear(r) /\ head[r] <= last[r]
    BY <1>5 DEF PullInv
  <2>1. \A c \in Commits, m \in Modules : tree[r][c][m] \in Nat /\ tree[r][c][m] <= c
    <3>1. \A c \in Commits, m \in Modules : tree[r][c][m] \in Nat
      BY ContentsAreNumbers
    <3> QED
      BY <2>0, <3>1 DEF Linear
  <2>2. \A c \in Commits, m \in Modules : tree'[r][c][m] <= c
    BY <1>3, <1>5, <1>7, <2>1 DEF Absent
  <2>3. ASSUME NEW b \in Commits, NEW c \in Commits, NEW d \in Commits, NEW m \in Modules,
               b <= c, c <= d, d <= n,
               tree'[r][b][m] = tree'[r][d][m], tree'[r][b][m] # Absent
        PROVE  tree'[r][c][m] = tree'[r][b][m]
    <3>0. \A i, j, k \in Commits :
            i <= j /\ j <= k /\ k <= last[r] /\ tree[r][i][m] = tree[r][k][m] /\ tree[r][i][m] # Absent
              => tree[r][j][m] = tree[r][i][m]
      BY <2>0 DEF Linear
    <3>1. CASE d # n
      BY <1>5, <1>6, <1>7, <2>3, <3>0, <3>1
    <3>2. CASE d = n /\ b # n
      <4>1. tree'[r][b][m] = tree[r][b][m] /\ b <= head[r] /\ tree[r][b][m] <= b
        BY <1>6, <1>7, <2>1, <2>3, <3>2, <1>5
      <4>2. tree[r][b][m] # n
        BY <1>5, <2>1, <4>1
      <4>3. tree[r][b][m] = tree[r][head[r]][m]
        BY <1>3, <1>7, <2>3, <3>2, <4>1, <4>2
      <4>4. CASE c = n
        BY <2>3, <3>2, <4>4
      <4>5. CASE c # n
        BY <1>5, <1>6, <1>7, <2>0, <2>3, <3>0, <3>2, <4>1, <4>3, <4>5
      <4> QED
        BY <4>4, <4>5
    <3>3. CASE b = n
      BY <1>5, <2>3, <3>3
    <3> QED
      BY <3>1, <3>2, <3>3
  <2>4. ASSUME NEW c \in Commits, c <= n
        PROVE  anc'[r][c] = 1..c
    <3>1. \A i \in Commits : i <= last[r] => anc[r][i] = 1..i
      BY <2>0 DEF Linear
    <3>2. CASE c # n
      BY <1>5, <1>6, <1>7, <2>4, <3>1, <3>2
    <3>3. CASE c = n
      <4>1. anc'[r][n] = (1..head[r]) \cup {n} /\ n = head[r] + 1
        BY <1>5, <1>7, <1>b, <3>1
      <4> QED
        BY <3>3, <4>1, <1>5
    <3> QED
      BY <3>2, <3>3
  <2> QED
    BY <1>7, <2>2, <2>3, <2>4 DEF Linear
<1>9. ASSUME NEW q \in Repos, NEW s \in Shas, s <= head[q], IndexedSince(q, s)
      PROVE  IndexedSince(q, s)'
  <2>1. store' = store
    BY <1>4
  <2> QED
    BY <1>9, <2>1, MoveAgrees DEF IndexedSince
<1>10. \A q \in Repos : Linear(q)' /\ IndexedSince(q, stored[q])'
  <2>1. ASSUME NEW q \in Repos
        PROVE  IndexedSince(q, stored[q])'
    <3>1. PICK s \in Shas : s = stored[q]
      BY DEF TypeInv, TypeOK
    <3>2. s <= head[q] /\ IndexedSince(q, s)
      BY <3>1 DEF WorkerInv, Behind, PullInv
    <3>3. IndexedSince(q, s)' /\ stored'[q] = s
      BY <1>4, <1>9, <3>1, <3>2
    <3> QED
      BY <3>3 DEF IndexedSince
  <2>2. \A q \in Repos \ {r} : Linear(q)'
    BY <1>7 DEF PullInv, Linear
  <2> QED
    BY <1>8, <2>1, <2>2
<1>11. ASSUME NEW p \in Procs, NEW q \in Repos, w'[p][q].pc # "idle"
       PROVE  Continues(q, w[p][q])'
  <2>1. PICK x \in Worker : x = w[p][q] /\ x.pc # "idle"
    BY <1>4, <1>11 DEF TypeInv, TypeOK
  <2>2. Continues(q, x) /\ x.cur <= head[q]
    BY <2>1 DEF PullInv, WorkerInv, Selection
  <2>3. x.prev \in Shas /\ x.prev \in Nat /\ x.cur \in Nat /\ head[q] \in Nat
    BY ShasAreNumbers DEF Worker, TypeInv, TypeOK
  <2>4. Incremental(x) => IndexedSince(q, x.prev)'
    <3>1. Incremental(x) => IndexedSince(q, x.prev) /\ x.prev <= x.cur
      BY <2>2 DEF Continues
    <3>2. Incremental(x) => x.prev <= head[q]
      BY <2>2, <2>3, <3>1
    <3> QED
      BY <1>9, <2>3, <3>1, <3>2
  <2>5. Incremental(x) => tree'[q][x.prev] = tree[q][x.prev] /\ tree'[q][x.cur] = tree[q][x.cur]
    <3>1. CASE q = r
      <4> SUFFICES ASSUME Incremental(x)
                   PROVE  tree'[q][x.prev] = tree[q][x.prev] /\ tree'[q][x.cur] = tree[q][x.cur]
        OBVIOUS
      <4>1. x.prev \in Commits /\ x.cur \in Commits /\ x.prev <= x.cur /\ x.cur <= head[r]
        BY <2>2, <3>1 DEF Incremental, Worker, Shas, Continues
      <4>2. head[r] \in Nat /\ n \in Nat /\ Commits \subseteq Nat /\ head[r] < n
        BY <1>5
      <4>3. x.prev # n /\ x.cur # n
        BY <2>3, <4>1, <4>2
      <4> QED
        BY <1>7, <3>1, <4>1, <4>3
    <3>2. CASE q # r
      BY <1>7, <3>2
    <3> QED
      BY <3>1, <3>2
  <2>6. Continues(q, x)' /\ w'[p][q] = x
    BY <1>4, <2>1, <2>2, <2>4, <2>5 DEF Continues
  <2> QED
    BY <2>6 DEF Continues
<1> QED
  BY <1>10, <1>11 DEF PullInv

\* It is enough to look at the worker that moves and at its repository.
LEMMA PullActs ==
  ASSUME TypeInv, TypeInv', OneWorkerPerRepo', WorkerInv, PullInv,
         NEW p \in Procs, NEW r \in Repos, NEW y \in Worker,
         w' = [w EXCEPT ![p][r] = y], y.pc # "idle",
         UNCHANGED gitVars,
         \A q \in Repos \ {r} : stored'[q] \in {stored[q], NoSha},
         \A m \in Modules \ ModulesOf(r) : store'[m] = store[m],
         IndexedSince(r, stored[r])', Continues(r, y)'
  PROVE  PullInv'
<1>0. /\ w \in [Procs -> [Repos -> Worker]] /\ stored \in [Repos -> Shas] /\ head \in [Repos -> Nat]
      /\ \A q \in Repos : head[q] \in Commits
  BY ShasAreNumbers DEF TypeInv, TypeOK
<1>1. \A q \in Repos : Linear(q)'
  BY DEF PullInv, Linear, gitVars
<1>2. ASSUME NEW q \in Repos \ {r}, NEW s \in Shas, s <= head[q], IndexedSince(q, s)
      PROVE  IndexedSince(q, s)'
  BY <1>2 DEF IndexedSince, ModulesOf, gitVars
<1>3. ASSUME NEW q \in Repos
      PROVE  IndexedSince(q, stored[q])'
  <2>1. CASE q # r
    <3>1. PICK s \in Shas : s = stored[q]
      BY <1>0
    <3>2. IndexedSince(q, s)'
      BY <1>2, <2>1, <3>1 DEF PullInv, WorkerInv, Behind
    <3>3. stored'[q] = s \/ stored'[q] = NoSha
      BY <2>1, <3>1
    <3> QED
      BY <3>2, <3>3 DEF IndexedSince
  <2> QED
    BY <2>1
<1>4. ASSUME NEW q \in Procs, NEW s \in Repos, w'[q][s].pc # "idle"
      PROVE  Continues(s, w[q][s])'
  <2>1. CASE q = p /\ s = r
    <3>1. w'[q][s] = y
      BY <1>0, <2>1
    <3> QED
      BY <2>1, <3>1 DEF Continues
  <2>2. CASE s # r
    <3>1. PICK x \in Worker : x = w[q][s]
      BY <1>0
    <3>2. w'[q][s] = x /\ x.pc # "idle"
      BY <1>0, <1>4, <2>2, <3>1
    <3>3. Continues(s, x) /\ x.cur <= head[s]
      BY <3>1, <3>2 DEF PullInv, WorkerInv, Selection
    <3>4. x.prev \in Shas /\ x.prev \in Nat /\ x.cur \in Nat /\ head[s] \in Nat
      BY <1>0, ShasAreNumbers DEF Worker
    <3>5. Incremental(x) => IndexedSince(s, x.prev)'
      BY <1>2, <2>2, <3>3, <3>4 DEF Continues
    <3>6. Continues(s, x)'
      BY <3>3, <3>5 DEF Continues, gitVars
    <3> QED
      BY <3>2, <3>6 DEF Continues
  <2>3. CASE s = r /\ q # p
    <3>1. w'[p][r].pc # "idle"
      BY <1>0
    <3> QED
      BY <1>4, <2>3, <3>1 DEF OneWorkerPerRepo
  <2> QED
    BY <2>1, <2>2, <2>3
<1> QED
  BY <1>1, <1>3, <1>4 DEF PullInv

LEMMA PullInvSelect ==
  ASSUME PulledOnly, TypeInv, TypeInv', OneWorkerPerRepo', WorkerInv, PullInv,
         NEW p \in Procs, NEW r \in Repos,
         Skip(p, r) \/ Start(p, r) \/ Scan(p, r) \/ NothingChanged(p, r)
  PROVE  PullInv'
<1>0. /\ w \in [Procs -> [Repos -> Worker]] /\ w' \in [Procs -> [Repos -> Worker]]
      /\ stored \in [Repos -> Shas] /\ stored[r] \in Nat /\ head[r] \in Commits
      /\ stored[r] <= head[r]
      /\ IndexedSince(r, stored[r])
  BY ShasAreNumbers DEF TypeInv, TypeOK, WorkerInv, Behind, PullInv
<1>1. UNCHANGED <<gitVars, store>> /\ \A q \in Repos \ {r} : stored'[q] \in {stored[q], NoSha}
  BY <1>0 DEF Skip, Start, Scan, NothingChanged, storeVars
<1>2. \A s : IndexedSince(r, s) => IndexedSince(r, s)'
  BY <1>1 DEF IndexedSince, gitVars
<1>3. CASE Skip(p, r)
  <2> DEFINE y == [IdleWorker EXCEPT !.pc = "status"]
  <2>1. w' = [w EXCEPT ![p][r] = y] /\ stored' = stored
    BY <1>3 DEF Skip
  <2>2. y \in Worker
    BY <1>0, <2>1
  <2>3. y.pc = "status" /\ y.cur = NoSha
    BY DEF IdleWorker
  <2> HIDE DEF y
  <2>4. Continues(r, y)' /\ IndexedSince(r, stored[r])'
    BY <1>0, <1>1, <2>1, <2>3 DEF Continues, Incremental, IndexedSince, gitVars
  <2> QED
    BY <1>1, <2>1, <2>2, <2>3, <2>4, PullActs
<1>4. CASE Start(p, r)
  <2>0. PICK cur \in ReadHead(r) : \E prev \in LastHead(p, r, cur) :
          w' = [w EXCEPT ![p][r] = [IdleWorker EXCEPT !.pc = "scan", !.cur = cur, !.prev = prev]]
    BY <1>4 DEF Start
  <2>1. PICK prev \in LastHead(p, r, cur) :
          w' = [w EXCEPT ![p][r] = [IdleWorker EXCEPT !.pc = "scan", !.cur = cur, !.prev = prev]]
    BY <2>0
  <2> DEFINE y == [IdleWorker EXCEPT !.pc = "scan", !.cur = cur, !.prev = prev]
  <2>2. w' = [w EXCEPT ![p][r] = y] /\ y \in Worker
    BY <1>0, <2>1
  <2>3. y.pc = "scan" /\ y.cur = cur /\ y.prev = prev
    BY DEF IdleWorker
  <2>4. stored' = stored
    BY <1>4 DEF Start
  <2>5. cur \in {head[r], NoSha} /\ prev \in {stored[r], NoSha}
    BY DEF ReadHead, LastHead, NoSha
  <2> HIDE DEF y
  <2>6. Continues(r, y)' /\ IndexedSince(r, stored[r])'
    <3>1. Incremental(y) => y.prev <= y.cur /\ IndexedSince(r, y.prev)'
      BY <1>0, <1>2, <2>3, <2>5 DEF Incremental
    <3>2. IndexedSince(r, stored[r])'
      BY <1>0, <1>1, <2>4 DEF IndexedSince, gitVars
    <3> QED
      BY <2>3, <3>1, <3>2 DEF Continues
  <2> QED
    BY <1>1, <2>2, <2>3, <2>4, <2>6, PullActs
<1>a. PICK x \in Worker : x = w[p][r]
  BY <1>0
<1>b. PICK L \in SUBSET Modules : L = Live(r)
  BY DEF Live, ModulesOf
<1>5. CASE Scan(p, r)
  <2>1. PICK sel \in IF Incremental(x) THEN Changed(r, x, L) ELSE {L} :
          w' = [w EXCEPT ![p][r] = [x EXCEPT !.pc = IF sel = {} THEN "gc" ELSE "parse",
                                             !.live = L, !.sel = sel, !.todo = sel]]
    BY <1>5, <1>a, <1>b DEF Scan
  <2> DEFINE y == [x EXCEPT !.pc = IF sel = {} THEN "gc" ELSE "parse",
                            !.live = L, !.sel = sel, !.todo = sel]
  <2>2. w' = [w EXCEPT ![p][r] = y] /\ y \in Worker
    BY <1>0, <2>1
  <2>3. /\ y.pc = (IF sel = {} THEN "gc" ELSE "parse") /\ y.cur = x.cur /\ y.prev = x.prev
        /\ y.live = L /\ y.sel = sel
    BY DEF Worker
  <2>4. stored' = stored /\ x.pc = "scan"
    BY <1>5, <1>a DEF Scan
  <2>5. Continues(r, x)
    BY <1>a, <2>4 DEF PullInv
  <2>6. Incremental(x) => \A m \in L \ sel : tree[r][x.prev][m] = tree[r][x.cur][m]
    BY DEF Changed, PulledOnly
  <2> HIDE DEF y
  <2>7. Continues(r, y)'
    BY <1>1, <1>2, <2>3, <2>5, <2>6 DEF Continues, Incremental, gitVars
  <2>8. IndexedSince(r, stored[r])'
    BY <1>0, <1>1, <2>4 DEF IndexedSince, gitVars
  <2> QED
    BY <1>1, <2>2, <2>3, <2>4, <2>7, <2>8, PullActs
\* The new head_sha: what changed since is absent now, the rest is as it was.
<1>6. CASE NothingChanged(p, r)
  <2> DEFINE y == [x EXCEPT !.pc = "status", !.live = L]
  <2>1. w' = [w EXCEPT ![p][r] = y] /\ y \in Worker
    BY <1>0, <1>6, <1>a, <1>b DEF NothingChanged
  <2>2. y.pc = "status" /\ y.cur = x.cur /\ y.prev = x.prev
    BY DEF Worker
  <2>3. stored' = [stored EXCEPT ![r] = x.cur] /\ x.pc = "scan" /\ Incremental(x)
    BY <1>6, <1>a DEF NothingChanged
  <2>4. Continues(r, x)
    BY <1>a, <2>3 DEF PullInv
  <2>5. \A m \in L : tree[r][x.prev][m] = tree[r][x.cur][m]
    BY <1>6, <1>a, <1>b DEF NothingChanged, Changed, PulledOnly
  <2> HIDE DEF y
  <2>6. IndexedSince(r, x.cur)
    <3> SUFFICES ASSUME NEW m \in ModulesOf(r),
                        tree[r][x.cur][m] = tree[r][head[r]][m], tree[r][head[r]][m] # Absent
                 PROVE  /\ store[m].models = tree[r][head[r]][m]
                        /\ store[m].views = tree[r][head[r]][m]
      BY DEF IndexedSince
    <3>1. m \in L
      BY <1>b DEF Live
    <3>2. tree[r][x.prev][m] = tree[r][head[r]][m]
      BY <2>5, <3>1
    <3>3. IndexedSince(r, x.prev) /\ x.prev # NoSha
      BY <2>3, <2>4 DEF Continues, Incremental
    <3> QED
      BY <3>2, <3>3 DEF IndexedSince
  <2>7. IndexedSince(r, stored[r])'
    <3>1. stored'[r] = x.cur /\ IndexedSince(r, x.cur)'
      BY <1>0, <1>2, <2>3, <2>6
    <3> QED
      BY <3>1 DEF IndexedSince
  <2>8. Continues(r, y)'
    BY <1>2, <2>2, <2>4 DEF Continues, Incremental
  <2> QED
    BY <1>1, <2>1, <2>2, <2>7, <2>8, PullActs
<1> QED
  BY <1>3, <1>4, <1>5, <1>6

\* A step that writes what was read since HEAD was, or removes what was absent
\* since, keeps the invariant.
LEMMA PullInvStore ==
  ASSUME TypeInv, TypeInv', OneWorkerPerRepo', WorkerInv, PullInv,
         NEW p \in Procs, NEW r \in Repos, NEW x \in Worker, x = w[p][r],
         x.pc \in {"parse", "models", "views", "gc"},
         NEW y \in Worker, w' = [w EXCEPT ![p][r] = y],
         y.pc \in {"parse", "models", "views", "gc", "advance"},
         y.cur = x.cur, y.prev = x.prev, y.live = x.live, y.sel = x.sel,
         UNCHANGED <<gitVars, stored>>,
         \A m \in Modules \ ModulesOf(r) : store'[m] = store[m],
         \A m \in ModulesOf(r) : \E h \in Commits :
           /\ x.cur <= h
           /\ stored[r] <= h
           /\ h <= head[r]
           /\ \/ tree[r][h][m] = Absent
              \/ /\ store'[m].models \in {store[m].models, tree[r][h][m]}
                 /\ store'[m].views \in {store[m].views, tree[r][h][m]}
  PROVE  PullInv'
<1>1. /\ Linear(r) /\ IndexedSince(r, stored[r]) /\ Continues(r, x)
      /\ stored[r] <= head[r] /\ x.cur <= head[r]
  BY DEF PullInv, WorkerInv, Behind, Selection
<1>2. /\ stored[r] \in Shas /\ head[r] \in Nat /\ x.prev \in Shas /\ x.cur \in Nat
      /\ Commits \subseteq Nat /\ Shas \subseteq Nat
  BY ShasAreNumbers DEF TypeInv, TypeOK, Worker
<1>3. IndexedSince(r, stored[r])'
  <2>1. PICK s \in Shas : s = stored[r]
    BY <1>2
  <2>2. IndexedSince(r, s)'
    BY <1>1, <2>1, IndexedSinceKept
  <2> QED
    BY <2>1, <2>2 DEF IndexedSince
<1>4. Incremental(x) => IndexedSince(r, x.prev)'
  <2> SUFFICES ASSUME Incremental(x) PROVE IndexedSince(r, x.prev)'
    OBVIOUS
  <2>1. x.prev <= x.cur /\ IndexedSince(r, x.prev)
    BY <1>1 DEF Continues
  <2>2. x.prev <= head[r] /\ \A h \in Commits : x.cur <= h => x.prev <= h
    BY <1>1, <1>2, <2>1
  <2>3. \A m \in ModulesOf(r) : \E h \in Commits :
           /\ x.prev <= h
           /\ h <= head[r]
           /\ \/ tree[r][h][m] = Absent
              \/ /\ store'[m].models \in {store[m].models, tree[r][h][m]}
                 /\ store'[m].views \in {store[m].views, tree[r][h][m]}
    BY <2>2
  <2> QED
    BY <1>1, <1>2, <2>1, <2>2, <2>3, IndexedSinceKept
<1>5. Continues(r, y)'
  BY <1>1, <1>4 DEF Continues, Incremental, gitVars
<1> QED
  BY <1>3, <1>5, PullActs

LEMMA PullInvWrite ==
  ASSUME TypeInv, TypeInv', OneWorkerPerRepo', WorkerInv, PullInv,
         NEW p \in Procs, NEW r \in Repos, NEW m \in Modules,
         Parse(p, r, m) \/ WriteModels(p, r, m) \/ WriteViews(p, r, m)
  PROVE  PullInv'
<1>0. /\ w \in [Procs -> [Repos -> Worker]] /\ w' \in [Procs -> [Repos -> Worker]]
      /\ store \in [Modules -> Layers] /\ head[r] \in Commits /\ head[r] \in Nat
  BY ShasAreNumbers DEF TypeInv, TypeOK
<1>1. PICK x \in Worker : x = w[p][r]
  BY <1>0
<1>2. /\ x.pc \in {"parse", "models", "views"} /\ m \in x.todo
      /\ Selection(p, r, x) /\ Progress(p, r, x) /\ stored[r] <= head[r]
  BY <1>1 DEF Parse, WriteModels, WriteViews, WorkerInv, Behind
<1>3. m \in x.sel /\ m \in ModulesOf(r) /\ ModulesOf(r) \subseteq Modules /\ x.cur <= head[r]
  BY <1>2 DEF Selection, ModulesOf
<1>4. UNCHANGED <<gitVars, stored>>
  BY DEF Parse, WriteModels, WriteViews
\* The one module written, and the phase of the worker.
<1>5. ASSUME NEW y \in Worker, w' = [w EXCEPT ![p][r] = y],
             y.pc \in {"parse", "models", "views", "gc"}, y.cur = x.cur, y.prev = x.prev,
             y.live = x.live, y.sel = x.sel,
             \A n \in Modules \ {m} : store'[n] = store[n],
             \E h \in Commits :
               /\ x.cur <= h
               /\ stored[r] <= h
               /\ h <= head[r]
               /\ store'[m].models \in {store[m].models, tree[r][h][m]}
               /\ store'[m].views \in {store[m].views, tree[r][h][m]}
      PROVE  PullInv'
  <2>2. \A n \in ModulesOf(r) : \E h \in Commits :
           /\ x.cur <= h
           /\ stored[r] <= h
           /\ h <= head[r]
           /\ \/ tree[r][h][n] = Absent
              \/ /\ store'[n].models \in {store[n].models, tree[r][h][n]}
                 /\ store'[n].views \in {store[n].views, tree[r][h][n]}
    <3> SUFFICES ASSUME NEW n \in ModulesOf(r)
                 PROVE  \E h \in Commits :
                          /\ x.cur <= h
                          /\ stored[r] <= h
                          /\ h <= head[r]
                          /\ store'[n].models \in {store[n].models, tree[r][h][n]}
                          /\ store'[n].views \in {store[n].views, tree[r][h][n]}
      OBVIOUS
    <3>1. CASE n = m
      BY <1>5, <3>1
    <3>2. CASE n # m
      <4>1. store'[n] = store[n]
        BY <1>3, <1>5, <3>2
      <4> QED
        BY <1>0, <1>2, <1>3, <4>1
    <3> QED
      BY <3>1, <3>2
  <2>3. \A n \in Modules \ ModulesOf(r) : store'[n] = store[n]
    BY <1>3, <1>5
  <2>4. /\ x.pc \in {"parse", "models", "views", "gc"}
        /\ y.pc \in {"parse", "models", "views", "gc", "advance"}
    BY <1>2, <1>5
  <2> QED
    BY <1>1, <1>4, <1>5, <2>2, <2>3, <2>4, PullInvStore, ZenonT(90)
<1>6. CASE Parse(p, r, m)
  <2>1. PICK content \in Shas : content = tree[r][head[r]][m]
    BY DEF TypeInv, TypeOK
  <2> DEFINE z == PhaseStep(x, m, "models")
             y == [z EXCEPT !.parsed[m] = content]
  <2>2. w' = [w EXCEPT ![p][r] = y]
    BY <1>1, <1>6, <2>1 DEF Parse
  <2>3. z \in Worker
    BY PhaseStepType
  <2>a. /\ z.pc \in {x.pc, "models"} /\ z.cur = x.cur /\ z.prev = x.prev
        /\ z.live = x.live /\ z.sel = x.sel
    BY PhaseStepFields, ZenonT(90)
  <2> HIDE DEF z
  <2>4. y \in Worker
    BY <1>0, <2>2
  <2>5. y.pc = z.pc /\ y.cur = z.cur /\ y.prev = z.prev /\ y.live = z.live /\ y.sel = z.sel
    BY <2>3 DEF Worker
  <2>6. \A n \in Modules \ {m} : store'[n] = store[n]
    BY <1>0, <1>6 DEF Parse
  <2>7. store'[m].models = store[m].models /\ store'[m].views = store[m].views
    <3>1. store[m] \in Layers
      BY <1>0
    <3>2. store'[m] \in {store[m], [store[m] EXCEPT !.emb = content]}
      BY <1>0, <1>6, <2>1 DEF Parse
    <3> QED
      BY <3>1, <3>2 DEF Layers
  <2> HIDE DEF y
  <2>8. y.pc \in {"parse", "models", "views", "gc"}
    BY <1>2, <2>a, <2>5
  <2>9. \E h \in Commits :
          /\ x.cur <= h
          /\ stored[r] <= h
          /\ h <= head[r]
          /\ store'[m].models \in {store[m].models, tree[r][h][m]}
          /\ store'[m].views \in {store[m].views, tree[r][h][m]}
    BY <1>0, <1>2, <1>3, <2>7
  <2>10. y.cur = x.cur /\ y.prev = x.prev /\ y.live = x.live /\ y.sel = x.sel
    BY <2>a, <2>5
  <2> QED
    BY <1>5, <2>2, <2>4, <2>6, <2>8, <2>9, <2>10
\* What was parsed was the content of a commit since HEAD was read.
<1>7. x.pc # "parse" => ReadSince(r, x, m, x.parsed[m])
  BY <1>2, <1>3 DEF Progress, IsParsed
<1>8. CASE WriteModels(p, r, m)
  <2> DEFINE y == PhaseStep(x, m, "views")
  <2>1. w' = [w EXCEPT ![p][r] = y] /\ store' = [store EXCEPT ![m].models = x.parsed[m]]
    BY <1>1, <1>8 DEF WriteModels
  <2>2. y \in Worker
    BY PhaseStepType
  <2>a. /\ y.pc \in {x.pc, "views"} /\ y.cur = x.cur /\ y.prev = x.prev
        /\ y.live = x.live /\ y.sel = x.sel
    BY PhaseStepFields
  <2>3. store'[m].models = x.parsed[m] /\ store'[m].views = store[m].views
    <3>1. store[m] \in Layers /\ store'[m] = [store[m] EXCEPT !.models = x.parsed[m]]
      BY <1>0, <2>1
    <3> QED
      BY <3>1 DEF Layers
  <2>4. \A n \in Modules \ {m} : store'[n] = store[n]
    BY <1>0, <2>1
  <2> HIDE DEF y
  <2>b. y.pc \in {"parse", "models", "views", "gc"}
    BY <1>2, <2>a
  <2>5. x.pc # "parse"
    BY <1>1, <1>8 DEF WriteModels
  <2>6. \E h \in Commits :
          /\ x.cur <= h
          /\ stored[r] <= h
          /\ h <= head[r]
          /\ store'[m].models \in {store[m].models, tree[r][h][m]}
          /\ store'[m].views \in {store[m].views, tree[r][h][m]}
    BY <1>7, <2>3, <2>5 DEF ReadSince
  <2> QED
    BY <1>2, <1>5, <2>1, <2>2, <2>a, <2>4, <2>6, <2>b
<1>9. CASE WriteViews(p, r, m)
  <2> DEFINE y == PhaseStep(x, m, "gc")
  <2>1. w' = [w EXCEPT ![p][r] = y] /\ store' = [store EXCEPT ![m].views = x.parsed[m]]
    BY <1>1, <1>9 DEF WriteViews
  <2>2. y \in Worker
    BY PhaseStepType
  <2>a. /\ y.pc \in {x.pc, "gc"} /\ y.cur = x.cur /\ y.prev = x.prev
        /\ y.live = x.live /\ y.sel = x.sel
    BY PhaseStepFields
  <2>3. store'[m].views = x.parsed[m] /\ store'[m].models = store[m].models
    <3>1. store[m] \in Layers /\ store'[m] = [store[m] EXCEPT !.views = x.parsed[m]]
      BY <1>0, <2>1
    <3> QED
      BY <3>1 DEF Layers
  <2>4. \A n \in Modules \ {m} : store'[n] = store[n]
    BY <1>0, <2>1
  <2> HIDE DEF y
  <2>b. y.pc \in {"parse", "models", "views", "gc"}
    BY <1>2, <2>a
  <2>5. x.pc # "parse"
    BY <1>1, <1>9 DEF WriteViews
  <2>6. \E h \in Commits :
          /\ x.cur <= h
          /\ stored[r] <= h
          /\ h <= head[r]
          /\ store'[m].models \in {store[m].models, tree[r][h][m]}
          /\ store'[m].views \in {store[m].views, tree[r][h][m]}
    BY <1>7, <2>3, <2>5 DEF ReadSince
  <2> QED
    BY <1>2, <1>5, <2>1, <2>2, <2>a, <2>4, <2>6, <2>b
<1> QED
  BY <1>6, <1>8, <1>9

LEMMA PullInvClose ==
  ASSUME TypeInv, TypeInv', OneWorkerPerRepo', WorkerInv, PullInv,
         NEW p \in Procs, NEW r \in Repos,
         CollectStale(p, r) \/ Advance(p, r) \/ Propagate(p, r)
  PROVE  PullInv'
<1>0. /\ w \in [Procs -> [Repos -> Worker]] /\ w' \in [Procs -> [Repos -> Worker]]
      /\ store \in [Modules -> Layers] /\ head[r] \in Commits /\ head[r] \in Nat
      /\ stored \in [Repos -> Shas]
  BY ShasAreNumbers DEF TypeInv, TypeOK
<1>1. PICK x \in Worker : x = w[p][r]
  BY <1>0
<1>2. /\ x.pc \in {"gc", "advance", "propagate"}
      /\ Selection(p, r, x) /\ Progress(p, r, x) /\ stored[r] <= head[r]
      /\ Linear(r) /\ IndexedSince(r, stored[r]) /\ Continues(r, x)
  BY <1>1 DEF CollectStale, Advance, Propagate, WorkerInv, Behind, PullInv
<1>3. x.sel \subseteq ModulesOf(r) /\ x.live \subseteq ModulesOf(r) /\ ModulesOf(r) \subseteq Modules
      /\ x.cur <= head[r] /\ (Incremental(x) \/ x.sel = x.live)
  BY <1>2 DEF Selection, ModulesOf, Scanned
<1>4. \A m \in ModulesOf(r) \ x.live : ReadSince(r, x, m, Absent)
  BY <1>2 DEF Selection, Scanned
<1>5. UNCHANGED gitVars
  BY DEF CollectStale, Advance, Propagate
<1>6. CASE CollectStale(p, r)
  <2> DEFINE y == [x EXCEPT !.pc = "advance"]
  <2>1. w' = [w EXCEPT ![p][r] = y]
    BY <1>0, <1>1, <1>6 DEF CollectStale
  <2>2. y \in Worker
    BY <1>0, <2>1
  <2>3. y.pc = "advance" /\ y.cur = x.cur /\ y.prev = x.prev /\ y.live = x.live /\ y.sel = x.sel
    BY DEF Worker
  <2>4. /\ x.pc = "gc" /\ stored' = stored
        /\ \A m \in Modules : m \notin Stale(p, r) => store'[m] = store[m]
    BY <1>1, <1>6 DEF CollectStale
  <2>5. Stale(p, r) \subseteq ModulesOf(r) \ x.live
    BY <1>1 DEF Stale
  <2> HIDE DEF y
  <2>6. \A m \in Modules \ ModulesOf(r) : store'[m] = store[m]
    BY <2>4, <2>5
  <2>7. \A m \in ModulesOf(r) : \E h \in Commits :
           /\ x.cur <= h
           /\ stored[r] <= h
           /\ h <= head[r]
           /\ \/ tree[r][h][m] = Absent
              \/ /\ store'[m].models \in {store[m].models, tree[r][h][m]}
                 /\ store'[m].views \in {store[m].views, tree[r][h][m]}
    <3> SUFFICES ASSUME NEW m \in ModulesOf(r)
                 PROVE  \E h \in Commits :
                          /\ x.cur <= h
                          /\ stored[r] <= h
                          /\ h <= head[r]
                          /\ \/ tree[r][h][m] = Absent
                             \/ /\ store'[m].models \in {store[m].models, tree[r][h][m]}
                                /\ store'[m].views \in {store[m].views, tree[r][h][m]}
      OBVIOUS
    <3>1. CASE m \in Stale(p, r)
      BY <1>4, <2>5, <3>1 DEF ReadSince
    <3>2. CASE m \notin Stale(p, r)
      <4>1. store'[m] = store[m]
        BY <1>3, <2>4, <3>2
      <4>2. head[r] <= head[r]
        BY <1>0
      <4> QED
        BY <1>0, <1>2, <1>3, <4>1, <4>2
    <3> QED
      BY <3>1, <3>2
  <2> QED
    BY <1>1, <1>5, <2>1, <2>2, <2>3, <2>4, <2>6, <2>7, PullInvStore
<1>7. ASSUME NEW pc \in {"propagate", "status"}, w' = [w EXCEPT ![p][r].pc = pc],
             \A q \in Repos \ {r} : stored'[q] \in {stored[q], NoSha},
             store' = store, IndexedSince(r, stored[r])'
      PROVE  PullInv'
  <2> DEFINE y == [x EXCEPT !.pc = pc]
  <2>1. w' = [w EXCEPT ![p][r] = y]
    BY <1>0, <1>1, <1>7
  <2>2. y \in Worker
    BY <1>0, <2>1
  <2>3. y.pc = pc /\ y.cur = x.cur /\ y.prev = x.prev /\ y.live = x.live /\ y.sel = x.sel
    BY DEF Worker
  <2> HIDE DEF y
  <2>4. Continues(r, y)'
    BY <1>2, <1>5, <1>7, <2>3 DEF Continues, Incremental, IndexedSince, gitVars
  <2> QED
    BY <1>5, <1>7, <2>1, <2>2, <2>3, <2>4, PullActs
\* The new head_sha: the selection was written, the rest of what is there is
\* as it was at the old one, and nothing else is there.
<1>8. CASE Advance(p, r)
  <2>1. x.pc = "advance" /\ store' = store
    BY <1>1, <1>8 DEF Advance, storeVars
  <2>2. ASSUME x.cur # NoSha
        PROVE  IndexedSince(r, x.cur)
    <3> SUFFICES ASSUME NEW m \in ModulesOf(r),
                        tree[r][x.cur][m] = tree[r][head[r]][m], tree[r][head[r]][m] # Absent
                 PROVE  /\ store[m].models = tree[r][head[r]][m]
                        /\ store[m].views = tree[r][head[r]][m]
      BY DEF IndexedSince
    <3>0. m \in Modules /\ x.cur \in Commits
      BY <1>3, <2>2 DEF Worker, Shas
    <3>1. ASSUME NEW k, ReadSince(r, x, m, k)
          PROVE  k = tree[r][head[r]][m]
      <4>1. PICK h \in Commits : x.cur <= h /\ h <= head[r] /\ tree[r][h][m] = k
        BY <3>1 DEF ReadSince
      <4>2. tree[r][h][m] = tree[r][head[r]][m]
        BY <1>2, <3>0, <4>1, Between
      <4> QED
        BY <4>1, <4>2
    <3>2. CASE m \in x.sel
      <4>1. /\ ReadSince(r, x, m, x.parsed[m])
            /\ store[m].models = x.parsed[m] /\ store[m].views = x.parsed[m]
        BY <1>2, <2>1, <3>2 DEF Progress, IsParsed, ModelsWritten, ViewsWritten
      <4> QED
        BY <3>1, <4>1
    <3>3. CASE m \in x.live \ x.sel
      <4>1. Incremental(x)
        BY <1>3, <3>3
      <4>2. tree[r][x.prev][m] = tree[r][x.cur][m] /\ IndexedSince(r, x.prev) /\ x.prev # NoSha
        BY <1>2, <2>1, <3>3, <4>1 DEF Continues, Incremental
      <4> QED
        BY <4>2 DEF IndexedSince
    <3>4. CASE m \notin x.live
      BY <1>4, <3>1, <3>4
    <3> QED
      BY <3>2, <3>3, <3>4
  <2>3. IndexedSince(r, stored[r])'
    <3>1. CASE x.cur = NoSha
      <4>1. stored' = stored
        BY <1>1, <1>8, <3>1 DEF Advance
      <4> QED
        BY <1>2, <1>5, <2>1, <4>1 DEF IndexedSince, gitVars
    <3>2. CASE x.cur # NoSha
      <4>1. stored'[r] = x.cur
        BY <1>0, <1>1, <1>8, <3>2 DEF Advance
      <4> QED
        BY <1>5, <2>1, <2>2, <3>2, <4>1 DEF IndexedSince, gitVars
    <3> QED
      BY <3>1, <3>2
  <2>4. PICK pc \in {"propagate", "status"} : w' = [w EXCEPT ![p][r].pc = pc]
    BY <1>8 DEF Advance
  <2>5. \A q \in Repos \ {r} : stored'[q] \in {stored[q], NoSha}
    BY <1>0, <1>8 DEF Advance
  <2> QED
    BY <1>7, <2>1, <2>3, <2>4, <2>5
<1>9. CASE Propagate(p, r)
  <2>1. w' = [w EXCEPT ![p][r].pc = "status"] /\ store' = store
    BY <1>9 DEF Propagate, storeVars
  <2>2. \A q \in Repos : stored'[q] \in {stored[q], NoSha}
    BY <1>0, <1>9 DEF Propagate
  <2>3. IndexedSince(r, stored[r])'
    BY <1>2, <1>5, <2>1, <2>2 DEF IndexedSince, gitVars
  <2> QED
    BY <1>7, <2>1, <2>2, <2>3
<1> QED
  BY <1>6, <1>8, <1>9

LEMMA PullInvNext ==
  ASSUME PulledOnly, TypeInv, TypeInv', OneWorkerPerRepo', WorkerInv, PullInv, [Next]_vars
  PROVE  PullInv'
<1>1. CASE \E r \in Repos : Pull(r) \/ Amend(r) \/ Revert(r)
  BY <1>1, PullInvMove
<1>2. ASSUME UNCHANGED <<gitVars, stored, storeVars>>,
             \A p \in Procs, r \in Repos : w'[p][r].pc # "idle" => w'[p][r] = w[p][r]
      PROVE  PullInv'
  <2>1. \A r \in Repos : Linear(r)' /\ IndexedSince(r, stored[r])'
    BY <1>2 DEF PullInv, Linear, IndexedSince, gitVars, storeVars
  <2>2. \A p \in Procs, r \in Repos : w'[p][r].pc # "idle" => Continues(r, w[p][r])'
    BY <1>2 DEF PullInv, Continues, IndexedSince, gitVars, storeVars
  <2> QED
    BY <2>1, <2>2 DEF PullInv
<1>3. ASSUME NEW p \in Procs,
             \/ \E prof \in Profiles, kind \in Kinds : Begin(p, prof, kind)
             \/ End(p) \/ Crash(p) \/ LoseSession(p)
             \/ \E r \in Repos : Succeed(p, r) \/ Fail(p, r)
      PROVE  PullInv'
  <2>1. UNCHANGED <<gitVars, stored, storeVars>>
    BY <1>3 DEF Begin, End, Crash, LoseSession, Succeed, Fail
  <2>2. w \in [Procs -> [Repos -> Worker]] /\ IdleWorker.pc = "idle"
    BY DEF TypeInv, TypeOK, IdleWorker
  <2>3. \A q \in Procs, s \in Repos : w'[q][s].pc # "idle" => w'[q][s] = w[q][s]
    <3>1. CASE \E r \in Repos : Succeed(p, r) \/ Fail(p, r)
      BY <2>2, <3>1 DEF Succeed, Fail, Done
    <3>2. CASE Crash(p)
      BY <2>2, <3>2 DEF Crash
    <3> QED
      BY <1>3, <3>1, <3>2 DEF Begin, End, LoseSession
  <2> QED
    BY <1>2, <2>1, <2>3
<1>4. ASSUME NEW p \in Procs, NEW r \in Repos, WorkerStep(p, r), ~Succeed(p, r)
      PROVE  PullInv'
  BY <1>4, PullInvSelect, PullInvWrite, PullInvClose DEF WorkerStep
<1>5. CASE UNCHANGED vars
  BY <1>2, <1>5 DEF vars, gitVars, storeVars
<1> QED
  BY <1>1, <1>3, <1>4, <1>5 DEF Next

-----------------------------------------------------------------------------
(* The theorems                                                            *)

PulledInv == LockInv /\ WorkerInv /\ PullInv

LEMMA PulledInvHolds == PulledOnly /\ ~SessionDrops => (Spec => []PulledInv)
<1> SUFFICES ASSUME PulledOnly, ~SessionDrops PROVE Spec => []PulledInv
  OBVIOUS
<1>1. Init => PulledInv
  BY LockInvInit, WorkerInvInit, PullInvInit DEF PulledInv
<1>2. PulledInv /\ [Next]_vars => PulledInv'
  <2>1. LockInv /\ [Next]_vars => LockInv'
    BY TypeInvNext, RunsHoldTheirLockNext DEF LockInv
  <2>2. LockInv' => OneWorkerPerRepo' /\ TypeInv'
    BY LockInvExcludes, PTL DEF LockInv
  <2> QED
    BY <2>1, <2>2, WorkerInvNext, PullInvNext DEF LockInv, PulledInv
<1> QED
  BY <1>1, <1>2, PTL DEF Spec

LEMMA PulledInvIndexed == PulledInv => UnchangedIsIndexed
<1> SUFFICES ASSUME PulledInv, NEW m \in Modules, Unchanged(m)
             PROVE  /\ store[m].models = tree[RepoOf[m]][head[RepoOf[m]]][m]
                    /\ store[m].views = tree[RepoOf[m]][head[RepoOf[m]]][m]
  BY DEF UnchangedIsIndexed
<1>1. RepoOf[m] \in Repos /\ m \in ModulesOf(RepoOf[m])
  BY ConstantsAssumption DEF ModulesOf
<1>2. IndexedSince(RepoOf[m], stored[RepoOf[m]])
  BY <1>1 DEF PulledInv, PullInv
<1> QED
  BY <1>1, <1>2 DEF IndexedSince, Unchanged

\* While checkouts are only pulled, whatever raises or is killed and however
\* the pulls fall between the steps of the runs, the modules that the next
\* run will skip are in the graph with the content they have at HEAD.
THEOREM UnchangedIsAlwaysIndexed == PulledOnly /\ ~SessionDrops => (Spec => []UnchangedIsIndexed)
  BY PulledInvHolds, PulledInvIndexed, PTL

\* While checkouts are only pulled, repos.head_sha moves to a descendant of
\* what it was, or to NULL.
THEOREM HeadShaAdvances == PulledOnly /\ ~SessionDrops => (Spec => HeadShaNeverGoesBack)
<1> SUFFICES ASSUME PulledOnly, ~SessionDrops PROVE Spec => HeadShaNeverGoesBack
  OBVIOUS
<1> DEFINE Forward == \A r \in Repos :
             stored'[r] \in {stored[r], NoSha} \/ stored[r] = NoSha \/ stored[r] \in anc[r][stored'[r]]
<1>1. PulledInv /\ [Next]_vars => [Forward]_vars
  <2> SUFFICES ASSUME PulledInv, Next, NEW r \in Repos
               PROVE  stored'[r] \in {stored[r], NoSha} \/ stored[r] = NoSha
                        \/ stored[r] \in anc[r][stored'[r]]
    OBVIOUS
  <2>0. /\ stored \in [Repos -> Shas] /\ w \in [Procs -> [Repos -> Worker]]
        /\ Shas \subseteq Nat /\ head[r] \in Nat /\ last[r] \in Nat
    BY ShasAreNumbers DEF PulledInv, LockInv, TypeInv, TypeOK
  <2>1. ASSUME NEW p \in Procs, NEW q \in Repos, w[p][q].pc # "idle", w[p][q].cur # NoSha,
               stored' = [stored EXCEPT ![q] = w[p][q].cur], stored[r] # NoSha
        PROVE  stored'[r] = stored[r] \/ stored[r] \in anc[r][stored'[r]]
    <3>1. CASE q # r
      BY <2>0, <2>1, <3>1
    <3>2. CASE q = r
      <4>1. PICK x \in Worker : x = w[p][r]
        BY <2>0
      <4>2. stored'[r] = x.cur /\ x.cur # NoSha
        BY <2>0, <2>1, <3>2, <4>1
      <4>3. x.cur \in Commits /\ stored[r] <= x.cur /\ x.cur <= head[r] /\ head[r] <= last[r]
        BY <2>1, <3>2, <4>1, <4>2 DEF PulledInv, WorkerInv, Selection, Behind, Worker, Shas
      <4>4. anc[r][x.cur] = 1..x.cur
        <5>1. x.cur \in Nat /\ x.cur <= last[r]
          BY <2>0, <4>3 DEF Shas
        <5> QED
          BY <4>3, <5>1 DEF PulledInv, PullInv, Linear
      <4>5. stored[r] \in 1..x.cur
        BY <2>0, <2>1, <4>3 DEF NoSha, Shas
      <4> QED
        BY <4>2, <4>4, <4>5
    <3> QED
      BY <3>1, <3>2
  <2>2. ASSUME NEW p \in Procs, NEW q \in Repos, NothingChanged(p, q) \/ Advance(p, q)
        PROVE  stored'[r] = stored[r] \/ stored[r] = NoSha \/ stored[r] \in anc[r][stored'[r]]
    <3>1. \/ stored' = stored
          \/ /\ w[p][q].pc # "idle" /\ w[p][q].cur # NoSha
             /\ stored' = [stored EXCEPT ![q] = w[p][q].cur]
      BY <2>2 DEF NothingChanged, Advance, Incremental
    <3> QED
      BY <2>1, <3>1
  <2>3. ASSUME NEW p \in Procs, NEW q \in Repos, Propagate(p, q)
        PROVE  stored'[r] \in {stored[r], NoSha}
    BY <2>3 DEF Propagate
  <2>4. CASE \E q \in Repos : Pull(q) \/ Amend(q) \/ Revert(q)
    BY <2>4 DEF Pull, Amend, Revert, NewCommit
  <2>5. ASSUME NEW p \in Procs,
               \/ \E prof \in Profiles, kind \in Kinds : Begin(p, prof, kind)
               \/ End(p) \/ Crash(p) \/ LoseSession(p)
               \/ \E q \in Repos : Fail(p, q)
        PROVE  stored' = stored
    BY <2>5 DEF Begin, End, Crash, LoseSession, Fail
  <2>6. ASSUME NEW p \in Procs, NEW q \in Repos, WorkerStep(p, q),
               ~NothingChanged(p, q), ~Advance(p, q), ~Propagate(p, q)
        PROVE  stored' = stored
    BY <2>6 DEF WorkerStep, Skip, Start, Scan, Parse, WriteModels, WriteViews, CollectStale, Succeed
  <2> QED
    BY <2>2, <2>3, <2>4, <2>5, <2>6 DEF Next
<1>2. Spec => []PulledInv
  BY PulledInvHolds
<1>3. Spec => [][Forward]_vars
  BY <1>1, <1>2, PTL DEF Spec
<1> QED
  BY <1>3 DEF HeadShaNeverGoesBack

-----------------------------------------------------------------------------
(* The embeddings                                                          *)

\* The modules that s and HEAD agree on have the embeddings of that content.
EmbeddedSince(r, s) ==
  s # NoSha => \A m \in ModulesOf(r) :
    LET k == tree[r][head[r]][m] IN
    tree[r][s][m] = k /\ HasChunks(m, k) => store[m].emb = k

\* What a worker relies on, and what it has parsed, is embedded.
Embedded(r, x) ==
  /\ Incremental(x) => EmbeddedSince(r, x.prev)
  /\ x.pc \in {"parse", "models", "views", "gc", "advance"} =>
       \A m \in x.sel : IsParsed(x, m) /\ HasChunks(m, x.parsed[m]) => store[m].emb = x.parsed[m]

EmbedInv ==
  /\ \A r \in Repos : EmbeddedSince(r, stored[r])
  /\ \A p \in Procs, r \in Repos : w[p][r].pc # "idle" => Embedded(r, w[p][r])

\* Every run has an embedder.
AllEmbed == \A kind \in Kinds : kind.embed

LEMMA EmbedInvInit == Init => EmbedInv
<1> SUFFICES ASSUME Init PROVE EmbedInv
  OBVIOUS
<1>1. \A r \in Repos : EmbeddedSince(r, stored[r])
  BY DEF Init, EmbeddedSince
<1> QED
  BY <1>1 DEF Init, EmbedInv, IdleWorker

\* What is embedded since s stays so when embeddings do not change, or become
\* those of HEAD.
LEMMA EmbeddedSinceKept ==
  ASSUME NEW r \in Repos, NEW s, EmbeddedSince(r, s), UNCHANGED gitVars,
         \A m \in ModulesOf(r) : store'[m].emb \in {store[m].emb, tree[r][head[r]][m]}
  PROVE  EmbeddedSince(r, s)'
<1> SUFFICES ASSUME s # NoSha, NEW m \in ModulesOf(r),
                    tree[r][s][m] = tree[r][head[r]][m], HasChunks(m, tree[r][head[r]][m])
             PROVE  store'[m].emb = tree[r][head[r]][m]
  BY DEF EmbeddedSince, gitVars
<1>1. store[m].emb = tree[r][head[r]][m]
  BY DEF EmbeddedSince
<1> QED
  BY <1>1

LEMMA EmbedInvMove ==
  ASSUME PulledOnly, TypeInv, TypeInv', WorkerInv, PullInv, EmbedInv, NEW r \in Repos,
         Pull(r) \/ Amend(r) \/ Revert(r)
  PROVE  EmbedInv'
<1>1. UNCHANGED <<stored, store, run, w>>
  BY DEF Pull, Amend, Revert, NewCommit
<1>2. ASSUME NEW q \in Repos, NEW s \in Shas, s <= head[q], EmbeddedSince(q, s)
      PROVE  EmbeddedSince(q, s)'
  BY <1>1, <1>2, MoveAgrees DEF EmbeddedSince, HasChunks
<1>3. ASSUME NEW q \in Repos
      PROVE  EmbeddedSince(q, stored[q])'
  <2>1. PICK s \in Shas : s = stored[q]
    BY DEF TypeInv, TypeOK
  <2>2. s <= head[q] /\ EmbeddedSince(q, s)
    BY <2>1 DEF WorkerInv, Behind, EmbedInv
  <2>3. EmbeddedSince(q, s)' /\ stored'[q] = s
    BY <1>1, <1>2, <2>1, <2>2
  <2> QED
    BY <2>3 DEF EmbeddedSince
<1>4. ASSUME NEW p \in Procs, NEW q \in Repos, w'[p][q].pc # "idle"
      PROVE  Embedded(q, w[p][q])'
  <2>1. PICK x \in Worker : x = w[p][q] /\ x.pc # "idle"
    BY <1>1, <1>4 DEF TypeInv, TypeOK
  <2>2. Embedded(q, x) /\ Continues(q, x) /\ x.cur <= head[q]
    BY <2>1 DEF EmbedInv, PullInv, WorkerInv, Selection
  <2>3. x.prev \in Shas /\ x.prev \in Nat /\ x.cur \in Nat /\ head[q] \in Nat
    BY ShasAreNumbers DEF Worker, TypeInv, TypeOK
  <2>4. Incremental(x) => EmbeddedSince(q, x.prev)'
    <3>1. Incremental(x) => EmbeddedSince(q, x.prev) /\ x.prev <= head[q]
      BY <2>2, <2>3 DEF Embedded, Continues
    <3> QED
      BY <1>2, <2>3, <3>1
  <2>5. Embedded(q, x)' /\ w'[p][q] = x
    BY <1>1, <2>1, <2>2, <2>4 DEF Embedded
  <2> QED
    BY <2>5 DEF Embedded
<1> QED
  BY <1>3, <1>4 DEF EmbedInv

\* It is enough to look at the worker that moves and at its repository.
LEMMA EmbedActs ==
  ASSUME TypeInv, TypeInv', OneWorkerPerRepo', WorkerInv, EmbedInv,
         NEW p \in Procs, NEW r \in Repos, NEW y \in Worker,
         w' = [w EXCEPT ![p][r] = y], y.pc # "idle",
         UNCHANGED gitVars,
         \A q \in Repos \ {r} : stored'[q] \in {stored[q], NoSha},
         \A m \in Modules \ ModulesOf(r) : store'[m].emb = store[m].emb,
         EmbeddedSince(r, stored[r])', Embedded(r, y)'
  PROVE  EmbedInv'
<1>0. w \in [Procs -> [Repos -> Worker]]
  BY DEF TypeInv, TypeOK
<1>1. \A q \in Repos \ {r} : ModulesOf(q) \subseteq Modules \ ModulesOf(r)
  BY DEF ModulesOf
<1>2. ASSUME NEW q \in Repos \ {r}, NEW s, EmbeddedSince(q, s)
      PROVE  EmbeddedSince(q, s)'
  BY <1>1, <1>2, EmbeddedSinceKept
<1>3. ASSUME NEW q \in Repos
      PROVE  EmbeddedSince(q, stored[q])'
  <2>1. CASE q # r
    <3>1. PICK s : s = stored[q]
      OBVIOUS
    <3>2. EmbeddedSince(q, s)'
      BY <1>2, <2>1, <3>1 DEF EmbedInv
    <3>3. stored'[q] = s \/ stored'[q] = NoSha
      BY <2>1, <3>1
    <3> QED
      BY <3>2, <3>3 DEF EmbeddedSince
  <2> QED
    BY <2>1
<1>4. ASSUME NEW q \in Procs, NEW s \in Repos, w'[q][s].pc # "idle"
      PROVE  Embedded(s, w[q][s])'
  <2>1. CASE q = p /\ s = r
    <3>1. w'[q][s] = y
      BY <1>0, <2>1
    <3> QED
      BY <2>1, <3>1 DEF Embedded
  <2>2. CASE s # r
    <3>1. PICK x \in Worker : x = w[q][s]
      BY <1>0
    <3>2. w'[q][s] = x /\ x.pc # "idle"
      BY <1>0, <1>4, <2>2, <3>1
    <3>3. Embedded(s, x) /\ x.sel \subseteq ModulesOf(s)
      BY <3>1, <3>2 DEF EmbedInv, WorkerInv, Selection
    <3>4. Embedded(s, x)'
      BY <1>1, <1>2, <2>2, <3>3 DEF Embedded
    <3> QED
      BY <3>2, <3>4 DEF Embedded
  <2>3. CASE s = r /\ q # p
    <3>1. w'[p][r].pc # "idle"
      BY <1>0
    <3> QED
      BY <1>4, <2>3, <3>1 DEF OneWorkerPerRepo
  <2> QED
    BY <2>1, <2>2, <2>3
<1> QED
  BY <1>3, <1>4 DEF EmbedInv

LEMMA EmbedInvSelect ==
  ASSUME PulledOnly, TypeInv, TypeInv', OneWorkerPerRepo', WorkerInv, EmbedInv,
         NEW p \in Procs, NEW r \in Repos,
         Skip(p, r) \/ Start(p, r) \/ Scan(p, r) \/ NothingChanged(p, r)
  PROVE  EmbedInv'
<1>0. /\ w \in [Procs -> [Repos -> Worker]] /\ w' \in [Procs -> [Repos -> Worker]]
      /\ stored \in [Repos -> Shas] /\ EmbeddedSince(r, stored[r])
  BY DEF TypeInv, TypeOK, EmbedInv
<1>1. UNCHANGED <<gitVars, store>> /\ \A q \in Repos \ {r} : stored'[q] \in {stored[q], NoSha}
  BY <1>0 DEF Skip, Start, Scan, NothingChanged, storeVars
<1>2. \A s : EmbeddedSince(r, s) => EmbeddedSince(r, s)'
  BY <1>1 DEF EmbeddedSince, gitVars
<1>a. stored'[r] = stored[r] => EmbeddedSince(r, stored[r])'
  BY <1>0, <1>1 DEF EmbeddedSince, gitVars
<1>b. PICK x \in Worker : x = w[p][r]
  BY <1>0
<1>c. PICK L \in SUBSET Modules : L = Live(r)
  BY DEF Live, ModulesOf
<1>3. CASE Skip(p, r)
  <2> DEFINE y == [IdleWorker EXCEPT !.pc = "status"]
  <2>1. w' = [w EXCEPT ![p][r] = y] /\ stored' = stored
    BY <1>3 DEF Skip
  <2>2. y \in Worker
    BY <1>0, <2>1
  <2>3. y.pc = "status" /\ y.cur = NoSha
    BY DEF IdleWorker
  <2> HIDE DEF y
  <2>4. Embedded(r, y)'
    BY <2>3 DEF Embedded, Incremental
  <2> QED
    BY <1>1, <1>a, <2>1, <2>2, <2>3, <2>4, EmbedActs
<1>4. CASE Start(p, r)
  <2>0. PICK cur \in ReadHead(r) : \E prev \in LastHead(p, r, cur) :
          w' = [w EXCEPT ![p][r] = [IdleWorker EXCEPT !.pc = "scan", !.cur = cur, !.prev = prev]]
    BY <1>4 DEF Start
  <2>1. PICK prev \in LastHead(p, r, cur) :
          w' = [w EXCEPT ![p][r] = [IdleWorker EXCEPT !.pc = "scan", !.cur = cur, !.prev = prev]]
    BY <2>0
  <2> DEFINE y == [IdleWorker EXCEPT !.pc = "scan", !.cur = cur, !.prev = prev]
  <2>2. w' = [w EXCEPT ![p][r] = y] /\ y \in Worker
    BY <1>0, <2>1
  <2>3. y.pc = "scan" /\ y.prev = prev
    BY DEF IdleWorker
  <2>4. stored' = stored /\ prev \in {stored[r], NoSha}
    BY <1>4 DEF Start, LastHead, NoSha
  <2> HIDE DEF y
  <2>5. Embedded(r, y)'
    BY <1>0, <1>2, <2>3, <2>4 DEF Embedded, Incremental
  <2> QED
    BY <1>1, <1>a, <2>2, <2>3, <2>4, <2>5, EmbedActs
<1>5. CASE Scan(p, r)
  <2>1. PICK sel \in IF Incremental(x) THEN Changed(r, x, L) ELSE {L} :
          w' = [w EXCEPT ![p][r] = [x EXCEPT !.pc = IF sel = {} THEN "gc" ELSE "parse",
                                             !.live = L, !.sel = sel, !.todo = sel]]
    BY <1>5, <1>b, <1>c DEF Scan
  <2> DEFINE y == [x EXCEPT !.pc = IF sel = {} THEN "gc" ELSE "parse",
                            !.live = L, !.sel = sel, !.todo = sel]
  <2>2. w' = [w EXCEPT ![p][r] = y] /\ y \in Worker
    BY <1>0, <2>1
  <2>3. /\ y.pc = (IF sel = {} THEN "gc" ELSE "parse") /\ y.cur = x.cur /\ y.prev = x.prev
        /\ y.sel = sel /\ y.todo = sel
    BY DEF Worker
  <2>4. stored' = stored /\ x.pc = "scan"
    BY <1>5, <1>b DEF Scan
  <2>5. Embedded(r, x)
    BY <1>b, <2>4 DEF EmbedInv
  <2> HIDE DEF y
  <2>6. \A m \in y.sel : ~IsParsed(y, m)
    BY <2>3 DEF IsParsed
  <2>7. Embedded(r, y)'
    BY <1>2, <2>3, <2>5, <2>6 DEF Embedded, Incremental
  <2> QED
    BY <1>1, <1>a, <2>2, <2>3, <2>4, <2>7, EmbedActs
\* The new head_sha: what changed since is absent now, the rest is as it was.
<1>6. CASE NothingChanged(p, r)
  <2> DEFINE y == [x EXCEPT !.pc = "status", !.live = L]
  <2>1. w' = [w EXCEPT ![p][r] = y] /\ y \in Worker
    BY <1>0, <1>6, <1>b, <1>c DEF NothingChanged
  <2>2. y.pc = "status" /\ y.cur = x.cur /\ y.prev = x.prev
    BY DEF Worker
  <2>3. stored' = [stored EXCEPT ![r] = x.cur] /\ x.pc = "scan" /\ Incremental(x)
    BY <1>6, <1>b DEF NothingChanged
  <2>4. Embedded(r, x)
    BY <1>b, <2>3 DEF EmbedInv
  <2>5. \A m \in L : tree[r][x.prev][m] = tree[r][x.cur][m]
    BY <1>6, <1>b, <1>c DEF NothingChanged, Changed, PulledOnly
  <2> HIDE DEF y
  <2>6. EmbeddedSince(r, x.cur)
    <3> SUFFICES ASSUME NEW m \in ModulesOf(r),
                        tree[r][x.cur][m] = tree[r][head[r]][m],
                        HasChunks(m, tree[r][head[r]][m])
                 PROVE  store[m].emb = tree[r][head[r]][m]
      BY DEF EmbeddedSince
    <3>1. tree[r][x.prev][m] = tree[r][head[r]][m]
      BY <1>c, <2>5 DEF Live, HasChunks
    <3>2. EmbeddedSince(r, x.prev) /\ x.prev # NoSha
      BY <2>3, <2>4 DEF Embedded, Incremental
    <3> QED
      BY <3>1, <3>2 DEF EmbeddedSince
  <2>7. EmbeddedSince(r, stored[r])'
    <3>1. stored'[r] = x.cur /\ EmbeddedSince(r, x.cur)'
      BY <1>0, <1>2, <2>3, <2>6
    <3> QED
      BY <3>1 DEF EmbeddedSince
  <2>8. Embedded(r, y)'
    BY <1>2, <2>2, <2>4 DEF Embedded, Incremental
  <2> QED
    BY <1>1, <2>1, <2>2, <2>7, <2>8, EmbedActs
<1> QED
  BY <1>3, <1>4, <1>5, <1>6

LEMMA EmbedInvParse ==
  ASSUME AllEmbed, TypeInv, TypeInv', OneWorkerPerRepo', WorkerInv, EmbedInv,
         NEW p \in Procs, NEW r \in Repos, NEW m \in Modules, Parse(p, r, m)
  PROVE  EmbedInv'
<1>0. /\ w \in [Procs -> [Repos -> Worker]] /\ w' \in [Procs -> [Repos -> Worker]]
      /\ store \in [Modules -> Layers]
  BY DEF TypeInv, TypeOK
<1>1. PICK x \in Worker : x = w[p][r]
  BY <1>0
<1>2. PICK content \in Shas : content = tree[r][head[r]][m]
  BY DEF TypeInv, TypeOK
<1>3. x.pc = "parse" /\ m \in x.todo /\ UNCHANGED <<gitVars, stored>>
  BY <1>1 DEF Parse
<1>4. run[p].kind.embed
  <2>1. run[p] # NoRun /\ run[p] \in Run
    BY <1>1, <1>3 DEF TypeInv, TypeOK, RunsAndWorkers
  <2>2. run[p].kind \in Kinds
    BY <2>1 DEF Run
  <2> QED
    BY <2>2 DEF AllEmbed
<1>5. /\ m \in x.sel /\ x.sel \subseteq ModulesOf(r) /\ ModulesOf(r) \subseteq Modules
      /\ Embedded(r, x)
  BY <1>1, <1>3 DEF WorkerInv, Selection, EmbedInv, ModulesOf
\* The one module whose embeddings are replaced.
<1>6. /\ store' = IF HasChunks(m, content) THEN [store EXCEPT ![m].emb = content] ELSE store
      /\ w' = [w EXCEPT ![p][r] = [PhaseStep(x, m, "models") EXCEPT !.parsed[m] = content]]
  BY <1>1, <1>2, <1>4 DEF Parse
<1>7. /\ \A n \in Modules \ {m} : store'[n] = store[n]
      /\ ~HasChunks(m, content) => store'[m].emb = store[m].emb
      /\ HasChunks(m, content) => store'[m].emb = content
  <2>1. store[m] \in Layers
    BY <1>0
  <2> QED
    BY <1>0, <1>6, <2>1 DEF Layers
<1> DEFINE z == PhaseStep(x, m, "models")
           y == [z EXCEPT !.parsed[m] = content]
<1>8. z \in Worker
  BY PhaseStepType
<1>9. /\ z.pc = (IF x.todo = {m} THEN "models" ELSE x.pc)
      /\ z.todo = (IF x.todo = {m} THEN x.sel ELSE x.todo \ {m})
      /\ z.cur = x.cur /\ z.prev = x.prev /\ z.sel = x.sel /\ z.parsed = x.parsed
  BY PhaseStepFields
<1> HIDE DEF z
<1>10. w' = [w EXCEPT ![p][r] = y] /\ y \in Worker
  BY <1>0, <1>6 DEF z
<1>11. /\ y.pc = z.pc /\ y.todo = z.todo /\ y.cur = x.cur /\ y.prev = x.prev /\ y.sel = x.sel
       /\ y.parsed[m] = content /\ \A n \in Modules \ {m} : y.parsed[n] = x.parsed[n]
  BY <1>8, <1>9 DEF Worker
<1> HIDE DEF y
<1>12. \A s : EmbeddedSince(r, s) => EmbeddedSince(r, s)'
  <2>1. \A n \in ModulesOf(r) : store'[n].emb \in {store[n].emb, tree[r][head[r]][n]}
    BY <1>2, <1>5, <1>7
  <2> QED
    BY <1>3, <2>1, EmbeddedSinceKept
<1>13. EmbeddedSince(r, stored[r])'
  <2>1. PICK s : s = stored[r] /\ EmbeddedSince(r, s)
    BY DEF EmbedInv
  <2>2. EmbeddedSince(r, s)' /\ stored'[r] = s
    BY <1>3, <1>12, <2>1
  <2> QED
    BY <2>2 DEF EmbeddedSince
<1>14. Embedded(r, y)'
  <2>1. Incremental(y) => EmbeddedSince(r, y.prev)'
    BY <1>5, <1>11, <1>12 DEF Embedded, Incremental
  <2>2. ASSUME NEW n \in y.sel, IsParsed(y, n), HasChunks(n, y.parsed[n])
        PROVE  store'[n].emb = y.parsed[n]
    <3>1. CASE n = m
      BY <1>7, <1>11, <2>2, <3>1
    <3>2. CASE n # m
      <4>1. IsParsed(x, n)
        BY <1>3, <1>9, <1>11, <2>2, <3>2 DEF IsParsed
      <4>2. n \in x.sel /\ y.parsed[n] = x.parsed[n] /\ store'[n] = store[n]
        BY <1>5, <1>7, <1>11, <3>2
      <4> QED
        BY <1>3, <1>5, <2>2, <4>1, <4>2 DEF Embedded
    <3> QED
      BY <3>1, <3>2
  <2> QED
    BY <2>1, <2>2 DEF Embedded
<1>15. y.pc # "idle"
  BY <1>3, <1>9, <1>11
<1>16. \A n \in Modules \ ModulesOf(r) : store'[n].emb = store[n].emb
  BY <1>5, <1>7
<1> QED
  BY <1>3, <1>10, <1>13, <1>14, <1>15, <1>16, EmbedActs

\* A step of a phase, for whichever phase comes next.
LEMMA PhaseStepKeeps ==
  ASSUME NEW x \in Worker, NEW m, NEW next \in {"models", "views", "gc"},
         NEW y, y = PhaseStep(x, m, next)
  PROVE  /\ y \in Worker /\ y.pc \in {x.pc, next}
         /\ y.cur = x.cur /\ y.prev = x.prev /\ y.live = x.live /\ y.sel = x.sel
         /\ y.parsed = x.parsed
<1>1. next \in Phases \ {"start"}
  BY DEF Phases
<1>2. \/ y = [x EXCEPT !.pc = next, !.todo = x.sel]
      \/ y = [x EXCEPT !.todo = @ \ {m}]
  BY DEF PhaseStep
<1>3. CASE y = [x EXCEPT !.pc = next, !.todo = x.sel]
  BY <1>1, <1>3 DEF Worker
<1>4. CASE y = [x EXCEPT !.todo = @ \ {m}]
  BY <1>4 DEF Worker
<1> QED
  BY <1>2, <1>3, <1>4

\* The layers of the graph are not those of the embeddings.
LEMMA LayerKept ==
  ASSUME NEW v \in Layers, NEW s
  PROVE  [v EXCEPT !.models = s].emb = v.emb /\ [v EXCEPT !.views = s].emb = v.emb
  BY DEF Layers

\* The graph writes and the garbage collection leave the embeddings alone, and
\* a worker in these phases has parsed its selection.
LEMMA EmbedInvWrite ==
  ASSUME TypeInv, TypeInv', OneWorkerPerRepo', WorkerInv, EmbedInv,
         NEW p \in Procs, NEW r \in Repos,
         \/ \E m \in Modules : WriteModels(p, r, m) \/ WriteViews(p, r, m)
         \/ CollectStale(p, r)
  PROVE  EmbedInv'
<1>0. /\ w \in [Procs -> [Repos -> Worker]] /\ w' \in [Procs -> [Repos -> Worker]]
      /\ store \in [Modules -> Layers]
  BY DEF TypeInv, TypeOK
<1>1. PICK x \in Worker : x = w[p][r]
  BY <1>0
<1>2. x.pc \in {"models", "views", "gc"} /\ UNCHANGED <<gitVars, stored>>
  BY <1>1 DEF WriteModels, WriteViews, CollectStale
<1>3. \A m \in Modules : store'[m].emb = store[m].emb
  <2>1. CASE CollectStale(p, r)
    <3>1. \A m \in Modules : store'[m] \in {store[m], [store[m] EXCEPT !.models = Absent]}
      BY <2>1 DEF CollectStale
    <3> QED
      <4>1. TAKE m \in Modules
      <4>2. PICK v \in Layers : v = store[m]
        BY <1>0
      <4>3. [v EXCEPT !.models = Absent].emb = v.emb
        BY LayerKept
      <4> QED
        BY <3>1, <4>2, <4>3
  <2>2. ASSUME NEW n \in Modules, WriteModels(p, r, n) \/ WriteViews(p, r, n)
        PROVE  \A m \in Modules : store'[m].emb = store[m].emb
    <3>1. \/ store' = [store EXCEPT ![n].models = w[p][r].parsed[n]]
          \/ store' = [store EXCEPT ![n].views = w[p][r].parsed[n]]
      BY <2>2 DEF WriteModels, WriteViews
    <3>2. TAKE m \in Modules
    <3>3. CASE m # n
      BY <1>0, <3>1, <3>3
    <3>4. CASE m = n
      <4>1. PICK v \in Layers, s \in {w[p][r].parsed[n]} :
               v = store[n] /\ store'[n] \in {[v EXCEPT !.models = s], [v EXCEPT !.views = s]}
        BY <1>0, <3>1
      <4>2. [v EXCEPT !.models = s].emb = v.emb /\ [v EXCEPT !.views = s].emb = v.emb
        BY LayerKept
      <4> QED
        BY <3>4, <4>1, <4>2
    <3> QED
      BY <3>3, <3>4
  <2> QED
    BY <2>1, <2>2
<1>4. PICK y \in Worker : /\ w' = [w EXCEPT ![p][r] = y]
                          /\ y.pc \in {"models", "views", "gc", "advance"}
                          /\ y.cur = x.cur /\ y.prev = x.prev
                          /\ y.sel = x.sel /\ y.parsed = x.parsed
  <2>1. CASE CollectStale(p, r)
    <3>1. w' = [w EXCEPT ![p][r] = [x EXCEPT !.pc = "advance"]]
      BY <1>0, <1>1, <2>1 DEF CollectStale
    <3>2. [x EXCEPT !.pc = "advance"] \in Worker
      BY <1>0, <3>1
    <3>3. PICK y \in Worker : y = [x EXCEPT !.pc = "advance"]
      BY <3>2
    <3>4. /\ y.pc = "advance" /\ y.cur = x.cur /\ y.prev = x.prev
          /\ y.sel = x.sel /\ y.parsed = x.parsed
      BY <3>3 DEF Worker
    <3> QED
      BY <3>1, <3>3, <3>4
  <2>2. ASSUME NEW n \in Modules, NEW next \in {"views", "gc"},
               w' = [w EXCEPT ![p][r] = PhaseStep(x, n, next)]
        PROVE  \E y \in Worker : /\ w' = [w EXCEPT ![p][r] = y]
                                 /\ y.pc \in {"models", "views", "gc", "advance"}
                                 /\ y.cur = x.cur /\ y.prev = x.prev
                                 /\ y.sel = x.sel /\ y.parsed = x.parsed
    <3>1. PICK y : y = PhaseStep(x, n, next)
      OBVIOUS
    <3>2. /\ y \in Worker /\ y.pc \in {x.pc, next} /\ y.cur = x.cur /\ y.prev = x.prev
          /\ y.sel = x.sel /\ y.parsed = x.parsed
      BY <3>1, PhaseStepKeeps
    <3>3. w' = [w EXCEPT ![p][r] = y]
      BY <2>2, <3>1
    <3>4. y.pc \in {"models", "views", "gc", "advance"}
      BY <1>2, <3>2
    <3> QED
      BY <3>2, <3>3, <3>4, Zenon
  <2>3. ASSUME NEW n \in Modules, WriteModels(p, r, n)
        PROVE  w' = [w EXCEPT ![p][r] = PhaseStep(x, n, "views")]
    BY <1>1, <2>3 DEF WriteModels
  <2>4. ASSUME NEW n \in Modules, WriteViews(p, r, n)
        PROVE  w' = [w EXCEPT ![p][r] = PhaseStep(x, n, "gc")]
    BY <1>1, <2>4 DEF WriteViews
  <2> QED
    BY <2>1, <2>2, <2>3, <2>4
<1>5. \A s : EmbeddedSince(r, s) => EmbeddedSince(r, s)'
  BY <1>2, <1>3 DEF EmbeddedSince, ModulesOf, gitVars
<1>6. EmbeddedSince(r, stored[r])'
  <2>1. PICK s : s = stored[r] /\ EmbeddedSince(r, s)
    BY DEF EmbedInv
  <2>2. EmbeddedSince(r, s)' /\ stored'[r] = s
    BY <1>2, <1>5, <2>1
  <2> QED
    BY <2>2 DEF EmbeddedSince
<1>7. Embedded(r, x) /\ x.sel \subseteq Modules
  BY <1>1, <1>2 DEF EmbedInv, Worker
<1>8. Embedded(r, y)'
  <2>1. Incremental(y) => EmbeddedSince(r, y.prev)'
    BY <1>4, <1>5, <1>7 DEF Embedded, Incremental
  <2>2. ASSUME NEW m \in y.sel, IsParsed(y, m), HasChunks(m, y.parsed[m])
        PROVE  store'[m].emb = y.parsed[m]
    <3>1. m \in x.sel /\ IsParsed(x, m)
      BY <1>2, <1>4 DEF IsParsed
    <3> QED
      BY <1>2, <1>3, <1>4, <1>7, <2>2, <3>1 DEF Embedded
  <2> QED
    BY <2>1, <2>2 DEF Embedded
<1> QED
  BY <1>2, <1>3, <1>4, <1>6, <1>8, EmbedActs

LEMMA EmbedInvClose ==
  ASSUME TypeInv, TypeInv', OneWorkerPerRepo', WorkerInv, PullInv, EmbedInv,
         NEW p \in Procs, NEW r \in Repos, Advance(p, r) \/ Propagate(p, r)
  PROVE  EmbedInv'
<1>0. /\ w \in [Procs -> [Repos -> Worker]] /\ w' \in [Procs -> [Repos -> Worker]]
      /\ stored \in [Repos -> Shas]
  BY DEF TypeInv, TypeOK
<1>1. PICK x \in Worker : x = w[p][r]
  BY <1>0
<1>2. x.pc \in {"advance", "propagate"} /\ UNCHANGED <<gitVars, store>>
  BY <1>1 DEF Advance, Propagate, storeVars
<1>3. /\ Selection(p, r, x) /\ Progress(p, r, x) /\ Linear(r) /\ Continues(r, x)
      /\ Embedded(r, x) /\ EmbeddedSince(r, stored[r])
  BY <1>1, <1>2 DEF WorkerInv, PullInv, EmbedInv
<1>4. \A s : EmbeddedSince(r, s) => EmbeddedSince(r, s)'
  BY <1>2 DEF EmbeddedSince, gitVars
<1>5. ASSUME NEW pc \in {"propagate", "status"}, w' = [w EXCEPT ![p][r].pc = pc],
             \A q \in Repos \ {r} : stored'[q] \in {stored[q], NoSha},
             EmbeddedSince(r, stored[r])'
      PROVE  EmbedInv'
  <2> DEFINE y == [x EXCEPT !.pc = pc]
  <2>1. w' = [w EXCEPT ![p][r] = y]
    BY <1>0, <1>1, <1>5
  <2>2. y \in Worker
    BY <1>0, <2>1
  <2>3. y.pc = pc /\ y.cur = x.cur /\ y.prev = x.prev
    BY DEF Worker
  <2> HIDE DEF y
  <2>4. Embedded(r, y)'
    BY <1>3, <1>4, <2>3 DEF Embedded, Incremental
  <2> QED
    BY <1>2, <1>5, <2>1, <2>2, <2>3, <2>4, EmbedActs
\* The new head_sha: the selection was embedded, the rest of what is there is
\* as it was at the old one, and nothing else is there.
<1>6. CASE Advance(p, r)
  <2>1. x.pc = "advance"
    BY <1>1, <1>6 DEF Advance
  <2>2. ASSUME x.cur # NoSha
        PROVE  EmbeddedSince(r, x.cur)
    <3> SUFFICES ASSUME NEW m \in ModulesOf(r),
                        tree[r][x.cur][m] = tree[r][head[r]][m],
                        HasChunks(m, tree[r][head[r]][m])
                 PROVE  store[m].emb = tree[r][head[r]][m]
      BY DEF EmbeddedSince
    <3>0. m \in Modules /\ x.cur \in Commits /\ tree[r][head[r]][m] # Absent
      BY <2>2 DEF Worker, Shas, ModulesOf, HasChunks
    <3>1. ASSUME NEW k, ReadSince(r, x, m, k)
          PROVE  k = tree[r][head[r]][m]
      <4>1. PICK h \in Commits : x.cur <= h /\ h <= head[r] /\ tree[r][h][m] = k
        BY <3>1 DEF ReadSince
      <4>2. tree[r][h][m] = tree[r][head[r]][m]
        BY <1>3, <3>0, <4>1, Between
      <4> QED
        BY <4>1, <4>2
    <3>2. CASE m \in x.sel
      <4>1. ReadSince(r, x, m, x.parsed[m]) /\ IsParsed(x, m)
        BY <1>3, <2>1, <3>2 DEF Progress, IsParsed
      <4>2. x.parsed[m] = tree[r][head[r]][m]
        BY <3>1, <4>1
      <4> QED
        BY <1>3, <2>1, <3>2, <4>1, <4>2 DEF Embedded
    <3>3. CASE m \in x.live \ x.sel
      <4>1. Incremental(x)
        BY <1>3, <2>1, <3>3 DEF Selection, Scanned
      <4>2. tree[r][x.prev][m] = tree[r][x.cur][m] /\ EmbeddedSince(r, x.prev) /\ x.prev # NoSha
        BY <1>3, <2>1, <3>3, <4>1 DEF Continues, Embedded, Incremental
      <4> QED
        BY <4>2 DEF EmbeddedSince
    <3>4. CASE m \notin x.live
      <4>1. ReadSince(r, x, m, Absent)
        BY <1>3, <2>1, <3>4 DEF Selection, Scanned
      <4> QED
        BY <3>0, <3>1, <4>1
    <3> QED
      BY <3>2, <3>3, <3>4
  <2>3. EmbeddedSince(r, stored[r])'
    <3>0. stored' = IF x.cur # NoSha THEN [stored EXCEPT ![r] = x.cur] ELSE stored
      BY <1>1, <1>6 DEF Advance
    <3>1. \/ stored'[r] = stored[r]
          \/ x.cur # NoSha /\ stored'[r] = x.cur
      BY <1>0, <3>0
    <3>2. PICK s : s = stored'[r] /\ EmbeddedSince(r, s)
      BY <1>3, <2>2, <3>1
    <3>3. EmbeddedSince(r, s)'
      BY <1>4, <3>2
    <3> QED
      BY <3>2, <3>3 DEF EmbeddedSince
  <2>4. PICK pc \in {"propagate", "status"} : w' = [w EXCEPT ![p][r].pc = pc]
    BY <1>6 DEF Advance
  <2>5. \A q \in Repos \ {r} : stored'[q] \in {stored[q], NoSha}
    BY <1>0, <1>6 DEF Advance
  <2> QED
    BY <1>5, <2>3, <2>4, <2>5
<1>7. CASE Propagate(p, r)
  <2>1. w' = [w EXCEPT ![p][r].pc = "status"]
    BY <1>7 DEF Propagate
  <2>2. \A q \in Repos : stored'[q] \in {stored[q], NoSha}
    BY <1>0, <1>7 DEF Propagate
  <2>3. EmbeddedSince(r, stored[r])'
    BY <1>2, <1>3, <2>2 DEF EmbeddedSince, gitVars
  <2> QED
    BY <1>5, <2>1, <2>2, <2>3
<1> QED
  BY <1>6, <1>7

LEMMA EmbedInvNext ==
  ASSUME PulledOnly, AllEmbed, TypeInv, TypeInv', OneWorkerPerRepo', WorkerInv, PullInv,
         EmbedInv, [Next]_vars
  PROVE  EmbedInv'
<1>1. CASE \E r \in Repos : Pull(r) \/ Amend(r) \/ Revert(r)
  BY <1>1, EmbedInvMove
<1>2. ASSUME UNCHANGED <<gitVars, stored, storeVars>>,
             \A p \in Procs, r \in Repos : w'[p][r].pc # "idle" => w'[p][r] = w[p][r]
      PROVE  EmbedInv'
  BY <1>2 DEF EmbedInv, Embedded, EmbeddedSince, gitVars, storeVars
<1>3. ASSUME NEW p \in Procs,
             \/ \E prof \in Profiles, kind \in Kinds : Begin(p, prof, kind)
             \/ End(p) \/ Crash(p) \/ LoseSession(p)
             \/ \E r \in Repos : Succeed(p, r) \/ Fail(p, r)
      PROVE  EmbedInv'
  <2>1. UNCHANGED <<gitVars, stored, storeVars>>
    BY <1>3 DEF Begin, End, Crash, LoseSession, Succeed, Fail
  <2>2. w \in [Procs -> [Repos -> Worker]] /\ IdleWorker.pc = "idle"
    BY DEF TypeInv, TypeOK, IdleWorker
  <2>3. \A q \in Procs, s \in Repos : w'[q][s].pc # "idle" => w'[q][s] = w[q][s]
    <3>1. CASE \E r \in Repos : Succeed(p, r) \/ Fail(p, r)
      BY <2>2, <3>1 DEF Succeed, Fail, Done
    <3>2. CASE Crash(p)
      BY <2>2, <3>2 DEF Crash
    <3> QED
      BY <1>3, <3>1, <3>2 DEF Begin, End, LoseSession
  <2> QED
    BY <1>2, <2>1, <2>3
<1>4. ASSUME NEW p \in Procs, NEW r \in Repos, WorkerStep(p, r), ~Succeed(p, r)
      PROVE  EmbedInv'
  BY <1>4, EmbedInvSelect, EmbedInvParse, EmbedInvWrite, EmbedInvClose DEF WorkerStep
<1>5. CASE UNCHANGED vars
  BY <1>2, <1>5 DEF vars, gitVars, storeVars
<1> QED
  BY <1>1, <1>3, <1>4, <1>5 DEF Next

\* The same of the embeddings, when every run has an embedder: the modules that
\* the next run will skip, and whose content at HEAD gives chunks, have the
\* embeddings of that content; whichever contents give none.
THEOREM UnchangedIsAlwaysEmbedded ==
  PulledOnly /\ ~SessionDrops /\ AllEmbed => (Spec => []UnchangedIsEmbedded)
<1> SUFFICES ASSUME PulledOnly, ~SessionDrops, AllEmbed PROVE Spec => []UnchangedIsEmbedded
  OBVIOUS
<1>1. Init => EmbedInv
  BY EmbedInvInit
<1>2. PulledInv /\ PulledInv' /\ EmbedInv /\ [Next]_vars => EmbedInv'
  <2>1. PulledInv' => OneWorkerPerRepo' /\ TypeInv'
    BY LockInvExcludes, PTL DEF PulledInv, LockInv
  <2> QED
    BY <2>1, EmbedInvNext DEF PulledInv, LockInv
<1>3. EmbedInv => UnchangedIsEmbedded
  <2> SUFFICES ASSUME EmbedInv, NEW m \in Modules, Unchanged(m),
                      HasChunks(m, tree[RepoOf[m]][head[RepoOf[m]]][m])
               PROVE  store[m].emb = tree[RepoOf[m]][head[RepoOf[m]]][m]
    BY DEF UnchangedIsEmbedded
  <2>1. RepoOf[m] \in Repos /\ m \in ModulesOf(RepoOf[m])
    BY ConstantsAssumption DEF ModulesOf
  <2>2. EmbeddedSince(RepoOf[m], stored[RepoOf[m]])
    BY <2>1 DEF EmbedInv
  <2> QED
    BY <2>1, <2>2 DEF EmbeddedSince, Unchanged
<1>4. Spec => []PulledInv
  BY PulledInvHolds
<1> QED
  BY <1>1, <1>2, <1>3, <1>4, PTL DEF Spec

-----------------------------------------------------------------------------
(* Runs that nothing disturbs                                              *)

\* What the graph holds is what the recorded commit holds.
MirrorsStored(r) ==
  stored[r] # NoSha => \A m \in ModulesOf(r) :
    LET k == tree[r][stored[r]][m] IN
    k # Absent => store[m].models = k /\ store[m].views = k

Undisturbed(r, x) ==
  /\ x.pc # "status" => x.cur = head[r]
  /\ Incremental(x) => IndexedSince(r, x.prev)
  /\ Incremental(x) /\ x.pc \in {"parse", "models", "views", "gc", "advance"} =>
       \A m \in x.live \ x.sel : tree[r][x.prev][m] = tree[r][x.cur][m]
  /\ x.pc \in {"propagate", "status"} => MirrorsStored(r)

\* Between the runs the graph mirrors the recorded commit, so whatever commit
\* is checked out next, what the two agree on is indexed.  During a run only
\* the latter is left.
UndisturbedInv ==
  faults = 0 =>
    /\ \A r \in Repos : IndexedSince(r, stored[r])
    /\ \A r \in Repos : (\A p \in Procs : w[p][r].pc = "idle") => MirrorsStored(r)
    /\ \A p \in Procs, r \in Repos : w[p][r].pc # "idle" => Undisturbed(r, w[p][r])

\* Checkouts move between the runs only, in any way; git diff and git rev-parse
\* answer, and sessions last.
StillOnly == ~MovesDuringRuns /\ GitFaults \subseteq {"merge-base"} /\ ~SessionDrops

LEMMA UndisturbedInvInit == Init => UndisturbedInv
  BY DEF Init, UndisturbedInv, IndexedSince, MirrorsStored, IdleWorker

\* While HEAD stays, what was read since is what is there.
LEMMA ReadNow ==
  ASSUME TypeInv, NEW r \in Repos, NEW x \in Worker, x.cur = head[r],
         NEW m, NEW k, ReadSince(r, x, m, k)
  PROVE  k = tree[r][head[r]][m]
<1>1. PICK h \in Commits : head[r] <= h /\ h <= head[r] /\ tree[r][h][m] = k
  BY DEF ReadSince
<1>2. h \in Nat /\ head[r] \in Nat
  BY ShasAreNumbers DEF TypeInv, TypeOK
<1> QED
  BY <1>1, <1>2

LEMMA UndisturbedInvMove ==
  ASSUME StillOnly, TypeInv, TypeInv', WorkerInv, UndisturbedInv, NEW r \in Repos,
         Pull(r) \/ Amend(r) \/ Revert(r)
  PROVE  UndisturbedInv'
<1> SUFFICES ASSUME faults = 0 PROVE UndisturbedInv'
  BY DEF UndisturbedInv, Pull, Amend, Revert, NewCommit
<1>1. PICK base, content : NewCommit(r, base, content)
  BY DEF Pull, Amend, Revert
<1>2. /\ UNCHANGED <<stored, store, w, faults>>
      /\ \A p \in Procs : w[p][r].pc = "idle"
  BY <1>1 DEF NewCommit, StillOnly
<1>3. PICK n \in Commits : n = last[r] + 1
  <2>1. last[r] + 1 \in Commits
    BY <1>1, ShasAreNumbers, ConstantsAssumption DEF NewCommit, TypeInv, TypeOK, Commits
  <2> QED
    BY <2>1
<1>4. /\ \A c \in Commits \ {n} : tree'[r][c] = tree[r][c]
      /\ \A q \in Repos \ {r} : tree'[q] = tree[q] /\ head'[q] = head[q]
  <2>1. head' = [head EXCEPT ![r] = n] /\ tree' = [tree EXCEPT ![r][n] = content]
    BY <1>1, <1>3 DEF NewCommit
  <2> QED
    BY <2>1 DEF TypeInv, TypeOK
<1>5. \A q \in Repos \ {r} : IndexedSince(q, stored[q])' /\ (MirrorsStored(q) => MirrorsStored(q)')
  BY <1>2, <1>4 DEF UndisturbedInv, IndexedSince, MirrorsStored
<1>6. IndexedSince(r, stored[r])' /\ MirrorsStored(r)'
  <2>1. MirrorsStored(r)
    BY <1>2 DEF UndisturbedInv
  <2>2. ASSUME stored[r] # NoSha
        PROVE  tree'[r][stored[r]] = tree[r][stored[r]]
    <3>1. stored[r] \in Commits /\ stored[r] \in Nat /\ head[r] \in Nat /\ last[r] \in Nat
      BY <2>2, ShasAreNumbers DEF TypeInv, TypeOK, Shas
    <3>2. stored[r] <= head[r] /\ head[r] <= last[r]
      BY DEF WorkerInv, Behind
    <3> QED
      BY <1>3, <1>4, <3>1, <3>2
  <2> QED
    BY <1>2, <2>1, <2>2 DEF IndexedSince, MirrorsStored
<1>7. ASSUME NEW p \in Procs, NEW q \in Repos, w'[p][q].pc # "idle"
      PROVE  Undisturbed(q, w[p][q])'
  <2>1. q # r /\ w[p][q].pc # "idle"
    BY <1>2, <1>7
  <2>2. PICK x : x = w[p][q] /\ w'[p][q] = x
    BY <1>2
  <2>3. Undisturbed(q, x)
    BY <2>1, <2>2 DEF UndisturbedInv
  <2>4. Undisturbed(q, x)'
    BY <1>2, <1>4, <1>5, <2>1, <2>3 DEF Undisturbed, IndexedSince
  <2> QED
    BY <2>2, <2>4 DEF Undisturbed
<1> QED
  BY <1>2, <1>5, <1>6, <1>7 DEF UndisturbedInv

\* It is enough to look at the worker that moves and at its repository.
LEMMA UndisturbedActs ==
  ASSUME TypeInv, TypeInv', OneWorkerPerRepo', UndisturbedInv, UNCHANGED faults,
         NEW p \in Procs, NEW r \in Repos, NEW y \in Worker,
         w' = [w EXCEPT ![p][r] = y], y.pc # "idle",
         UNCHANGED gitVars,
         \A q \in Repos \ {r} : stored'[q] \in {stored[q], NoSha},
         \A m \in Modules \ ModulesOf(r) : /\ store'[m].models = store[m].models
                                           /\ store'[m].views = store[m].views,
         faults = 0 => IndexedSince(r, stored[r])' /\ Undisturbed(r, y)'
  PROVE  UndisturbedInv'
<1> SUFFICES ASSUME faults = 0 PROVE UndisturbedInv'
  BY DEF UndisturbedInv
<1>0. w \in [Procs -> [Repos -> Worker]]
  BY DEF TypeInv, TypeOK
<1>1. \A q \in Repos \ {r} : ModulesOf(q) \subseteq Modules \ ModulesOf(r)
  BY DEF ModulesOf
<1>2. ASSUME NEW q \in Repos \ {r}
      PROVE  /\ \A s : IndexedSince(q, s) => IndexedSince(q, s)'
             /\ MirrorsStored(q) => MirrorsStored(q)'
             /\ IndexedSince(q, stored[q])'
  BY <1>1 DEF IndexedSince, MirrorsStored, UndisturbedInv, gitVars
<1>3. w'[p][r] = y
  BY <1>0
<1>4. ASSUME NEW q \in Repos, \A z \in Procs : w'[z][q].pc = "idle"
      PROVE  MirrorsStored(q)'
  <2>1. q # r
    BY <1>3, <1>4
  <2>2. \A z \in Procs : w[z][q].pc = "idle"
    BY <1>0, <1>4, <2>1
  <2> QED
    BY <1>2, <2>1, <2>2 DEF UndisturbedInv
<1>5. ASSUME NEW z \in Procs, NEW q \in Repos, w'[z][q].pc # "idle"
      PROVE  Undisturbed(q, w[z][q])'
  <2>1. CASE z = p /\ q = r
    BY <1>3, <2>1 DEF Undisturbed
  <2>2. CASE q # r
    <3>1. PICK x : x = w[z][q] /\ w'[z][q] = x
      BY <1>0, <2>2
    <3>2. Undisturbed(q, x)
      BY <1>5, <3>1 DEF UndisturbedInv
    <3>3. Undisturbed(q, x)'
      BY <1>2, <2>2, <3>2 DEF Undisturbed, gitVars
    <3> QED
      BY <3>1, <3>3 DEF Undisturbed
  <2>3. CASE q = r /\ z # p
    BY <1>3, <1>5, <2>3 DEF OneWorkerPerRepo
  <2> QED
    BY <2>1, <2>2, <2>3
<1>6. \A q \in Repos : IndexedSince(q, stored[q])'
  BY <1>2
<1> QED
  BY <1>4, <1>5, <1>6 DEF UndisturbedInv

LEMMA UndisturbedInvSelect ==
  ASSUME StillOnly, TypeInv, TypeInv', OneWorkerPerRepo', UndisturbedInv,
         NEW p \in Procs, NEW r \in Repos,
         Skip(p, r) \/ Start(p, r) \/ Scan(p, r) \/ NothingChanged(p, r)
  PROVE  UndisturbedInv'
<1>0. /\ w \in [Procs -> [Repos -> Worker]] /\ w' \in [Procs -> [Repos -> Worker]]
      /\ stored \in [Repos -> Shas]
  BY DEF TypeInv, TypeOK
<1>1. /\ UNCHANGED <<gitVars, store, faults>>
      /\ \A q \in Repos \ {r} : stored'[q] \in {stored[q], NoSha}
  BY <1>0 DEF Skip, Start, Scan, NothingChanged, storeVars
<1>2. /\ \A s : IndexedSince(r, s) => IndexedSince(r, s)'
      /\ stored'[r] = stored[r] => /\ IndexedSince(r, stored[r]) => IndexedSince(r, stored[r])'
                                   /\ MirrorsStored(r) => MirrorsStored(r)'
  BY <1>1 DEF IndexedSince, MirrorsStored, gitVars
<1>3. PICK x \in Worker : x = w[p][r]
  BY <1>0
<1>4. PICK L \in SUBSET Modules : L = Live(r)
  BY DEF Live, ModulesOf
<1>5. CASE Skip(p, r)
  <2> DEFINE y == [IdleWorker EXCEPT !.pc = "status"]
  <2>1. w' = [w EXCEPT ![p][r] = y] /\ stored' = stored
    BY <1>5 DEF Skip
  <2>2. y \in Worker
    BY <1>0, <2>1
  <2>3. y.pc = "status" /\ y.cur = NoSha
    BY DEF IdleWorker
  <2> HIDE DEF y
\* The recorded commit is HEAD, and what it has in common with HEAD is indexed.
  <2>4. IndexedSince(r, stored[r]) => MirrorsStored(r)
    BY <1>5 DEF Skip, IndexedSince, MirrorsStored
  <2>5. faults = 0 => IndexedSince(r, stored[r])' /\ Undisturbed(r, y)'
    BY <1>2, <2>1, <2>3, <2>4 DEF UndisturbedInv, Undisturbed, Incremental
  <2> QED
    BY <1>1, <2>1, <2>2, <2>3, <2>5, UndisturbedActs
<1>6. CASE Start(p, r)
  <2>0. PICK cur \in ReadHead(r) : \E prev \in LastHead(p, r, cur) :
          w' = [w EXCEPT ![p][r] = [IdleWorker EXCEPT !.pc = "scan", !.cur = cur, !.prev = prev]]
    BY <1>6 DEF Start
  <2>1. PICK prev \in LastHead(p, r, cur) :
          w' = [w EXCEPT ![p][r] = [IdleWorker EXCEPT !.pc = "scan", !.cur = cur, !.prev = prev]]
    BY <2>0
  <2> DEFINE y == [IdleWorker EXCEPT !.pc = "scan", !.cur = cur, !.prev = prev]
  <2>2. w' = [w EXCEPT ![p][r] = y] /\ y \in Worker
    BY <1>0, <2>1
  <2>3. y.pc = "scan" /\ y.cur = cur /\ y.prev = prev
    BY DEF IdleWorker
  <2>4. stored' = stored /\ prev \in {stored[r], NoSha} /\ cur = head[r]
    <3>1. stored' = stored
      BY <1>6 DEF Start
    <3>2. prev \in {stored[r], NoSha}
      BY DEF LastHead, NoSha
    <3>3. cur = head[r]
      BY DEF ReadHead, StillOnly
    <3> QED
      BY <3>1, <3>2, <3>3
  <2> HIDE DEF y
  <2>5. faults = 0 => IndexedSince(r, stored[r])' /\ Undisturbed(r, y)'
    <3> SUFFICES ASSUME faults = 0 PROVE IndexedSince(r, stored[r])' /\ Undisturbed(r, y)'
      OBVIOUS
    <3>1. IndexedSince(r, stored[r])
      BY DEF UndisturbedInv
    <3>2. Incremental(y) => IndexedSince(r, y.prev)'
      BY <1>2, <2>3, <2>4, <3>1 DEF Incremental
    <3>3. Undisturbed(r, y)'
      BY <1>1, <2>3, <2>4, <3>2 DEF Undisturbed, gitVars
    <3> QED
      BY <1>2, <2>4, <3>1, <3>3
  <2> QED
    BY <1>1, <2>2, <2>3, <2>4, <2>5, UndisturbedActs
<1>7. ASSUME x.pc = "scan", faults = 0
      PROVE  Undisturbed(r, x) /\ IndexedSince(r, stored[r])
  BY <1>3, <1>7 DEF UndisturbedInv
<1>8. CASE Scan(p, r)
  <2>1. PICK sel \in IF Incremental(x) THEN Changed(r, x, L) ELSE {L} :
          w' = [w EXCEPT ![p][r] = [x EXCEPT !.pc = IF sel = {} THEN "gc" ELSE "parse",
                                             !.live = L, !.sel = sel, !.todo = sel]]
    BY <1>8, <1>3, <1>4 DEF Scan
  <2> DEFINE y == [x EXCEPT !.pc = IF sel = {} THEN "gc" ELSE "parse",
                            !.live = L, !.sel = sel, !.todo = sel]
  <2>2. w' = [w EXCEPT ![p][r] = y] /\ y \in Worker
    BY <1>0, <2>1
  <2>3. /\ y.pc = (IF sel = {} THEN "gc" ELSE "parse") /\ y.cur = x.cur /\ y.prev = x.prev
        /\ y.live = L /\ y.sel = sel
    BY DEF Worker
  <2>4. stored' = stored /\ x.pc = "scan"
    BY <1>8, <1>3 DEF Scan
  <2>5. Incremental(x) => \A m \in L \ sel : tree[r][x.prev][m] = tree[r][x.cur][m]
    BY DEF Changed, StillOnly
  <2> HIDE DEF y
  <2>6. y.pc \in {"parse", "gc"}
    BY <2>3
  <2>7. faults = 0 => IndexedSince(r, stored[r])' /\ Undisturbed(r, y)'
    <3> SUFFICES ASSUME faults = 0 PROVE IndexedSince(r, stored[r])' /\ Undisturbed(r, y)'
      OBVIOUS
    <3>1. Undisturbed(r, y)'
      BY <1>1, <1>2, <1>7, <2>3, <2>4, <2>5, <2>6 DEF Undisturbed, Incremental, gitVars
    <3> QED
      BY <1>2, <1>7, <2>4, <3>1
  <2> QED
    BY <1>1, <2>2, <2>4, <2>6, <2>7, UndisturbedActs
\* The new head_sha: what is there now is as it was at the old one.
<1>9. CASE NothingChanged(p, r)
  <2> DEFINE y == [x EXCEPT !.pc = "status", !.live = L]
  <2>1. w' = [w EXCEPT ![p][r] = y] /\ y \in Worker
    BY <1>0, <1>9, <1>3, <1>4 DEF NothingChanged
  <2>2. y.pc = "status" /\ y.cur = x.cur /\ y.prev = x.prev
    BY DEF Worker
  <2>3. stored' = [stored EXCEPT ![r] = x.cur] /\ x.pc = "scan" /\ Incremental(x)
    BY <1>9, <1>3 DEF NothingChanged
  <2>4. \A m \in L : tree[r][x.prev][m] = tree[r][x.cur][m]
    BY <1>9, <1>3, <1>4 DEF NothingChanged, Changed, StillOnly
  <2> HIDE DEF y
  <2>5. faults = 0 => IndexedSince(r, stored[r])' /\ Undisturbed(r, y)'
    <3> SUFFICES ASSUME faults = 0 PROVE IndexedSince(r, stored[r])' /\ Undisturbed(r, y)'
      OBVIOUS
    <3>1. /\ x.cur = head[r] /\ IndexedSince(r, x.prev) /\ x.prev # NoSha
      BY <1>7, <2>3 DEF Undisturbed, Incremental
    <3>2. \A m \in ModulesOf(r) : LET k == tree[r][head[r]][m] IN
            k # Absent => store[m].models = k /\ store[m].views = k
      BY <1>4, <2>4, <3>1 DEF Live, IndexedSince
    <3>3. stored'[r] = head[r]
      BY <1>0, <2>3, <3>1
    <3>4. IndexedSince(r, stored[r])' /\ MirrorsStored(r)'
      BY <1>1, <3>2, <3>3 DEF IndexedSince, MirrorsStored, gitVars
    <3>5. Undisturbed(r, y)'
      BY <1>2, <2>2, <3>1, <3>4 DEF Undisturbed, Incremental
    <3> QED
      BY <3>4, <3>5
  <2> QED
    BY <1>1, <2>1, <2>2, <2>5, UndisturbedActs
<1> QED
  BY <1>5, <1>6, <1>8, <1>9

\* The phases that write: what becomes of the worker, and what of the graph.
LEMMA WriteFields ==
  ASSUME TypeInv, TypeInv', NEW p \in Procs, NEW r \in Repos, NEW x \in Worker, x = w[p][r],
         \/ \E m \in Modules : Parse(p, r, m) \/ WriteModels(p, r, m) \/ WriteViews(p, r, m)
         \/ CollectStale(p, r)
  PROVE  \E y \in Worker : /\ w' = [w EXCEPT ![p][r] = y]
                           /\ y.pc \in {"parse", "models", "views", "gc", "advance"}
                           /\ y.cur = x.cur /\ y.prev = x.prev
                           /\ y.live = x.live /\ y.sel = x.sel
<1>0. w \in [Procs -> [Repos -> Worker]] /\ w' \in [Procs -> [Repos -> Worker]]
  BY DEF TypeInv, TypeOK
<1>1. x.pc \in {"parse", "models", "views", "gc"}
  BY DEF Parse, WriteModels, WriteViews, CollectStale
<1>2. PICK y : w' = [w EXCEPT ![p][r] = y] /\ y = w'[p][r]
  BY <1>0 DEF Parse, WriteModels, WriteViews, CollectStale
<1>3. y \in Worker
  BY <1>0, <1>2
<1>4. ASSUME NEW n \in Modules, NEW next \in {"models", "views", "gc"}, NEW z, z = PhaseStep(x, n, next)
      PROVE  /\ z \in Worker /\ z.pc \in {"parse", "models", "views", "gc"}
             /\ z.cur = x.cur /\ z.prev = x.prev /\ z.live = x.live /\ z.sel = x.sel
  <2>1. /\ z \in Worker /\ z.pc \in {x.pc, next} /\ z.cur = x.cur /\ z.prev = x.prev
        /\ z.live = x.live /\ z.sel = x.sel
    BY <1>4, PhaseStepKeeps
  <2>2. z.pc \in {"parse", "models", "views", "gc"}
    BY <1>1, <2>1
  <2> QED
    BY <2>1, <2>2
<1>5. CASE CollectStale(p, r)
  <2>1. w' = [w EXCEPT ![p][r] = [x EXCEPT !.pc = "advance"]]
    BY <1>0, <1>5 DEF CollectStale
  <2>2. y = [x EXCEPT !.pc = "advance"]
    BY <1>0, <1>2, <2>1
  <2>3. y.pc = "advance" /\ y.cur = x.cur /\ y.prev = x.prev /\ y.live = x.live /\ y.sel = x.sel
    BY <2>2 DEF Worker
  <2> QED
    BY <1>2, <1>3, <2>3
<1>6. ASSUME NEW n \in Modules, Parse(p, r, n)
      PROVE  /\ y.pc \in {"parse", "models", "views", "gc"}
             /\ y.cur = x.cur /\ y.prev = x.prev /\ y.live = x.live /\ y.sel = x.sel
  <2>1. PICK z : z = PhaseStep(x, n, "models")
    OBVIOUS
  <2>2. w' = [w EXCEPT ![p][r] = [z EXCEPT !.parsed[n] = tree[r][head[r]][n]]]
    BY <1>6, <2>1 DEF Parse
  <2>3. y = [z EXCEPT !.parsed[n] = tree[r][head[r]][n]]
    BY <1>0, <1>2, <2>2
  <2>4. /\ z \in Worker /\ z.pc \in {"parse", "models", "views", "gc"}
        /\ z.cur = x.cur /\ z.prev = x.prev /\ z.live = x.live /\ z.sel = x.sel
    BY <1>4, <2>1
  <2>5. y.pc = z.pc /\ y.cur = z.cur /\ y.prev = z.prev /\ y.live = z.live /\ y.sel = z.sel
    BY <2>3, <2>4 DEF Worker
  <2> QED
    BY <2>4, <2>5
<1>7. ASSUME NEW n \in Modules, WriteModels(p, r, n) \/ WriteViews(p, r, n)
      PROVE  /\ y.pc \in {"parse", "models", "views", "gc"}
             /\ y.cur = x.cur /\ y.prev = x.prev /\ y.live = x.live /\ y.sel = x.sel
  <2>1. PICK next \in {"views", "gc"} : w' = [w EXCEPT ![p][r] = PhaseStep(x, n, next)]
    BY <1>7 DEF WriteModels, WriteViews
  <2>2. y = PhaseStep(x, n, next)
    BY <1>0, <1>2, <2>1
  <2> QED
    BY <1>4, <2>2
<1> QED
  BY <1>2, <1>3, <1>5, <1>6, <1>7

LEMMA WriteStore ==
  ASSUME TypeInv, WorkerInv, NEW p \in Procs, NEW r \in Repos, NEW x \in Worker, x = w[p][r],
         \/ \E m \in Modules : Parse(p, r, m) \/ WriteModels(p, r, m) \/ WriteViews(p, r, m)
         \/ CollectStale(p, r),
         NEW m \in Modules
  PROVE  \/ store'[m].models = store[m].models /\ store'[m].views = store[m].views
         \/ /\ m \in x.sel /\ IsParsed(x, m)
            /\ store'[m].models \in {store[m].models, x.parsed[m]}
            /\ store'[m].views \in {store[m].views, x.parsed[m]}
         \/ m \in ModulesOf(r) \ x.live /\ Scanned(x)
<1>0. store \in [Modules -> Layers] /\ store[m] \in Layers
  BY DEF TypeInv, TypeOK
<1>1. CASE CollectStale(p, r)
  <2>1. m \notin Stale(p, r) => store'[m] = store[m]
    BY <1>1 DEF CollectStale
  <2>2. Stale(p, r) \subseteq ModulesOf(r) \ x.live /\ Scanned(x)
    BY <1>1 DEF Stale, CollectStale, Scanned
  <2> QED
    BY <2>1, <2>2
<1>2. ASSUME NEW n \in Modules, Parse(p, r, n)
      PROVE  store'[m].models = store[m].models /\ store'[m].views = store[m].views
  <2>1. PICK content : store' \in {store, [store EXCEPT ![n].emb = content]}
    BY <1>2 DEF Parse
  <2>2. store'[m] \in {store[m], [store[m] EXCEPT !.emb = content]}
    BY <1>0, <2>1
  <2> QED
    BY <1>0, <2>2 DEF Layers
<1>3. ASSUME NEW n \in Modules, WriteModels(p, r, n) \/ WriteViews(p, r, n)
      PROVE  \/ store'[m].models = store[m].models /\ store'[m].views = store[m].views
             \/ /\ m \in x.sel /\ IsParsed(x, m)
                /\ store'[m].models \in {store[m].models, x.parsed[m]}
                /\ store'[m].views \in {store[m].views, x.parsed[m]}
  <2>1. n \in x.sel /\ IsParsed(x, n)
    BY <1>3 DEF WriteModels, WriteViews, WorkerInv, Selection, IsParsed
  <2>2. \/ store' = [store EXCEPT ![n].models = x.parsed[n]]
        \/ store' = [store EXCEPT ![n].views = x.parsed[n]]
    BY <1>3 DEF WriteModels, WriteViews
  <2>3. CASE m # n
    BY <1>0, <2>2, <2>3
  <2>4. CASE m = n
    <3>1. \/ store'[m] = [store[m] EXCEPT !.models = x.parsed[m]]
          \/ store'[m] = [store[m] EXCEPT !.views = x.parsed[m]]
      BY <1>0, <2>2, <2>4
    <3>2. /\ store'[m].models \in {store[m].models, x.parsed[m]}
          /\ store'[m].views \in {store[m].views, x.parsed[m]}
      BY <1>0, <3>1 DEF Layers
    <3> QED
      BY <2>1, <2>4, <3>2
  <2> QED
    BY <2>3, <2>4
<1> QED
  BY <1>1, <1>2, <1>3

LEMMA UndisturbedInvWrite ==
  ASSUME TypeInv, TypeInv', OneWorkerPerRepo', WorkerInv, UndisturbedInv,
         NEW p \in Procs, NEW r \in Repos,
         \/ \E m \in Modules : Parse(p, r, m) \/ WriteModels(p, r, m) \/ WriteViews(p, r, m)
         \/ CollectStale(p, r)
  PROVE  UndisturbedInv'
<1>0. w \in [Procs -> [Repos -> Worker]] /\ ModulesOf(r) \subseteq Modules
  BY DEF TypeInv, TypeOK, ModulesOf
<1>1. PICK x \in Worker : x = w[p][r]
  BY <1>0
<1>2. x.pc \in {"parse", "models", "views", "gc"} /\ UNCHANGED <<gitVars, stored, faults>>
  BY <1>1 DEF Parse, WriteModels, WriteViews, CollectStale
<1>3. PICK y \in Worker : /\ w' = [w EXCEPT ![p][r] = y]
                          /\ y.pc \in {"parse", "models", "views", "gc", "advance"}
                          /\ y.cur = x.cur /\ y.prev = x.prev
                          /\ y.live = x.live /\ y.sel = x.sel
  BY <1>1, WriteFields
<1>4. Selection(p, r, x) /\ Progress(p, r, x)
  BY <1>1, <1>2 DEF WorkerInv
<1>5. \A m \in Modules \ ModulesOf(r) : /\ store'[m].models = store[m].models
                                        /\ store'[m].views = store[m].views
  <2>1. x.sel \subseteq ModulesOf(r)
    BY <1>4 DEF Selection
  <2> QED
    BY <1>1, <2>1, WriteStore
<1>6. ASSUME faults = 0
      PROVE  IndexedSince(r, stored[r])' /\ Undisturbed(r, y)'
  <2>1. Undisturbed(r, x) /\ IndexedSince(r, stored[r]) /\ x.cur = head[r]
    BY <1>1, <1>2, <1>6 DEF UndisturbedInv, Undisturbed
  <2>2. ASSUME NEW m \in ModulesOf(r), tree[r][head[r]][m] # Absent
        PROVE  /\ store'[m].models \in {store[m].models, tree[r][head[r]][m]}
               /\ store'[m].views \in {store[m].views, tree[r][head[r]][m]}
    <3>1. m \in x.sel /\ IsParsed(x, m) => x.parsed[m] = tree[r][head[r]][m]
      BY <1>4, <2>1, ReadNow DEF Progress
    <3>2. m \notin x.live /\ Scanned(x) => tree[r][head[r]][m] = Absent
      BY <1>4, <2>1, ReadNow DEF Selection
    <3> QED
      BY <1>0, <1>1, <2>2, <3>1, <3>2, WriteStore
  <2>3. \A s : IndexedSince(r, s) => IndexedSince(r, s)'
    BY <1>2, <2>2 DEF IndexedSince, gitVars
  <2>4. IndexedSince(r, stored[r])'
    <3>1. PICK s : s = stored[r] /\ stored'[r] = s
      BY <1>2
    <3> QED
      BY <2>1, <2>3, <3>1 DEF IndexedSince
  <2>5. Undisturbed(r, y)'
    BY <1>2, <1>3, <2>1, <2>3 DEF Undisturbed, Incremental, gitVars
  <2> QED
    BY <2>4, <2>5
<1> QED
  BY <1>2, <1>3, <1>5, <1>6, UndisturbedActs

LEMMA UndisturbedInvClose ==
  ASSUME TypeInv, TypeInv', OneWorkerPerRepo', WorkerInv, UndisturbedInv,
         NEW p \in Procs, NEW r \in Repos, Advance(p, r) \/ Propagate(p, r)
  PROVE  UndisturbedInv'
<1>0. /\ w \in [Procs -> [Repos -> Worker]] /\ w' \in [Procs -> [Repos -> Worker]]
      /\ stored \in [Repos -> Shas] /\ head[r] \in Commits
  BY DEF TypeInv, TypeOK
<1>1. PICK x \in Worker : x = w[p][r]
  BY <1>0
<1>2. x.pc \in {"advance", "propagate"} /\ UNCHANGED <<gitVars, store, faults>>
  BY <1>1 DEF Advance, Propagate, storeVars
<1>3. /\ faults = 0 => Undisturbed(r, x) /\ IndexedSince(r, stored[r])
      /\ Selection(p, r, x) /\ Progress(p, r, x)
  BY <1>1, <1>2 DEF WorkerInv, UndisturbedInv
<1>4. \A s : IndexedSince(r, s) => IndexedSince(r, s)'
  BY <1>2 DEF IndexedSince, gitVars
<1>5. ASSUME NEW pc \in {"propagate", "status"}, w' = [w EXCEPT ![p][r].pc = pc],
             \A q \in Repos \ {r} : stored'[q] \in {stored[q], NoSha},
             faults = 0 => /\ x.cur = head[r]
                           /\ IndexedSince(r, stored[r])'
                           /\ MirrorsStored(r)'
      PROVE  UndisturbedInv'
  <2> DEFINE y == [x EXCEPT !.pc = pc]
  <2>1. w' = [w EXCEPT ![p][r] = y]
    BY <1>0, <1>1, <1>5
  <2>2. y \in Worker
    BY <1>0, <2>1
  <2>3. y.pc = pc /\ y.cur = x.cur /\ y.prev = x.prev
    BY DEF Worker
  <2> HIDE DEF y
  <2>4. faults = 0 => Undisturbed(r, y)'
    BY <1>2, <1>3, <1>4, <1>5, <2>3 DEF Undisturbed, Incremental, gitVars
  <2> QED
    BY <1>2, <1>5, <2>1, <2>2, <2>3, <2>4, UndisturbedActs
\* What is there now was written by the run, or is as it was at the old head_sha.
<1>6. CASE Advance(p, r)
  <2>1. x.pc = "advance"
    BY <1>1, <1>6 DEF Advance
  <2>2. ASSUME faults = 0, NEW m \in ModulesOf(r), tree[r][head[r]][m] # Absent
        PROVE  /\ store[m].models = tree[r][head[r]][m]
               /\ store[m].views = tree[r][head[r]][m]
    <3>0. x.cur = head[r]
      BY <1>3, <2>1, <2>2 DEF Undisturbed
    <3>1. CASE m \in x.sel
      <4>1. /\ ReadSince(r, x, m, x.parsed[m])
            /\ store[m].models = x.parsed[m] /\ store[m].views = x.parsed[m]
        BY <1>3, <2>1, <3>1 DEF Progress, IsParsed, ModelsWritten, ViewsWritten
      <4> QED
        BY <3>0, <4>1, ReadNow
    <3>2. CASE m \in x.live \ x.sel
      <4>1. Incremental(x)
        BY <1>3, <2>1, <3>2 DEF Selection, Scanned
      <4>2. tree[r][x.prev][m] = tree[r][head[r]][m] /\ IndexedSince(r, x.prev) /\ x.prev # NoSha
        BY <1>3, <2>1, <2>2, <3>0, <3>2, <4>1 DEF Undisturbed, Incremental
      <4> QED
        BY <2>2, <4>2 DEF IndexedSince
    <3>3. CASE m \notin x.live
      <4>1. ReadSince(r, x, m, Absent)
        BY <1>3, <2>1, <3>3 DEF Selection, Scanned
      <4> QED
        BY <2>2, <3>0, <4>1, ReadNow
    <3> QED
      BY <3>1, <3>2, <3>3
  <2>3. ASSUME faults = 0
        PROVE  x.cur = head[r] /\ IndexedSince(r, stored[r])' /\ MirrorsStored(r)'
    <3>1. x.cur = head[r]
      BY <1>3, <2>1, <2>3 DEF Undisturbed
    <3>2. stored' = [stored EXCEPT ![r] = x.cur]
      BY <1>0, <1>1, <1>6, <3>1, ShasAreNumbers DEF Advance
    <3>3. stored'[r] = head[r]
      BY <1>0, <3>1, <3>2
    <3>4. \A m \in ModulesOf(r) : LET k == tree[r][head[r]][m] IN
            k # Absent => store[m].models = k /\ store[m].views = k
      BY <2>2, <2>3
    <3> QED
      BY <1>2, <3>1, <3>3, <3>4 DEF IndexedSince, MirrorsStored, gitVars
  <2>4. PICK pc \in {"propagate", "status"} : w' = [w EXCEPT ![p][r].pc = pc]
    BY <1>6 DEF Advance
  <2>5. \A q \in Repos \ {r} : stored'[q] \in {stored[q], NoSha}
    BY <1>0, <1>6 DEF Advance
  <2> QED
    BY <1>5, <2>3, <2>4, <2>5
<1>7. CASE Propagate(p, r)
  <2>1. w' = [w EXCEPT ![p][r].pc = "status"] /\ x.pc = "propagate"
    BY <1>1, <1>7 DEF Propagate
  <2>2. \A q \in Repos : stored'[q] \in {stored[q], NoSha}
    BY <1>0, <1>7 DEF Propagate
  <2>3. faults = 0 => x.cur = head[r] /\ IndexedSince(r, stored[r])' /\ MirrorsStored(r)'
    BY <1>2, <1>3, <2>1, <2>2 DEF Undisturbed, IndexedSince, MirrorsStored, gitVars
  <2> QED
    BY <1>5, <2>1, <2>2, <2>3
<1> QED
  BY <1>6, <1>7

LEMMA UndisturbedInvNext ==
  ASSUME StillOnly, TypeInv, TypeInv', OneWorkerPerRepo, OneWorkerPerRepo', WorkerInv,
         UndisturbedInv, [Next]_vars
  PROVE  UndisturbedInv'
<1>0. w \in [Procs -> [Repos -> Worker]] /\ IdleWorker.pc = "idle" /\ faults \in Nat
  BY ConstantsAssumption DEF TypeInv, TypeOK, IdleWorker
<1>1. CASE \E r \in Repos : Pull(r) \/ Amend(r) \/ Revert(r)
  BY <1>1, UndisturbedInvMove
<1>2. ASSUME UNCHANGED <<gitVars, stored, storeVars, w, faults>>
      PROVE  UndisturbedInv'
  BY <1>2 DEF UndisturbedInv, Undisturbed, IndexedSince, MirrorsStored, gitVars, storeVars
<1>3. ASSUME NEW p \in Procs,
             \/ \E prof \in Profiles, kind \in Kinds : Begin(p, prof, kind)
             \/ End(p) \/ LoseSession(p)
      PROVE  UndisturbedInv'
  BY <1>2, <1>3 DEF Begin, End, LoseSession
<1>4. ASSUME NEW p \in Procs, Crash(p) \/ \E r \in Repos : Fail(p, r)
      PROVE  UndisturbedInv'
  <2>1. faults' = faults + 1
    BY <1>4 DEF Crash, Fail
  <2> QED
    BY <1>0, <2>1 DEF UndisturbedInv
\* The worker ends, and the repository is the one it leaves mirrored.
<1>5. ASSUME NEW p \in Procs, NEW r \in Repos, Succeed(p, r)
      PROVE  UndisturbedInv'
  <2> SUFFICES ASSUME faults = 0 PROVE UndisturbedInv'
    BY <1>5 DEF UndisturbedInv, Succeed
  <2>1. /\ UNCHANGED <<gitVars, stored, store, faults>>
        /\ w' = [w EXCEPT ![p][r] = IdleWorker] /\ w[p][r].pc = "status"
    BY <1>5 DEF Succeed, Done, storeVars
  <2>2. MirrorsStored(r)
    BY <2>1 DEF UndisturbedInv, Undisturbed
  <2>3. \A q \in Procs, s \in Repos : w'[q][s].pc # "idle" => w'[q][s] = w[q][s]
    BY <1>0, <2>1
  <2>4. \A s \in Repos \ {r}, q \in Procs : w'[q][s] = w[q][s]
    BY <1>0, <2>1
  <2>5. \A s \in Repos : IndexedSince(s, stored[s])' /\ (MirrorsStored(s) => MirrorsStored(s)')
    BY <2>1 DEF UndisturbedInv, IndexedSince, MirrorsStored, gitVars
  <2>6. \A s \in Repos : (\A q \in Procs : w'[q][s].pc = "idle") => MirrorsStored(s)'
    BY <2>2, <2>4, <2>5 DEF UndisturbedInv
  <2>7. \A q \in Procs, s \in Repos : w'[q][s].pc # "idle" => Undisturbed(s, w[q][s])'
    BY <2>1, <2>3, <2>5 DEF UndisturbedInv, Undisturbed, IndexedSince, gitVars
  <2> QED
    BY <2>5, <2>6, <2>7 DEF UndisturbedInv
<1>6. ASSUME NEW p \in Procs, NEW r \in Repos, WorkerStep(p, r), ~Succeed(p, r)
      PROVE  UndisturbedInv'
  BY <1>6, UndisturbedInvSelect, UndisturbedInvWrite, UndisturbedInvClose DEF WorkerStep
<1>7. CASE UNCHANGED vars
  BY <1>2, <1>7 DEF vars, gitVars, storeVars
<1> QED
  BY <1>1, <1>3, <1>4, <1>5, <1>6, <1>7 DEF Next

\* Whatever happens to the checkouts between the runs (pulled, amended,
\* reverted), as long as none of the runs fails or is killed, the modules that
\* the next run will skip are in the graph with the content they have at HEAD.
\* A checkout that moves during a run, or a git rev-parse that fails, must be
\* excluded: both leave content in the graph that is not the recorded commit's.
THEOREM UndisturbedIsAlwaysIndexed == StillOnly => (Spec => []UndisturbedIsIndexed)
<1> SUFFICES ASSUME StillOnly PROVE Spec => []UndisturbedIsIndexed
  OBVIOUS
<1> DEFINE Inv == LockInv /\ WorkerInv /\ UndisturbedInv
<1>1. Init => Inv
  BY LockInvInit, WorkerInvInit, UndisturbedInvInit
<1>2. Inv /\ [Next]_vars => Inv'
  <2>1. LockInv /\ [Next]_vars => LockInv'
    BY TypeInvNext, RunsHoldTheirLockNext DEF LockInv, StillOnly
  <2>2. LockInv' => OneWorkerPerRepo' /\ TypeInv'
    BY LockInvExcludes, PTL DEF LockInv
  <2>3. LockInv => OneWorkerPerRepo /\ TypeInv
    BY LockInvExcludes DEF LockInv
  <2> QED
    BY <2>1, <2>2, <2>3, WorkerInvNext, UndisturbedInvNext DEF LockInv
<1>3. Inv => UndisturbedIsIndexed
  <2> SUFFICES ASSUME Inv, faults = 0, NEW m \in Modules, Unchanged(m)
               PROVE  /\ store[m].models = tree[RepoOf[m]][head[RepoOf[m]]][m]
                      /\ store[m].views = tree[RepoOf[m]][head[RepoOf[m]]][m]
    BY DEF UndisturbedIsIndexed, UnchangedIsIndexed
  <2>1. RepoOf[m] \in Repos /\ m \in ModulesOf(RepoOf[m])
    BY ConstantsAssumption DEF ModulesOf
  <2>2. IndexedSince(RepoOf[m], stored[RepoOf[m]])
    BY <2>1 DEF UndisturbedInv
  <2> QED
    BY <2>1, <2>2 DEF IndexedSince, Unchanged
<1> QED
  BY <1>1, <1>2, <1>3, PTL DEF Spec

-----------------------------------------------------------------------------
(* The modules that depend on a change                                     *)

\* One process, which indexes one repository after the other; checkouts that
\* are only pulled, no full reindex of what is indexed, git calls that answer;
\* and repositories that hold dependencies of others depend on no others: what
\* is reset to NULL is reindexed in full, and that propagates nothing.
Sequential == (\E p : Procs = {p})
                /\ (Parallel => \A r, q \in Repos : ProfileOf[r] = ProfileOf[q] => r = q)
NeverInFull == HeadMoves \subseteq {"pull"} /\ GitFaults = {} /\ \A kind \in Kinds : ~kind.full
OneDeep == \A e, f \in DependsOn :
  RepoOf[e[1]] # RepoOf[e[2]] /\ RepoOf[f[1]] = RepoOf[e[2]] => RepoOf[f[2]] = RepoOf[f[1]]

\* The repositories of a profile are taken in the order of their numbers.
InOrder ==
  ~Parallel => \A p \in Procs, r \in Repos : w[p][r].pc # "idle" =>
                 \A q \in run[p].todo : r <= q

LEMMA InOrderNext ==
  ASSUME TypeInv, TypeInv', InOrder, [Next]_vars
  PROVE  InOrder'
<1> SUFFICES ASSUME ~Parallel, NEW p \in Procs, NEW r \in Repos, w'[p][r].pc # "idle",
                    NEW q \in run'[p].todo
             PROVE  r <= q
  BY DEF InOrder
<1>0. /\ w \in [Procs -> [Repos -> Worker]] /\ run \in [Procs -> Run]
      /\ run'[p] # NoRun /\ IdleWorker.pc = "idle"
  BY DEF TypeInv, TypeOK, RunsAndWorkers, IdleWorker
<1>1. ASSUME w[p][r].pc # "idle" \/ MayStart(p, r), run'[p] = run[p]
      PROVE  r <= q
  BY <1>1 DEF InOrder, MayStart
<1>2. CASE w' = w /\ run' = run
  BY <1>1, <1>2
<1>3. ASSUME NEW z \in Procs, \E prof \in Profiles, kind \in Kinds : Begin(z, prof, kind)
      PROVE  r <= q
  <2>1. w' = w /\ run[z] = NoRun /\ \A y \in Procs \ {z} : run'[y] = run[y]
    BY <1>0, <1>3 DEF Begin
  <2>2. run[p] # NoRun
    BY <2>1 DEF TypeInv, RunsAndWorkers
  <2> QED
    BY <1>1, <2>1, <2>2
<1>4. ASSUME NEW z \in Procs, End(z) \/ Crash(z)
      PROVE  r <= q
  <2>1. z # p /\ run'[p] = run[p] /\ w'[p] = w[p]
    BY <1>0, <1>4 DEF End, Crash
  <2> QED
    BY <1>1, <2>1
<1>5. ASSUME NEW z \in Procs, NEW s \in Repos, Succeed(z, s) \/ Fail(z, s)
      PROVE  r <= q
  <2>1. w' = [w EXCEPT ![z][s] = IdleWorker] /\ run' = [run EXCEPT ![z].todo = @ \ {s}]
    BY <1>5 DEF Succeed, Fail, Done
  <2>2. w[p][r].pc # "idle"
    BY <1>0, <2>1
  <2>3. run[p] # NoRun
    BY <2>2 DEF TypeInv, RunsAndWorkers
  <2>4. q \in run[p].todo
    BY <1>0, <2>1, <2>3 DEF Run
  <2> QED
    BY <2>2, <2>4 DEF InOrder
<1>6. ASSUME NEW z \in Procs, NEW s \in Repos, WorkerStep(z, s), ~Succeed(z, s)
      PROVE  r <= q
  <2>1. run' = run
    BY <1>6 DEF WorkerStep, Skip, Start, Scan, NothingChanged, Parse, WriteModels, WriteViews,
                CollectStale, Advance, Propagate
  <2>2. MayStart(z, s) \/ w[z][s].pc # "idle"
    BY <1>6 DEF WorkerStep, Skip, Start, Scan, NothingChanged, Parse, WriteModels, WriteViews,
                CollectStale, Advance, Propagate
  <2>3. \A a \in Procs, b \in Repos : a # z \/ b # s => w'[a][b] = w[a][b]
    <3>0. ASSUME NEW v, w' = [w EXCEPT ![z][s] = v]
          PROVE  \A a \in Procs, b \in Repos : a # z \/ b # s => w'[a][b] = w[a][b]
      BY <1>0, <3>0
    <3>1. CASE Skip(z, s) \/ Start(z, s) \/ Scan(z, s) \/ NothingChanged(z, s)
      <4>1. \E v : w' = [w EXCEPT ![z][s] = v]
        BY <3>1, Zenon DEF Skip, Start, Scan, NothingChanged
      <4> QED
        BY <3>0, <4>1
    <3>2. CASE \E m \in Modules : Parse(z, s, m) \/ WriteModels(z, s, m) \/ WriteViews(z, s, m)
      BY <1>0, <3>2 DEF Parse, WriteModels, WriteViews
    <3>3. CASE CollectStale(z, s) \/ Advance(z, s) \/ Propagate(z, s)
      BY <1>0, <3>3 DEF CollectStale, Advance, Propagate
    <3> QED
      BY <1>6, <3>1, <3>2, <3>3 DEF WorkerStep
  <2>4. w[p][r].pc # "idle" \/ MayStart(p, r)
    BY <2>2, <2>3
  <2> QED
    BY <1>1, <2>1, <2>4
<1>7. CASE \E s \in Repos : Pull(s) \/ Amend(s) \/ Revert(s)
  BY <1>2, <1>7 DEF Pull, Amend, Revert, NewCommit
<1>8. ASSUME NEW z \in Procs, LoseSession(z)
      PROVE  r <= q
  BY <1>2, <1>8 DEF LoseSession
<1>9. CASE UNCHANGED vars
  BY <1>2, <1>9 DEF vars
<1> QED
  BY <1>3, <1>4, <1>5, <1>6, <1>7, <1>8, <1>9 DEF Next

\* There is one worker at a time.
LEMMA OneAtATime ==
  ASSUME Sequential, TypeInv, InOrder, NEW p \in Procs, NEW r \in Repos, NEW s \in Repos,
         w[p][r].pc # "idle", w[p][s].pc # "idle"
  PROVE  r = s
<1>1. run[p] \in Run /\ run[p] # NoRun /\ {r, s} \subseteq run[p].todo /\ run[p].todo \subseteq ReposOf(run[p].prof)
  BY DEF TypeInv, TypeOK, RunsAndWorkers
<1>2. CASE Parallel
  BY <1>1, <1>2 DEF ReposOf, Sequential
<1>3. CASE ~Parallel
  <2>1. r <= s /\ s <= r /\ r \in Nat /\ s \in Nat
    BY <1>1, <1>3, ConstantsAssumption DEF InOrder
  <2> QED
    BY <2>1
<1> QED
  BY <1>2, <1>3

Crosses(d, m) == <<d, m>> \in DependsOn /\ RepoOf[d] # RepoOf[m]

Busy == {"scan", "parse", "models", "views", "gc", "advance"}

\* An undisturbed run starts from what is stored, and HEAD could be read.
FromStored(r, x) == x.pc \in Busy => x.prev = stored[r] /\ x.cur # NoSha

\* The worker's change of m is still to be propagated.
Changing(x, m) ==
  x.pc \in {"models", "views", "gc", "advance", "propagate"} /\ Incremental(x) /\ m \in x.sel

\* Of a module d and a dependency m in another repository, with the workers xd
\* and xm of their repositories: d was resolved against m only when m was
\* there, which it is only once its repository is indexed; a worker that has
\* written d has resolved it against what m is; and a change of m is not lost.
Revisited(d, m, xd, xm) ==
  /\ basis[d][m] # Absent => stored[RepoOf[m]] # NoSha
  /\ stored[RepoOf[m]] = NoSha /\ store[m].models # Absent => xm.pc \in Busy
  /\ xm.pc \in {"propagate", "status"} => stored[RepoOf[m]] # NoSha
  /\ xd.pc \in Busy /\ d \in xd.sel /\ ModelsWritten(xd, d) => basis[d][m] = store[m].models
  /\ <<d, m>> \in edges /\ basis[d][m] # Absent =>
       \/ basis[d][m] = store[m].models
       \/ stored[RepoOf[d]] = NoSha
       \/ ~Unchanged(d)
       \/ Changing(xm, m)

RevisitInv ==
  faults = 0 =>
    /\ \A p \in Procs, r \in Repos : FromStored(r, w[p][r])
    /\ \A p \in Procs, d, m \in Modules :
         Crosses(d, m) => Revisited(d, m, w[p][RepoOf[d]], w[p][RepoOf[m]])

LEMMA RevisitInvInit == Init => InOrder /\ RevisitInv
<1> SUFFICES ASSUME Init PROVE InOrder /\ RevisitInv
  OBVIOUS
<1>1. InOrder
  BY DEF Init, InOrder, IdleWorker
<1>2. \A p \in Procs, r \in Repos : w[p][r] = IdleWorker /\ IdleWorker.pc = "idle"
  BY DEF Init, IdleWorker
<1>3. \A d, m \in Modules : basis[d][m] = Absent /\ store[m].models = Absent
  BY DEF Init
<1>4. RepoOf \in [Modules -> Repos]
  BY ConstantsAssumption
<1> QED
  BY <1>1, <1>2, <1>3, <1>4 DEF RevisitInv, Revisited, FromStored, Busy

\* A new commit restores no older content: what has changed since stays so.
LEMMA RevisitInvMove ==
  ASSUME PulledOnly, TypeInv, WorkerInv, PullInv, RevisitInv, NEW r \in Repos,
         Pull(r) \/ Amend(r) \/ Revert(r)
  PROVE  RevisitInv'
<1>1. UNCHANGED <<stored, store, edges, basis, w, faults>>
  BY DEF Pull, Amend, Revert, NewCommit
<1>2. ASSUME NEW d \in Modules, Unchanged(d)'
      PROVE  Unchanged(d)
  <2>1. RepoOf[d] \in Repos /\ d \in ModulesOf(RepoOf[d])
    BY ConstantsAssumption DEF ModulesOf
  <2>2. PICK q \in Repos : q = RepoOf[d]
    BY <2>1
  <2>3. PICK s \in Shas : s = stored[q] /\ stored'[q] = s
    BY <1>1 DEF TypeInv, TypeOK
  <2>4. s # NoSha /\ tree'[q][s][d] = tree'[q][head'[q]][d] /\ tree'[q][head'[q]][d] # Absent
    BY <1>2, <2>2, <2>3 DEF Unchanged
  <2>5. s <= head[q]
    BY <2>3 DEF WorkerInv, Behind
  <2>6. tree[q][s][d] = tree[q][head[q]][d] /\ tree'[q][head'[q]][d] = tree[q][head[q]][d]
    BY <2>1, <2>2, <2>4, <2>5, MoveAgrees
  <2> QED
    BY <2>2, <2>3, <2>4, <2>6 DEF Unchanged
<1>3. ASSUME NEW d \in Modules, NEW m \in Modules, NEW xd, NEW xm, Revisited(d, m, xd, xm)
      PROVE  Revisited(d, m, xd, xm)'
  BY <1>1, <1>2, <1>3 DEF Revisited
<1>4. ASSUME faults = 0, NEW p \in Procs, NEW d \in Modules, NEW m \in Modules, Crosses(d, m)
      PROVE  Revisited(d, m, w[p][RepoOf[d]], w[p][RepoOf[m]])'
  <2>1. PICK xd, xm : xd = w[p][RepoOf[d]] /\ xm = w[p][RepoOf[m]]
    OBVIOUS
  <2>2. Revisited(d, m, xd, xm)
    BY <1>4, <2>1 DEF RevisitInv
  <2>3. Revisited(d, m, xd, xm)'
    BY <1>3, <2>2
  <2> QED
    BY <1>1, <2>1, <2>3 DEF Revisited
<1>5. ASSUME faults = 0, NEW p \in Procs, NEW q \in Repos
      PROVE  FromStored(q, w[p][q])'
  BY <1>1, <1>5 DEF RevisitInv, FromStored
<1> QED
  BY <1>1, <1>4, <1>5 DEF RevisitInv

\* The only worker moves: what is between two repositories is looked at with
\* its repository as that of the dependent, as that of the dependency, and as
\* neither.
LEMMA RevisitActs ==
  ASSUME Sequential, TypeInv, TypeInv', InOrder, InOrder', RevisitInv, faults' = faults,
         NEW p \in Procs, NEW r \in Repos, NEW x \in Worker, x = w[p][r],
         NEW y \in Worker, w' = [w EXCEPT ![p][r] = y], x.pc # "idle" \/ y.pc # "idle",
         faults = 0 => FromStored(r, y)',
         \A d, m \in Modules, z \in Worker : faults = 0 /\ Crosses(d, m) /\ z.pc = "idle" =>
           /\ RepoOf[d] = r /\ Revisited(d, m, x, z) => Revisited(d, m, y, z)'
           /\ RepoOf[m] = r /\ Revisited(d, m, z, x) => Revisited(d, m, z, y)',
         \A d, m \in Modules, z, v \in Worker :
           faults = 0 /\ Crosses(d, m) /\ z.pc = "idle" /\ v.pc = "idle" =>
             (RepoOf[d] # r /\ RepoOf[m] # r /\ Revisited(d, m, z, v) => Revisited(d, m, z, v)')
  PROVE  RevisitInv'
<1> SUFFICES ASSUME faults = 0 PROVE RevisitInv'
  BY DEF RevisitInv
<1>1. /\ w \in [Procs -> [Repos -> Worker]] /\ w'[p][r] = y
      /\ \A s \in Repos \ {r} : w'[p][s] = w[p][s]
  BY DEF TypeInv, TypeOK
<1>2. \A q \in Procs : q = p
  BY DEF Sequential
<1>3. ASSUME NEW s \in Repos, s # r
      PROVE  w[p][s] \in Worker /\ w[p][s].pc = "idle"
  <2>1. CASE x.pc # "idle"
    BY <1>1, <1>3, <2>1, OneAtATime
  <2>2. CASE y.pc # "idle"
    <3> SUFFICES ASSUME w[p][s].pc # "idle" PROVE FALSE
      BY <1>1
    <3>1. w'[p][s].pc # "idle" /\ w'[p][r].pc # "idle"
      BY <1>1, <1>3, <2>2
    <3>2. run'[p] \in Run /\ run'[p] # NoRun /\ {r, s} \subseteq run'[p].todo
            /\ run'[p].todo \subseteq ReposOf(run'[p].prof)
      BY <3>1 DEF TypeInv, TypeOK, RunsAndWorkers
    <3>3. CASE Parallel
      BY <1>3, <3>2, <3>3 DEF ReposOf, Sequential
    <3>4. CASE ~Parallel
      <4>1. r <= s /\ s <= r /\ r \in Nat /\ s \in Nat
        BY <3>1, <3>2, <3>4, ConstantsAssumption DEF InOrder
      <4> QED
        BY <1>3, <4>1
    <3> QED
      BY <3>3, <3>4
  <2> QED
    BY <2>1, <2>2
<1>4. ASSUME NEW q \in Procs, NEW s \in Repos
      PROVE  FromStored(s, w[q][s])'
  <2>1. CASE s = r
    BY <1>1, <1>2, <2>1 DEF FromStored
  <2>2. CASE s # r
    BY <1>1, <1>2, <1>3, <2>2 DEF FromStored, Busy
  <2> QED
    BY <2>1, <2>2
<1>5. ASSUME NEW q \in Procs, NEW d \in Modules, NEW m \in Modules, Crosses(d, m)
      PROVE  Revisited(d, m, w[q][RepoOf[d]], w[q][RepoOf[m]])'
  <2>1. q = p /\ RepoOf[d] \in Repos /\ RepoOf[m] \in Repos /\ RepoOf[d] # RepoOf[m]
    BY <1>2, <1>5, ConstantsAssumption DEF Crosses
  <2>2. PICK xd, xm : xd = w[p][RepoOf[d]] /\ xm = w[p][RepoOf[m]]
    OBVIOUS
  <2>3. PICK yd, ym : yd = w'[p][RepoOf[d]] /\ ym = w'[p][RepoOf[m]]
    OBVIOUS
  <2>4. Revisited(d, m, xd, xm)
    BY <1>5, <2>2 DEF RevisitInv
  <2>5. CASE RepoOf[d] = r
    <3>1. xd = x /\ yd = y /\ ym = xm /\ xm \in Worker /\ xm.pc = "idle"
      BY <1>1, <1>3, <2>1, <2>2, <2>3, <2>5
    <3>2. Revisited(d, m, yd, ym)'
      BY <1>5, <2>4, <2>5, <3>1
    <3> QED
      BY <2>1, <2>3, <3>2 DEF Revisited
  <2>6. CASE RepoOf[m] = r
    <3>1. xm = x /\ ym = y /\ yd = xd /\ xd \in Worker /\ xd.pc = "idle"
      BY <1>1, <1>3, <2>1, <2>2, <2>3, <2>6
    <3>2. Revisited(d, m, yd, ym)'
      BY <1>5, <2>4, <2>6, <3>1
    <3> QED
      BY <2>1, <2>3, <3>2 DEF Revisited
  <2>7. CASE RepoOf[d] # r /\ RepoOf[m] # r
    <3>1. /\ yd = xd /\ xd \in Worker /\ xd.pc = "idle"
          /\ ym = xm /\ xm \in Worker /\ xm.pc = "idle"
      BY <1>1, <1>3, <2>1, <2>2, <2>3, <2>7
    <3>2. Revisited(d, m, yd, ym)'
      BY <1>5, <2>4, <2>7, <3>1
    <3> QED
      BY <2>1, <2>3, <3>2 DEF Revisited
  <2> QED
    BY <2>5, <2>6, <2>7
<1> QED
  BY <1>4, <1>5 DEF RevisitInv

\* A step that neither writes models nor moves head_sha.
LEMMA RevisitQuiet ==
  ASSUME Sequential, TypeInv, TypeInv', InOrder, InOrder', RevisitInv,
         UNCHANGED <<gitVars, stored, edges, basis, faults>>,
         \A m \in Modules : store'[m].models = store[m].models,
         NEW p \in Procs, NEW r \in Repos, NEW x \in Worker, x = w[p][r],
         NEW y \in Worker, w' = [w EXCEPT ![p][r] = y], x.pc # "idle" \/ y.pc # "idle",
         faults = 0 => FromStored(r, y)',
         \A d \in y.sel : y.pc \in Busy /\ ModelsWritten(y, d) =>
           x.pc \in Busy /\ d \in x.sel /\ ModelsWritten(x, d),
         x.pc \in Busy => y.pc \in Busy,
         y.pc \in {"propagate", "status"} => stored[r] # NoSha,
         \A m \in Modules : Changing(x, m) => Changing(y, m)
  PROVE  RevisitInv'
<1>1. \A d \in Modules : Unchanged(d)' <=> Unchanged(d)
  BY DEF Unchanged, gitVars
<1>2. ASSUME NEW d \in Modules, NEW m \in Modules, NEW z \in Worker, z.pc = "idle",
             RepoOf[d] = r, Revisited(d, m, x, z)
      PROVE  Revisited(d, m, y, z)'
  BY <1>1, <1>2 DEF Revisited
<1>3. ASSUME NEW d \in Modules, NEW m \in Modules, NEW z \in Worker, z.pc = "idle",
             RepoOf[m] = r, Revisited(d, m, z, x)
      PROVE  Revisited(d, m, z, y)'
  <2>1. /\ basis'[d][m] = basis[d][m] /\ store'[m].models = store[m].models
        /\ stored' = stored /\ edges' = edges
    OBVIOUS
  <2>2. basis[d][m] # Absent => stored[r] # NoSha
    BY <1>3 DEF Revisited
  <2>3. stored[r] = NoSha /\ store[m].models # Absent => y.pc \in Busy
    BY <1>3 DEF Revisited
  <2>4. <<d, m>> \in edges /\ basis[d][m] # Absent =>
          \/ basis[d][m] = store[m].models
          \/ stored[RepoOf[d]] = NoSha
          \/ ~Unchanged(d)
          \/ Changing(y, m)
    BY <1>3 DEF Revisited
  <2>5. z.pc \notin Busy
    BY <1>3 DEF Busy
  <2> QED
    BY <1>1, <1>3, <2>1, <2>2, <2>3, <2>4, <2>5 DEF Revisited
<1>4. ASSUME NEW d \in Modules, NEW m \in Modules, NEW z \in Worker, NEW v \in Worker,
             Revisited(d, m, z, v)
      PROVE  Revisited(d, m, z, v)'
  BY <1>1, <1>4 DEF Revisited
<1>5. \A d, m \in Modules, z \in Worker : faults = 0 /\ Crosses(d, m) /\ z.pc = "idle" =>
        /\ RepoOf[d] = r /\ Revisited(d, m, x, z) => Revisited(d, m, y, z)'
        /\ RepoOf[m] = r /\ Revisited(d, m, z, x) => Revisited(d, m, z, y)'
  BY <1>2, <1>3, Zenon
<1>6. \A d, m \in Modules, z, v \in Worker :
        faults = 0 /\ Crosses(d, m) /\ z.pc = "idle" /\ v.pc = "idle" =>
          (RepoOf[d] # r /\ RepoOf[m] # r /\ Revisited(d, m, z, v) => Revisited(d, m, z, v)')
  BY <1>4, Zenon
<1>7. faults' = faults
  OBVIOUS
<1> QED
  BY <1>5, <1>6, <1>7, RevisitActs, ZenonT(90)

LEMMA RevisitInvSelect ==
  ASSUME Sequential, NeverInFull, TypeInv, TypeInv', InOrder, InOrder', WorkerInv, PullInv, RevisitInv,
         NEW p \in Procs, NEW r \in Repos, Skip(p, r) \/ Start(p, r) \/ Scan(p, r)
  PROVE  RevisitInv'
<1>0. /\ w \in [Procs -> [Repos -> Worker]] /\ w' \in [Procs -> [Repos -> Worker]]
      /\ UNCHANGED <<gitVars, stored, store, edges, basis, faults>>
  BY DEF TypeInv, TypeOK, Skip, Start, Scan, storeVars
<1>1. PICK x \in Worker : x = w[p][r]
  BY <1>0
<1>2. CASE Skip(p, r)
  <2> DEFINE y == [IdleWorker EXCEPT !.pc = "status"]
  <2>1. w' = [w EXCEPT ![p][r] = y] /\ stored[r] # NoSha /\ x.pc = "idle"
    BY <1>1, <1>2 DEF Skip, MayStart
  <2>2. y \in Worker
    BY <1>0, <2>1
  <2>3. y.pc = "status"
    BY DEF IdleWorker
  <2> HIDE DEF y
  <2>4. FromStored(r, y)'
    BY <2>3 DEF FromStored, Busy
  <2> QED
    BY <1>0, <1>1, <2>1, <2>2, <2>3, <2>4, RevisitQuiet DEF Busy, Changing
\* HEAD descends from what is stored, so that is what the run continues.
<1>3. CASE Start(p, r)
  <2>0. PICK cur \in ReadHead(r) : \E prev \in LastHead(p, r, cur) :
          w' = [w EXCEPT ![p][r] = [IdleWorker EXCEPT !.pc = "scan", !.cur = cur, !.prev = prev]]
    BY <1>3 DEF Start
  <2>1. PICK prev \in LastHead(p, r, cur) :
          w' = [w EXCEPT ![p][r] = [IdleWorker EXCEPT !.pc = "scan", !.cur = cur, !.prev = prev]]
    BY <2>0
  <2> DEFINE y == [IdleWorker EXCEPT !.pc = "scan", !.cur = cur, !.prev = prev]
  <2>2. w' = [w EXCEPT ![p][r] = y] /\ y \in Worker
    BY <1>0, <2>1
  <2>3. y.pc = "scan" /\ y.cur = cur /\ y.prev = prev /\ y.sel = {}
    BY DEF IdleWorker
  <2>4. x.pc = "idle" /\ run[p] # NoRun /\ run[p] \in Run
    BY <1>1, <1>3 DEF Start, MayStart, TypeInv, TypeOK
  <2>5. cur = head[r] /\ cur \in Commits /\ cur # NoSha
    BY ShasAreNumbers DEF ReadHead, NeverInFull, TypeInv, TypeOK
  <2>6. ~run[p].kind.full
    BY <2>4 DEF NeverInFull, Run
  <2>7. stored[r] # NoSha => stored[r] \in anc[r][cur]
    <3>1. stored[r] \in Shas /\ stored[r] <= head[r] /\ head[r] = last[r] /\ head[r] \in Nat
      BY ShasAreNumbers DEF TypeInv, TypeOK, WorkerInv, Behind, PullInv, Linear
    <3>2. anc[r][head[r]] = 1..head[r]
      BY <2>5, <3>1 DEF PullInv, Linear
    <3>3. stored[r] # NoSha => stored[r] \in 1..head[r]
      BY <3>1, ConstantsAssumption DEF Shas, Commits
    <3> QED
      BY <2>5, <3>2, <3>3
  <2>8. prev = stored[r]
    BY <2>5, <2>6, <2>7 DEF LastHead, IsAncestor, NeverInFull
  <2> HIDE DEF y
  <2>9. FromStored(r, y)'
    BY <1>0, <2>3, <2>5, <2>8 DEF FromStored
  <2> QED
    BY <1>0, <1>1, <2>2, <2>3, <2>4, <2>9, RevisitQuiet DEF Busy, Changing
<1>4. CASE Scan(p, r)
  <2>0. PICK L, sel : w' = [w EXCEPT ![p][r] = [x EXCEPT !.pc = IF sel = {} THEN "gc" ELSE "parse",
                                                        !.live = L, !.sel = sel, !.todo = sel]]
    BY <1>1, <1>4 DEF Scan
  <2> DEFINE y == [x EXCEPT !.pc = IF sel = {} THEN "gc" ELSE "parse",
                            !.live = L, !.sel = sel, !.todo = sel]
  <2>1. w' = [w EXCEPT ![p][r] = y] /\ y \in Worker
    BY <1>0, <2>0
  <2>2. /\ y.pc = (IF sel = {} THEN "gc" ELSE "parse") /\ y.cur = x.cur /\ y.prev = x.prev
        /\ y.sel = sel
    BY DEF Worker
  <2>3. x.pc = "scan"
    BY <1>1, <1>4 DEF Scan
  <2> HIDE DEF y
  <2>4. y.pc \in Busy /\ y.pc \notin {"propagate", "status"} /\ x.pc \in Busy
    BY <2>2, <2>3 DEF Busy
  <2>5. \A d \in y.sel : ~ModelsWritten(y, d)
    BY <2>2 DEF ModelsWritten
  <2>6. faults = 0 => FromStored(r, y)'
    BY <1>0, <1>1, <2>2, <2>4 DEF RevisitInv, FromStored
  <2>7. \A m \in Modules : ~Changing(x, m)
    BY <2>3 DEF Changing
  <2>8. x.pc # "idle"
    BY <2>3
  <2> QED
    BY <1>0, <1>1, <2>1, <2>4, <2>5, <2>6, <2>7, <2>8, RevisitQuiet
<1> QED
  BY <1>2, <1>3, <1>4

\* The fields of a worker after a step of a phase, its tasks included.
LEMMA PhaseStepTodo ==
  ASSUME NEW x \in Worker, NEW m, NEW next \in {"models", "views", "gc"},
         NEW y, y = PhaseStep(x, m, next)
  PROVE  \/ x.todo = {m} /\ y.pc = next /\ y.todo = x.sel
         \/ y.pc = x.pc /\ y.todo = x.todo \ {m}
<1>1. \/ x.todo = {m} /\ y = [x EXCEPT !.pc = next, !.todo = x.sel]
      \/ y = [x EXCEPT !.todo = @ \ {m}]
  BY DEF PhaseStep
<1> QED
  BY <1>1 DEF Worker

LEMMA RevisitInvParse ==
  ASSUME Sequential, TypeInv, TypeInv', InOrder, InOrder', WorkerInv, RevisitInv,
         NEW p \in Procs, NEW r \in Repos, NEW n \in Modules, Parse(p, r, n) \/ WriteViews(p, r, n)
  PROVE  RevisitInv'
<1>0. /\ w \in [Procs -> [Repos -> Worker]] /\ w' \in [Procs -> [Repos -> Worker]]
      /\ UNCHANGED <<gitVars, stored, edges, basis, faults>>
  BY DEF TypeInv, TypeOK, Parse, WriteViews
<1>1. PICK x \in Worker : x = w[p][r]
  BY <1>0
<1>2. /\ n \in x.todo /\ x.pc \in {"parse", "views"}
  BY <1>1 DEF Parse, WriteViews
<1>3. \A m \in Modules : store'[m].models = store[m].models
  <2>1. store \in [Modules -> Layers]
    BY DEF TypeInv, TypeOK
  <2>2. PICK k : store' \in {store, [store EXCEPT ![n].emb = k], [store EXCEPT ![n].views = k]}
    BY DEF Parse, WriteViews
  <2> QED
    BY <2>1, <2>2 DEF Layers
\* The module is off the list, or the next phase begins with all of them.
<1>4. PICK y \in Worker :
        /\ w' = [w EXCEPT ![p][r] = y] /\ y.cur = x.cur /\ y.prev = x.prev /\ y.sel = x.sel
        /\ \/ x.pc = "parse" /\ y.pc = "parse"
           \/ x.pc = "parse" /\ y.pc = "models" /\ y.todo = x.sel
           \/ x.pc = "views" /\ y.pc \in {"views", "gc"}
  <2>1. CASE Parse(p, r, n)
    <3>1. PICK z : z = PhaseStep(x, n, "models")
      OBVIOUS
    <3>2. /\ z \in Worker /\ z.cur = x.cur /\ z.prev = x.prev /\ z.sel = x.sel
      BY <3>1, PhaseStepKeeps
    <3>3. (z.pc = "models" /\ z.todo = x.sel) \/ z.pc = x.pc
      BY <3>1, PhaseStepTodo
    <3>4. w' = [w EXCEPT ![p][r] = [z EXCEPT !.parsed[n] = tree[r][head[r]][n]]]
      BY <1>1, <2>1, <3>1 DEF Parse
    <3>5. PICK y : y = [z EXCEPT !.parsed[n] = tree[r][head[r]][n]]
      OBVIOUS
    <3>6. y \in Worker
      BY <1>0, <3>4, <3>5
    <3>7. y.pc = z.pc /\ y.todo = z.todo /\ y.cur = z.cur /\ y.prev = z.prev /\ y.sel = z.sel
      BY <3>2, <3>5 DEF Worker
    <3>8. x.pc = "parse"
      BY <1>1, <2>1 DEF Parse
    <3>9. \/ x.pc = "parse" /\ y.pc = "parse"
          \/ x.pc = "parse" /\ y.pc = "models" /\ y.todo = x.sel
      BY <3>3, <3>7, <3>8
    <3> QED
      BY <3>2, <3>4, <3>5, <3>6, <3>7, <3>9, Zenon
  <2>2. CASE WriteViews(p, r, n)
    <3>1. PICK y : y = PhaseStep(x, n, "gc")
      OBVIOUS
    <3>2. y \in Worker /\ y.cur = x.cur /\ y.prev = x.prev /\ y.sel = x.sel /\ y.pc \in {x.pc, "gc"}
      BY <3>1, PhaseStepKeeps
    <3>3. w' = [w EXCEPT ![p][r] = y] /\ x.pc = "views"
      BY <1>1, <2>2, <3>1 DEF WriteViews
    <3>4. x.pc = "views" /\ y.pc \in {"views", "gc"}
      BY <3>2, <3>3
    <3> QED
      BY <3>2, <3>3, <3>4, Zenon
  <2> QED
    BY <2>1, <2>2
<1>5. x.pc \in Busy /\ y.pc \in Busy /\ x.pc # "idle" /\ y.pc \notin {"propagate", "status"}
  BY <1>2, <1>4 DEF Busy
<1>6. faults = 0 => FromStored(r, y)'
  BY <1>0, <1>1, <1>4, <1>5 DEF RevisitInv, FromStored
<1>7. \A d \in y.sel : ModelsWritten(y, d) => ModelsWritten(x, d)
  BY <1>4 DEF ModelsWritten
<1>8. \A m \in Modules : Changing(x, m) => Changing(y, m)
  BY <1>4 DEF Changing, Incremental
<1> QED
  BY <1>0, <1>1, <1>3, <1>4, <1>5, <1>6, <1>7, <1>8, RevisitQuiet

\* The models of a module are written: it is resolved against what the graph
\* holds of its dependencies, and the change is to be propagated.
LEMMA RevisitInvModels ==
  ASSUME Sequential, TypeInv, TypeInv', InOrder, InOrder', WorkerInv, RevisitInv,
         NEW p \in Procs, NEW r \in Repos, NEW n \in Modules, WriteModels(p, r, n)
  PROVE  RevisitInv'
<1>0. /\ w \in [Procs -> [Repos -> Worker]] /\ w' \in [Procs -> [Repos -> Worker]]
      /\ store \in [Modules -> Layers] /\ basis \in [Modules -> [Modules -> Shas]]
      /\ UNCHANGED <<gitVars, stored, faults>>
  BY DEF TypeInv, TypeOK, WriteModels
<1>1. PICK x \in Worker : x = w[p][r]
  BY <1>0
<1>2. /\ x.pc = "models" /\ n \in x.todo /\ n \in x.sel /\ RepoOf[n] = r
      /\ w' = [w EXCEPT ![p][r] = PhaseStep(x, n, "views")]
      /\ store' = [store EXCEPT ![n].models = x.parsed[n]]
      /\ edges' = edges \cup {e \in DependsOn : e[1] = n}
  BY <1>1 DEF WriteModels, WorkerInv, Selection, ModulesOf
<1>3. PICK y : y = PhaseStep(x, n, "views")
  OBVIOUS
<1>4. /\ y \in Worker /\ y.cur = x.cur /\ y.prev = x.prev /\ y.sel = x.sel
      /\ \/ x.todo = {n} /\ y.pc = "views"
         \/ y.pc = "models" /\ y.todo = x.todo \ {n}
  BY <1>2, <1>3, PhaseStepKeeps, PhaseStepTodo
<1>5. /\ \A m \in Modules \ {n} : store'[m].models = store[m].models /\ basis'[m] = basis[m]
      /\ \A m \in Modules : Crosses(n, m) => basis'[n][m] = store[m].models
  <2>1. basis' = [basis EXCEPT ![n] = [d \in Modules |->
                   IF <<n, d>> \in DependsOn THEN store[d].models ELSE Absent]]
    BY DEF WriteModels
  <2>2. \A m \in Modules \ {n} : store'[m].models = store[m].models
    BY <1>0, <1>2
  <2>3. \A m \in Modules \ {n} : basis'[m] = basis[m]
    BY <1>0, <2>1
  <2>4. \A m \in Modules : <<n, m>> \in DependsOn => basis'[n][m] = store[m].models
    BY <1>0, <2>1
  <2> QED
    BY <2>2, <2>3, <2>4 DEF Crosses
<1>6. \A d \in Modules : Unchanged(d)' <=> Unchanged(d)
  BY <1>0 DEF Unchanged, gitVars
<1>7. y.pc \in Busy /\ x.pc \in Busy /\ x.pc # "idle"
  BY <1>2, <1>4 DEF Busy
<1>8. faults = 0 => FromStored(r, x)
  BY <1>1 DEF RevisitInv
<1>9. ASSUME NEW d \in Modules, NEW m \in Modules, NEW z \in Worker, Crosses(d, m), z.pc = "idle",
             RepoOf[d] = r, Revisited(d, m, x, z)
      PROVE  Revisited(d, m, y, z)'
  <2>0. m # n /\ store'[m].models = store[m].models /\ z.pc \notin Busy \cup {"propagate", "status"}
    BY <1>2, <1>5, <1>9 DEF Crosses, Busy
  <2>1. CASE d = n
    BY <1>0, <1>5, <1>9, <2>0, <2>1 DEF Revisited
  <2>2. CASE d # n
    <3>1. /\ basis'[d][m] = basis[d][m]
          /\ <<d, m>> \in edges' => <<d, m>> \in edges
      BY <1>2, <1>5, <2>2
    <3>2. d \in y.sel /\ ModelsWritten(y, d) => d \in x.sel /\ ModelsWritten(x, d)
      BY <1>2, <1>4, <2>2 DEF ModelsWritten, Worker
    <3>3. basis'[d][m] # Absent => stored'[RepoOf[m]] # NoSha
      BY <1>0, <1>9, <3>1 DEF Revisited
    <3>4. stored'[RepoOf[m]] = NoSha => store'[m].models = Absent
      BY <1>0, <1>9, <2>0 DEF Revisited
    <3>5. d \in y.sel /\ ModelsWritten(y, d) => basis'[d][m] = store'[m].models
      BY <1>7, <1>9, <2>0, <3>1, <3>2 DEF Revisited
    <3>6. <<d, m>> \in edges' /\ basis'[d][m] # Absent =>
            \/ basis'[d][m] = store'[m].models
            \/ stored'[RepoOf[d]] = NoSha
            \/ ~Unchanged(d)'
            \/ Changing(z, m)
      BY <1>0, <1>6, <1>9, <2>0, <3>1 DEF Revisited
    <3> QED
      BY <2>0, <3>3, <3>4, <3>5, <3>6 DEF Revisited
  <2> QED
    BY <2>1, <2>2
<1>10. ASSUME faults = 0, NEW d \in Modules, NEW m \in Modules, NEW z \in Worker,
              Crosses(d, m), z.pc = "idle", RepoOf[m] = r, Revisited(d, m, z, x)
       PROVE  Revisited(d, m, z, y)'
  <2>1. d # n /\ basis'[d][m] = basis[d][m] /\ (<<d, m>> \in edges' => <<d, m>> \in edges)
    BY <1>2, <1>5, <1>10 DEF Crosses
  <2>2. z.pc \notin Busy /\ y.pc \notin {"propagate", "status"}
    BY <1>4, <1>10 DEF Busy
  <2>3. basis[d][m] # Absent => stored[r] # NoSha
    BY <1>10 DEF Revisited
  <2>4. <<d, m>> \in edges /\ basis[d][m] # Absent =>
            \/ basis[d][m] = store'[m].models
            \/ stored[RepoOf[d]] = NoSha
            \/ ~Unchanged(d)
            \/ Changing(y, m)
    <3>1. CASE m = n
      <4>1. basis[d][m] # Absent => Incremental(y)
        BY <1>4, <1>7, <1>8, <1>10, <2>3 DEF FromStored, Incremental
      <4> QED
        BY <1>2, <1>4, <3>1, <4>1 DEF Changing
    <3>2. CASE m # n
      <4>1. store'[m].models = store[m].models /\ (Changing(x, m) => Changing(y, m))
        BY <1>4, <1>5, <3>2 DEF Changing, Incremental
      <4> QED
        BY <1>10, <4>1 DEF Revisited
    <3> QED
      BY <3>1, <3>2
  <2> QED
    BY <1>0, <1>6, <1>7, <1>10, <2>1, <2>2, <2>3, <2>4 DEF Revisited
<1>11. ASSUME NEW d \in Modules, NEW m \in Modules, NEW z \in Worker, NEW v \in Worker,
              RepoOf[d] # r, RepoOf[m] # r, Revisited(d, m, z, v)
       PROVE  Revisited(d, m, z, v)'
  <2>1. /\ basis'[d][m] = basis[d][m] /\ (<<d, m>> \in edges' => <<d, m>> \in edges)
        /\ store'[m].models = store[m].models
    BY <1>2, <1>5, <1>11
  <2> QED
    BY <1>0, <1>6, <1>11, <2>1 DEF Revisited
<1>12. faults = 0 => FromStored(r, y)'
  BY <1>0, <1>4, <1>7, <1>8 DEF FromStored
<1>13. w' = [w EXCEPT ![p][r] = y] /\ faults' = faults
  BY <1>0, <1>2, <1>3
<1>14. \A d, m \in Modules, z \in Worker : faults = 0 /\ Crosses(d, m) /\ z.pc = "idle" =>
         /\ RepoOf[d] = r /\ Revisited(d, m, x, z) => Revisited(d, m, y, z)'
         /\ RepoOf[m] = r /\ Revisited(d, m, z, x) => Revisited(d, m, z, y)'
  BY <1>9, <1>10, Zenon
<1>15. \A d, m \in Modules, z, v \in Worker :
         faults = 0 /\ Crosses(d, m) /\ z.pc = "idle" /\ v.pc = "idle" =>
           (RepoOf[d] # r /\ RepoOf[m] # r /\ Revisited(d, m, z, v) => Revisited(d, m, z, v)')
  BY <1>11, Zenon
<1>16. x = w[p][r] /\ y \in Worker /\ faults' = faults /\ w' = [w EXCEPT ![p][r] = y] /\ x.pc # "idle"
  BY <1>1, <1>4, <1>7, <1>13
<1> QED
  BY <1>12, <1>14, <1>15, <1>16, RevisitActs, ZenonT(60)

\* The relations of what is collected go with it.
LEMMA RevisitInvStale ==
  ASSUME Sequential, TypeInv, TypeInv', InOrder, InOrder', WorkerInv, RevisitInv,
         NEW p \in Procs, NEW r \in Repos, CollectStale(p, r)
  PROVE  RevisitInv'
<1>0. /\ w \in [Procs -> [Repos -> Worker]] /\ w' \in [Procs -> [Repos -> Worker]]
      /\ store \in [Modules -> Layers]
      /\ UNCHANGED <<gitVars, stored, basis, faults>>
  BY DEF TypeInv, TypeOK, CollectStale
<1>1. PICK x \in Worker : x = w[p][r]
  BY <1>0
<1>2. PICK y \in Worker : /\ w' = [w EXCEPT ![p][r] = y] /\ y.pc = "advance"
                          /\ y.cur = x.cur /\ y.prev = x.prev /\ y.sel = x.sel
  <2>1. w' = [w EXCEPT ![p][r] = [x EXCEPT !.pc = "advance"]]
    BY <1>0, <1>1 DEF CollectStale
  <2>2. PICK y : y = [x EXCEPT !.pc = "advance"]
    OBVIOUS
  <2>3. y \in Worker
    BY <1>0, <2>1, <2>2
  <2>4. y.pc = "advance" /\ y.cur = x.cur /\ y.prev = x.prev /\ y.sel = x.sel
    BY <2>2 DEF Worker
  <2> QED
    BY <2>1, <2>2, <2>3, <2>4, Zenon
<1>3. x.pc = "gc" /\ Stale(p, r) \subseteq ModulesOf(r)
  BY <1>1 DEF CollectStale, Stale
<1>4. /\ \A m \in Modules \ Stale(p, r) : store'[m].models = store[m].models
      /\ \A m \in Stale(p, r) : store'[m].models = Absent
      /\ \A e \in edges' : e \in edges /\ e[2] \notin Stale(p, r)
  <2>1. \A m \in Modules : store'[m] = IF m \in Stale(p, r) THEN [store[m] EXCEPT !.models = Absent]
                                                          ELSE store[m]
    BY DEF CollectStale
  <2>2. \A m \in Stale(p, r) : m \in Modules /\ store'[m] = [store[m] EXCEPT !.models = Absent]
    BY <1>3, <2>1 DEF ModulesOf
  <2>3. \A m \in Stale(p, r) : store'[m].models = Absent
    BY <1>0, <2>2 DEF Layers
  <2>4. \A e \in edges' : e \in edges /\ e[2] \notin Stale(p, r)
    BY DEF CollectStale
  <2> QED
    BY <2>1, <2>3, <2>4
<1>5. \A d \in Modules : Unchanged(d)' <=> Unchanged(d)
  BY <1>0 DEF Unchanged, gitVars
<1>6. y.pc \in Busy /\ x.pc \in Busy /\ x.pc # "idle" /\ y.pc \notin {"propagate", "status"}
  BY <1>2, <1>3 DEF Busy
<1>7. faults = 0 => FromStored(r, y)'
  BY <1>0, <1>1, <1>2, <1>6 DEF RevisitInv, FromStored
<1>8. \A m \in Modules : RepoOf[m] # r => m \notin Stale(p, r)
  BY <1>3 DEF ModulesOf
<1>9. ASSUME NEW d \in Modules, NEW m \in Modules, NEW z \in Worker, Crosses(d, m),
             RepoOf[d] = r, Revisited(d, m, x, z)
      PROVE  Revisited(d, m, y, z)'
  <2>1. store'[m].models = store[m].models
    BY <1>4, <1>8, <1>9 DEF Crosses
  <2>2. ModelsWritten(x, d) /\ (<<d, m>> \in edges' => <<d, m>> \in edges)
    BY <1>3, <1>4 DEF ModelsWritten
  <2> QED
    BY <1>0, <1>2, <1>5, <1>6, <1>9, <2>1, <2>2 DEF Revisited
<1>10. ASSUME NEW d \in Modules, NEW m \in Modules, NEW z \in Worker, z.pc = "idle",
              RepoOf[m] = r, Revisited(d, m, z, x)
       PROVE  Revisited(d, m, z, y)'
  <2>1. z.pc \notin Busy /\ (Changing(x, m) => Changing(y, m))
    BY <1>2, <1>10 DEF Busy, Changing, Incremental
  <2>2. CASE m \in Stale(p, r)
    <3>1. <<d, m>> \notin edges'
      BY <1>4, <2>2
    <3> QED
      BY <1>0, <1>6, <1>10, <2>1, <3>1 DEF Revisited
  <2>3. CASE m \notin Stale(p, r)
    <3>1. store'[m].models = store[m].models /\ (<<d, m>> \in edges' => <<d, m>> \in edges)
      BY <1>4, <2>3
    <3> QED
      BY <1>0, <1>5, <1>6, <1>10, <2>1, <3>1 DEF Revisited
  <2> QED
    BY <2>2, <2>3
<1>11. ASSUME NEW d \in Modules, NEW m \in Modules, NEW z \in Worker, NEW v \in Worker,
              RepoOf[m] # r, Revisited(d, m, z, v)
       PROVE  Revisited(d, m, z, v)'
  <2>1. store'[m].models = store[m].models /\ (<<d, m>> \in edges' => <<d, m>> \in edges)
    BY <1>4, <1>8, <1>11
  <2> QED
    BY <1>0, <1>5, <1>11, <2>1 DEF Revisited
<1>12. \A d, m \in Modules, z \in Worker : faults = 0 /\ Crosses(d, m) /\ z.pc = "idle" =>
         /\ RepoOf[d] = r /\ Revisited(d, m, x, z) => Revisited(d, m, y, z)'
         /\ RepoOf[m] = r /\ Revisited(d, m, z, x) => Revisited(d, m, z, y)'
  BY <1>9, <1>10, Zenon
<1>13. \A d, m \in Modules, z, v \in Worker :
         faults = 0 /\ Crosses(d, m) /\ z.pc = "idle" /\ v.pc = "idle" =>
           (RepoOf[d] # r /\ RepoOf[m] # r /\ Revisited(d, m, z, v) => Revisited(d, m, z, v)')
  BY <1>11, Zenon
<1>14. x = w[p][r] /\ faults' = faults /\ w' = [w EXCEPT ![p][r] = y] /\ x.pc # "idle"
  BY <1>0, <1>1, <1>2, <1>6
<1> QED
  BY <1>7, <1>12, <1>13, <1>14, RevisitActs, ZenonT(60)

\* The new head_sha: what is as before at HEAD was written by this run, or was as
\* before at the old head_sha.
LEMMA RevisitInvRecord ==
  ASSUME Sequential, NeverInFull, TypeInv, TypeInv', InOrder, InOrder', WorkerInv, PullInv, RevisitInv,
         NEW p \in Procs, NEW r \in Repos, NothingChanged(p, r) \/ Advance(p, r)
  PROVE  RevisitInv'
<1>0. /\ w \in [Procs -> [Repos -> Worker]] /\ w' \in [Procs -> [Repos -> Worker]]
      /\ stored \in [Repos -> Shas] /\ head[r] \in Commits
      /\ UNCHANGED <<gitVars, store, edges, basis, faults>>
  BY DEF TypeInv, TypeOK, NothingChanged, Advance, storeVars
<1>1. PICK x \in Worker : x = w[p][r]
  BY <1>0
<1>2. PICK y \in Worker :
        /\ w' = [w EXCEPT ![p][r] = y] /\ y.pc \in {"propagate", "status"}
        /\ y.cur = x.cur /\ y.prev = x.prev /\ y.sel = x.sel
        /\ x.pc = "advance" /\ Incremental(x) => y.pc = "propagate"
  <2>1. ASSUME NEW pc \in {"propagate", "status"}, NEW y, w' = [w EXCEPT ![p][r] = y],
               y.pc = pc, y.cur = x.cur, y.prev = x.prev, y.sel = x.sel,
               x.pc = "advance" /\ Incremental(x) => pc = "propagate"
        PROVE  \E z \in Worker :
                 /\ w' = [w EXCEPT ![p][r] = z] /\ z.pc \in {"propagate", "status"}
                 /\ z.cur = x.cur /\ z.prev = x.prev /\ z.sel = x.sel
                 /\ x.pc = "advance" /\ Incremental(x) => z.pc = "propagate"
    <3>1. y \in Worker
      BY <1>0, <2>1
    <3> QED
      BY <2>1, <3>1
  <2>2. CASE NothingChanged(p, r)
    <3>1. PICK y : y = [x EXCEPT !.pc = "status", !.live = Live(r)]
      OBVIOUS
    <3>2. w' = [w EXCEPT ![p][r] = y] /\ x.pc = "scan"
      BY <1>1, <2>2, <3>1 DEF NothingChanged
    <3>3. y.pc = "status" /\ y.cur = x.cur /\ y.prev = x.prev /\ y.sel = x.sel
      BY <3>1 DEF Worker
    <3> QED
      BY <2>1, <3>2, <3>3
  <2>3. CASE Advance(p, r)
    <3>1. PICK pc : pc = IF Incremental(x) THEN "propagate" ELSE "status"
      OBVIOUS
    <3>2. PICK y : y = [x EXCEPT !.pc = pc]
      OBVIOUS
    <3>3. w' = [w EXCEPT ![p][r] = y]
      BY <1>0, <1>1, <2>3, <3>1, <3>2 DEF Advance
    <3>4. y.pc = pc /\ y.cur = x.cur /\ y.prev = x.prev /\ y.sel = x.sel
      BY <3>2 DEF Worker
    <3> QED
      BY <2>1, <3>1, <3>3, <3>4
  <2> QED
    BY <2>2, <2>3
<1>3. x.pc \in Busy /\ x.pc \in {"scan", "advance"} /\ y.pc \notin Busy /\ x.pc # "idle"
  BY <1>1, <1>2 DEF NothingChanged, Advance, Busy
<1> SUFFICES ASSUME faults = 0 PROVE RevisitInv'
  BY <1>0 DEF RevisitInv
<1>4. /\ x.cur # NoSha /\ x.cur \in Commits /\ x.prev = stored[r]
      /\ stored'[r] = x.cur /\ \A s \in Repos \ {r} : stored'[s] = stored[s]
  <2>1. x.cur # NoSha /\ x.prev = stored[r]
    BY <1>1, <1>3 DEF RevisitInv, FromStored
  <2>2. stored' = [stored EXCEPT ![r] = x.cur]
    BY <1>1, <2>1 DEF NothingChanged, Advance
  <2> QED
    BY <1>0, <2>1, <2>2 DEF Worker, Shas
<1>5. ASSUME NEW d \in ModulesOf(r), Unchanged(d)'
      PROVE  Unchanged(d) \/ (x.pc = "advance" /\ d \in x.sel)
  <2>0. d \in Modules /\ RepoOf[d] = r
    BY DEF ModulesOf
  <2>1. tree[r][x.cur][d] = tree[r][head[r]][d] /\ tree[r][head[r]][d] # Absent
    BY <1>0, <1>4, <1>5, <2>0 DEF Unchanged, gitVars
  <2>2. ASSUME Incremental(x), tree[r][x.prev][d] = tree[r][x.cur][d]
        PROVE  Unchanged(d)
    BY <1>4, <2>0, <2>1, <2>2 DEF Unchanged, Incremental
  <2>3. CASE NothingChanged(p, r)
    <3>1. Incremental(x) /\ {m \in Live(r) : tree[r][x.prev][m] # tree[r][x.cur][m]} = {}
      BY <1>1, <2>3 DEF NothingChanged, Changed, NeverInFull
    <3>2. d \in Live(r)
      BY <2>1 DEF Live
    <3>3. tree[r][x.prev][d] = tree[r][x.cur][d]
      BY <3>1, <3>2
    <3>4. Unchanged(d)
      BY <2>2, <3>1, <3>3
    <3> QED
      BY <3>4
  <2>4. CASE Advance(p, r)
    <3>0. /\ x.pc = "advance" /\ Selection(p, r, x) /\ Continues(r, x) /\ Linear(r)
          /\ x.cur <= head[r]
      BY <1>1, <2>4 DEF Advance, WorkerInv, PullInv, Selection
    <3>1. CASE d \in x.live \ x.sel
      <4>1. Incremental(x)
        BY <3>0, <3>1 DEF Selection, Scanned
      <4>2. tree[r][x.prev][d] = tree[r][x.cur][d]
        BY <3>0, <3>1, <4>1 DEF Continues
      <4>3. Unchanged(d)
        BY <2>2, <4>1, <4>2
      <4> QED
        BY <4>3
    <3>2. CASE d \notin x.live
      <4>1. ReadSince(r, x, d, Absent)
        BY <3>0, <3>2 DEF Selection, Scanned
      <4>2. PICK h \in Commits : x.cur <= h /\ h <= head[r] /\ tree[r][h][d] = Absent
        BY <4>1 DEF ReadSince
      <4>3. tree[r][h][d] = tree[r][head[r]][d]
        BY <1>4, <2>0, <2>1, <3>0, <4>2, Between
      <4> QED
        BY <2>1, <4>2, <4>3
    <3> QED
      BY <3>0, <3>1, <3>2
  <2> QED
    BY <2>3, <2>4
<1>6. ASSUME NEW d \in Modules, NEW m \in Modules, NEW z \in Worker, Crosses(d, m), z.pc = "idle",
             RepoOf[d] = r, Revisited(d, m, x, z)
      PROVE  Revisited(d, m, y, z)'
  <2>1. /\ RepoOf[m] \in Repos \ {r} /\ stored'[RepoOf[m]] = stored[RepoOf[m]]
        /\ basis'[d][m] = basis[d][m] /\ store'[m] = store[m] /\ edges' = edges
        /\ d \in ModulesOf(r)
    BY <1>0, <1>4, <1>6, ConstantsAssumption DEF Crosses, ModulesOf
  <2>2. z.pc \notin Busy /\ ~Changing(z, m)
    BY <1>6 DEF Busy, Changing
  <2>3. x.pc = "advance" /\ d \in x.sel => basis[d][m] = store[m].models
    BY <1>3, <1>6 DEF Revisited, ModelsWritten
  <2>4. Unchanged(d) => stored[r] # NoSha
    BY <1>6 DEF Unchanged
  <2>5. <<d, m>> \in edges' /\ basis'[d][m] # Absent =>
          basis'[d][m] = store'[m].models \/ ~Unchanged(d)'
    BY <1>5, <1>6, <2>1, <2>2, <2>3, <2>4 DEF Revisited
  <2> QED
    BY <1>3, <1>6, <2>1, <2>2, <2>5 DEF Revisited
<1>7. ASSUME NEW d \in Modules, NEW m \in Modules, NEW z \in Worker, Crosses(d, m), z.pc = "idle",
             RepoOf[m] = r, Revisited(d, m, z, x)
      PROVE  Revisited(d, m, z, y)'
  <2>1. /\ RepoOf[d] \in Repos \ {r} /\ stored'[RepoOf[d]] = stored[RepoOf[d]]
        /\ basis'[d][m] = basis[d][m] /\ store'[m] = store[m] /\ edges' = edges
    BY <1>0, <1>4, <1>7, ConstantsAssumption DEF Crosses
  <2>2. Unchanged(d)' <=> Unchanged(d)
    BY <1>0, <2>1 DEF Unchanged, gitVars
  <2>3. Changing(x, m) => Changing(y, m)
    BY <1>2, <1>3 DEF Changing, Incremental
  <2>4. z.pc \notin Busy /\ stored'[r] # NoSha
    BY <1>4, <1>7 DEF Busy
  <2> QED
    BY <1>7, <2>1, <2>2, <2>3, <2>4 DEF Revisited
<1>8. ASSUME NEW d \in Modules, NEW m \in Modules, NEW z \in Worker, NEW v \in Worker,
             RepoOf[d] # r, RepoOf[m] # r, Revisited(d, m, z, v)
      PROVE  Revisited(d, m, z, v)'
  <2>1. /\ stored'[RepoOf[d]] = stored[RepoOf[d]] /\ stored'[RepoOf[m]] = stored[RepoOf[m]]
    BY <1>4, <1>8, ConstantsAssumption
  <2>2. Unchanged(d)' <=> Unchanged(d)
    BY <1>0, <2>1 DEF Unchanged, gitVars
  <2> QED
    BY <1>0, <1>8, <2>1, <2>2 DEF Revisited
<1>9. FromStored(r, y)'
  BY <1>3 DEF FromStored
<1>10. \A d, m \in Modules, z \in Worker : faults = 0 /\ Crosses(d, m) /\ z.pc = "idle" =>
         /\ RepoOf[d] = r /\ Revisited(d, m, x, z) => Revisited(d, m, y, z)'
         /\ RepoOf[m] = r /\ Revisited(d, m, z, x) => Revisited(d, m, z, y)'
  BY <1>6, <1>7, Zenon
<1>11. \A d, m \in Modules, z, v \in Worker :
         faults = 0 /\ Crosses(d, m) /\ z.pc = "idle" /\ v.pc = "idle" =>
           (RepoOf[d] # r /\ RepoOf[m] # r /\ Revisited(d, m, z, v) => Revisited(d, m, z, v)')
  BY <1>8, Zenon
<1>12. faults' = faults /\ w' = [w EXCEPT ![p][r] = y]
  BY <1>0, <1>2
<1> QED
  BY <1>1, <1>3, <1>9, <1>10, <1>11, <1>12, RevisitActs, ZenonT(90)

\* The reset reaches the dependents of the change, and takes no repository that
\* others depend on.
LEMMA RevisitInvPropagate ==
  ASSUME Sequential, OneDeep, TypeInv, TypeInv', InOrder, InOrder', WorkerInv, RevisitInv,
         NEW p \in Procs, NEW r \in Repos, Propagate(p, r)
  PROVE  RevisitInv'
<1>0. /\ w \in [Procs -> [Repos -> Worker]] /\ w' \in [Procs -> [Repos -> Worker]]
      /\ edges \subseteq DependsOn
      /\ UNCHANGED <<gitVars, store, edges, basis, faults>>
  BY DEF TypeInv, TypeOK, Propagate, storeVars
<1>1. PICK x \in Worker : x = w[p][r]
  BY <1>0
<1>2. PICK y \in Worker : w' = [w EXCEPT ![p][r] = y] /\ y.pc = "status"
  <2>1. w' = [w EXCEPT ![p][r] = [x EXCEPT !.pc = "status"]]
    BY <1>0, <1>1 DEF Propagate
  <2>2. PICK y : y = [x EXCEPT !.pc = "status"]
    OBVIOUS
  <2>3. y \in Worker
    BY <1>0, <2>1, <2>2
  <2>4. y.pc = "status"
    BY <2>2 DEF Worker
  <2> QED
    BY <2>1, <2>2, <2>3, <2>4
<1>3. /\ x.pc = "propagate" /\ x.sel \subseteq ModulesOf(r)
      /\ x.pc # "idle" /\ x.pc \notin Busy /\ y.pc \notin Busy
  BY <1>1, <1>2 DEF Propagate, WorkerInv, Selection, Busy
<1>4. /\ \A q \in DependentRepos(r, x.sel) : q \in Repos => stored'[q] = NoSha
      /\ \A q \in Repos \ DependentRepos(r, x.sel) : stored'[q] = stored[q]
  BY <1>1 DEF Propagate
<1>5. r \notin DependentRepos(r, x.sel)
  BY DEF DependentRepos
<1>6. ASSUME NEW d \in Modules, NEW m \in Modules, Crosses(d, m)
      PROVE  RepoOf[m] \notin DependentRepos(r, x.sel)
  <2> SUFFICES ASSUME RepoOf[m] \in DependentRepos(r, x.sel) PROVE FALSE
    OBVIOUS
  <2>1. PICK f \in edges : f[2] \in x.sel /\ RepoOf[f[1]] = RepoOf[m] /\ RepoOf[m] # r
    BY DEF DependentRepos
  <2>2. f \in DependsOn /\ RepoOf[f[2]] = r
    BY <1>0, <1>3, <2>1 DEF ModulesOf
  <2>3. PICK e \in DependsOn : e[1] = d /\ e[2] = m
    BY <1>6 DEF Crosses
  <2>4. RepoOf[e[1]] # RepoOf[e[2]] /\ RepoOf[f[1]] = RepoOf[e[2]]
    BY <1>6, <2>1, <2>3 DEF Crosses
  <2>5. RepoOf[f[2]] = RepoOf[f[1]]
    BY <2>2, <2>3, <2>4 DEF OneDeep
  <2> QED
    BY <2>1, <2>2, <2>5
<1>7. ASSUME NEW d \in Modules, NEW m \in Modules, m \in x.sel, <<d, m>> \in edges, RepoOf[d] # r
      PROVE  RepoOf[d] \in DependentRepos(r, x.sel)
  <2>1. d \notin x.sel
    BY <1>3, <1>7 DEF ModulesOf
  <2>2. PICK e \in edges : e[1] = d /\ e[2] = m
    BY <1>7
  <2>3. e \in {f \in edges : f[2] \in x.sel /\ f[1] \notin x.sel}
    BY <1>7, <2>1, <2>2
  <2>4. RepoOf[e[1]] \in {RepoOf[f[1]] : f \in {f \in edges : f[2] \in x.sel /\ f[1] \notin x.sel}}
    BY <2>3
  <2> QED
    BY <1>7, <2>2, <2>4 DEF DependentRepos
\* What is reset and what is not.
<1>8. ASSUME NEW d \in Modules, NEW m \in Modules, Crosses(d, m)
      PROVE  /\ stored'[RepoOf[m]] = stored[RepoOf[m]]
             /\ \/ stored'[RepoOf[d]] = NoSha
                \/ /\ stored'[RepoOf[d]] = stored[RepoOf[d]]
                   /\ Unchanged(d)' => Unchanged(d)
  <2>1. RepoOf[d] \in Repos /\ RepoOf[m] \in Repos
    BY ConstantsAssumption
  <2>2. stored'[RepoOf[m]] = stored[RepoOf[m]]
    BY <1>4, <1>6, <1>8, <2>1
  <2>3. CASE RepoOf[d] \in DependentRepos(r, x.sel)
    BY <1>4, <2>1, <2>2, <2>3
  <2>4. CASE RepoOf[d] \notin DependentRepos(r, x.sel)
    <3>1. stored'[RepoOf[d]] = stored[RepoOf[d]]
      BY <1>4, <2>1, <2>4
    <3>2. Unchanged(d)' => Unchanged(d)
      BY <1>0, <3>1 DEF Unchanged, gitVars
    <3> QED
      BY <2>2, <3>1, <3>2
  <2> QED
    BY <2>3, <2>4
<1>9. ASSUME NEW d \in Modules, NEW m \in Modules, NEW z \in Worker, Crosses(d, m), z.pc = "idle",
             RepoOf[d] = r, Revisited(d, m, x, z)
      PROVE  Revisited(d, m, y, z)'
  BY <1>0, <1>3, <1>8, <1>9 DEF Revisited
<1>10. ASSUME NEW d \in Modules, NEW m \in Modules, NEW z \in Worker, Crosses(d, m), z.pc = "idle",
              RepoOf[m] = r, Revisited(d, m, z, x)
       PROVE  Revisited(d, m, z, y)'
  <2>1. z.pc \notin Busy /\ stored[r] # NoSha /\ stored'[r] = stored[r]
    BY <1>3, <1>8, <1>10 DEF Revisited, Busy
  <2>2. RepoOf[d] # r /\ RepoOf[d] \in Repos
    BY <1>10, ConstantsAssumption DEF Crosses
  <2>3. <<d, m>> \in edges /\ Changing(x, m) => stored'[RepoOf[d]] = NoSha
    BY <1>4, <1>7, <2>2 DEF Changing
  <2> QED
    BY <1>0, <1>8, <1>10, <2>1, <2>3 DEF Revisited
<1>11. ASSUME NEW d \in Modules, NEW m \in Modules, NEW z \in Worker, NEW v \in Worker,
              Crosses(d, m), Revisited(d, m, z, v)
       PROVE  Revisited(d, m, z, v)'
  BY <1>0, <1>8, <1>11 DEF Revisited
<1>12. FromStored(r, y)'
  BY <1>3 DEF FromStored
<1>13. \A d, m \in Modules, z \in Worker : faults = 0 /\ Crosses(d, m) /\ z.pc = "idle" =>
         /\ RepoOf[d] = r /\ Revisited(d, m, x, z) => Revisited(d, m, y, z)'
         /\ RepoOf[m] = r /\ Revisited(d, m, z, x) => Revisited(d, m, z, y)'
  BY <1>9, <1>10, Zenon
<1>14. \A d, m \in Modules, z, v \in Worker :
         faults = 0 /\ Crosses(d, m) /\ z.pc = "idle" /\ v.pc = "idle" =>
           (RepoOf[d] # r /\ RepoOf[m] # r /\ Revisited(d, m, z, v) => Revisited(d, m, z, v)')
  BY <1>11, Zenon
<1>15. x = w[p][r] /\ faults' = faults /\ w' = [w EXCEPT ![p][r] = y] /\ x.pc # "idle"
  BY <1>0, <1>1, <1>2, <1>3
<1> QED
  BY <1>12, <1>13, <1>14, <1>15, RevisitActs, ZenonT(60)

LEMMA RevisitInvNext ==
  ASSUME Sequential, NeverInFull, OneDeep, PulledOnly, TypeInv, TypeInv', InOrder, InOrder',
         WorkerInv, PullInv, RevisitInv, [Next]_vars
  PROVE  RevisitInv'
<1>0. w \in [Procs -> [Repos -> Worker]] /\ faults \in Nat
  BY ConstantsAssumption DEF TypeInv, TypeOK
<1>1. CASE \E r \in Repos : Pull(r) \/ Amend(r) \/ Revert(r)
  BY <1>1, RevisitInvMove
<1>2. ASSUME UNCHANGED <<gitVars, stored, storeVars, w, faults>>
      PROVE  RevisitInv'
  BY <1>2 DEF RevisitInv, Revisited, FromStored, Unchanged, gitVars, storeVars
<1>3. ASSUME NEW p \in Procs,
             \/ \E prof \in Profiles, kind \in Kinds : Begin(p, prof, kind)
             \/ End(p) \/ LoseSession(p)
      PROVE  RevisitInv'
  BY <1>2, <1>3 DEF Begin, End, LoseSession
<1>4. ASSUME NEW p \in Procs, Crash(p) \/ \E r \in Repos : Fail(p, r)
      PROVE  RevisitInv'
  <2>1. faults' = faults + 1
    BY <1>4 DEF Crash, Fail
  <2> QED
    BY <1>0, <2>1 DEF RevisitInv
<1>5. ASSUME NEW p \in Procs, NEW r \in Repos, Succeed(p, r)
      PROVE  RevisitInv'
  <2>0. PICK x, y \in Worker : x = w[p][r] /\ y = IdleWorker
    <3>1. w' = [w EXCEPT ![p][r] = IdleWorker] /\ w' \in [Procs -> [Repos -> Worker]]
      BY <1>5 DEF Succeed, Done, TypeInv, TypeOK
    <3>2. IdleWorker \in Worker
      BY <1>0, <3>1
    <3> QED
      BY <1>0, <3>2
  <2>1. /\ UNCHANGED <<gitVars, stored, edges, basis, faults>> /\ store' = store
        /\ w' = [w EXCEPT ![p][r] = y] /\ x.pc = "status" /\ y.pc = "idle"
    BY <1>5, <2>0 DEF Succeed, Done, storeVars, IdleWorker
  <2>2. x.pc \notin Busy /\ y.pc \notin Busy /\ \A m \in Modules : ~Changing(x, m)
    BY <2>1 DEF Busy, Changing
  <2>3. FromStored(r, y)'
    BY <2>2 DEF FromStored
  <2> QED
    BY <2>0, <2>1, <2>2, <2>3, RevisitQuiet
<1>6. ASSUME NEW p \in Procs, NEW r \in Repos, WorkerStep(p, r), ~Succeed(p, r)
      PROVE  RevisitInv'
  BY <1>6, RevisitInvSelect, RevisitInvParse, RevisitInvModels, RevisitInvStale, RevisitInvRecord,
     RevisitInvPropagate DEF WorkerStep
<1>7. CASE UNCHANGED vars
  BY <1>2, <1>7 DEF vars, gitVars, storeVars
<1> QED
  BY <1>1, <1>3, <1>4, <1>5, <1>6, <1>7 DEF Next

\* A change is not lost to the modules of other repositories that depend on it,
\* as long as no run fails or is killed. TLC violates the property without any one
\* of the hypotheses: an amended or reverted commit, a full reindex and a git call
\* that fails each change a module without a reset of its dependents, and so does
\* the full reindex of a repository that was itself reset (OneDeep); two workers
\* may interleave the reset with the new head_sha of the dependent (Sequential).
THEOREM DependentsAreAlwaysRevisited ==
  Sequential /\ NeverInFull /\ OneDeep => (Spec => []DependentsAreRevisited)
<1> SUFFICES ASSUME Sequential, NeverInFull, OneDeep PROVE Spec => []DependentsAreRevisited
  OBVIOUS
<1> DEFINE Inv == TypeInv /\ InOrder /\ WorkerInv /\ PullInv /\ RevisitInv
<1>1. Init => Inv
  BY TypeInvInit, WorkerInvInit, PullInvInit, RevisitInvInit
<1>2. Inv /\ [Next]_vars => Inv'
  <2> SUFFICES ASSUME Inv, [Next]_vars PROVE Inv'
    OBVIOUS
  <2>1. TypeInv'
    BY TypeInvNext
  <2>2. InOrder'
    BY <2>1, InOrderNext
  <2>3. OneWorkerPerRepo' /\ PulledOnly
    BY DEF OneWorkerPerRepo, Sequential, PulledOnly, NeverInFull
  <2>4. WorkerInv'
    BY <2>1, <2>3, WorkerInvNext
  <2>5. PullInv'
    BY <2>1, <2>3, PullInvNext
  <2>6. RevisitInv'
    BY <2>1, <2>2, <2>3, RevisitInvNext
  <2> QED
    BY <2>1, <2>2, <2>4, <2>5, <2>6
<1>3. Inv => DependentsAreRevisited
  <2> SUFFICES ASSUME Inv, NEW d \in Modules, NEW m \in Modules,
                      faults = 0, <<d, m>> \in edges, RepoOf[d] # RepoOf[m], basis[d][m] # Absent
               PROVE  \/ basis[d][m] = store[m].models
                      \/ stored[RepoOf[d]] = NoSha
                      \/ ~Unchanged(d)
                      \/ Updating(RepoOf[m])
    BY DEF DependentsAreRevisited
  <2>1. Crosses(d, m)
    BY DEF Crosses, TypeInv, TypeOK
  <2>2. PICK p \in Procs : TRUE
    BY DEF Sequential
  <2>3. PICK xd, xm : xd = w[p][RepoOf[d]] /\ xm = w[p][RepoOf[m]]
    OBVIOUS
  <2>4. Revisited(d, m, xd, xm)
    BY <2>1, <2>3 DEF RevisitInv
  <2>5. Changing(xm, m) => Updating(RepoOf[m])
    BY <2>3 DEF Changing, Updating
  <2> QED
    BY <2>4, <2>5 DEF Revisited
<1> QED
  BY <1>1, <1>2, <1>3, PTL DEF Spec

=============================================================================
