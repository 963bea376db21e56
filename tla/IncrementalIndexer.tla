------------------------- MODULE IncrementalIndexer -------------------------
(***************************************************************************)
(* The incremental indexer: index_profile and _index_repo of               *)
(* indexer/pipeline.py with the helpers of indexer/incremental.py and      *)
(* indexer/cross_repo.py, the two stores it writes (the Neo4j graph and    *)
(* the pgvector table) and the bookkeeping column repos.head_sha.          *)
(*                                                                         *)
(* A process is one caller of index_profile: a CLI process, or a profile   *)
(* thread of index_all.  It has at most one worker per repository, which   *)
(* goes through the phases of _index_repo.  Checkouts move while the       *)
(* workers run, a phase may raise, and a process may be killed.            *)
(*                                                                         *)
(* The content of a module directory is the number of the commit that last *)
(* touched it, Absent when the directory does not exist.                   *)
(***************************************************************************)
EXTENDS Naturals, FiniteSets

CONSTANTS
  Repos,        \* repos.id, a finite set of numbers
  Profiles,
  ProfileOf,    \* [Repos -> Profiles], repos.profile_id
  Modules,      \* names of Odoo modules
  RepoOf,       \* [Modules -> Repos], the repository that holds the module
  DependsOn,    \* the pairs <<d, m>> with m in the 'depends' of d's manifest
  Chunkless,    \* the pairs <<m, content>> that give not one embedding chunk
  Procs,        \* callers of index_profile
  NoProc,
  Kinds,        \* the flags of a run: records [full, gc, embed]
  Parallel,     \* max_workers > 1
  MaxCommit,    \* bound on the commits of a repository
  HeadMoves,    \* how checkouts move: subset of {"pull", "amend", "revert"}
  MovesDuringRuns, \* whether a checkout may move while a worker is on it
  GitFaults,    \* git calls that may fail: subset of {"rev-parse", "merge-base", "diff"}
  FaultPhases,  \* phases in which a worker may raise or its process be killed
  MaxFaults,    \* bound on those faults
  SessionDrops  \* whether the connection that holds a lock may be lost

NoSha   == 0    \* repos.head_sha IS NULL, or get_repo_head returned None
Absent  == 0
Commits == 1..MaxCommit
Shas    == {NoSha} \cup Commits
Phases  == {"start", "scan", "parse", "models", "views", "gc", "advance",
            "propagate", "status"}

ASSUME ConstantsAssumption ==
  /\ Repos \subseteq Nat
  /\ MaxCommit \in Nat \ {0}
  /\ MaxFaults \in Nat
  /\ ProfileOf \in [Repos -> Profiles]
  /\ RepoOf \in [Modules -> Repos]
  /\ DependsOn \subseteq Modules \X Modules
  /\ Chunkless \subseteq Modules \X Commits
  /\ NoProc \notin Procs
  /\ Kinds \subseteq [full : BOOLEAN, gc : BOOLEAN, embed : BOOLEAN]
  /\ Parallel \in BOOLEAN
  /\ HeadMoves \subseteq {"pull", "amend", "revert"}
  /\ MovesDuringRuns \in BOOLEAN
  /\ GitFaults \subseteq {"rev-parse", "merge-base", "diff"}
  /\ FaultPhases \subseteq Phases
  /\ SessionDrops \in BOOLEAN

VARIABLES
  head,    \* [Repos -> Commits], the commit checked out at local_path
  last,    \* [Repos -> Commits], the newest commit made
  anc,     \* the ancestors of each commit, itself included
  tree,    \* the content of every module in each commit
  stored,  \* repos.head_sha
  status,  \* repos.status
  store,   \* the content of each module in the stores, one entry per transaction:
           \* emb is the content its rows in the embeddings table were made from
  edges,   \* the DEPENDS_ON relations of the graph
  basis,   \* the content of its dependencies a module's relations were resolved against
  lock,    \* [Profiles -> Procs or NoProc], the advisory lock of _indexer_lock
  run,     \* the state of each process
  w,       \* the state of each process's worker on each repository
  faults   \* faults so far

gitVars   == <<head, last, anc, tree>>
storeVars == <<store, edges, basis>>
vars == <<head, last, anc, tree, stored, status, store, edges, basis, lock, run, w, faults>>

ModulesOf(r) == {m \in Modules : RepoOf[m] = r}
ReposOf(prof) == {r \in Repos : ProfileOf[r] = prof}

Worker == [pc     : (Phases \ {"start"}) \cup {"idle"},
           cur    : Shas,                 \* current_head
           prev   : Shas,                 \* last_head
           live   : SUBSET Modules,       \* live_paths
           sel    : SUBSET Modules,       \* modules_by_version after the diff filter
           todo   : SUBSET Modules,       \* of sel, left to do in this phase
           parsed : [Modules -> Shas]]    \* what the parsers read

IdleWorker == [pc |-> "idle", cur |-> NoSha, prev |-> NoSha, live |-> {}, sel |-> {},
               todo |-> {}, parsed |-> [m \in Modules |-> Absent]]

NoRun == [pc |-> "idle"]
Run == {NoRun} \cup [pc : {"running"}, prof : Profiles, kind : Kinds, todo : SUBSET Repos]

Layers == [emb : Shas, models : Shas, views : Shas]

TypeOK ==
  /\ head \in [Repos -> Commits]
  /\ last \in [Repos -> Commits]
  /\ anc \in [Repos -> [Commits -> SUBSET Commits]]
  /\ tree \in [Repos -> [Commits -> [Modules -> Shas]]]
  /\ stored \in [Repos -> Shas]
  /\ status \in [Repos -> {"pending", "indexed", "error"}]
  /\ store \in [Modules -> Layers]
  /\ edges \subseteq DependsOn
  /\ basis \in [Modules -> [Modules -> Shas]]
  /\ lock \in [Profiles -> Procs \cup {NoProc}]
  /\ run \in [Procs -> Run]
  /\ w \in [Procs -> [Repos -> Worker]]
  /\ faults \in 0..MaxFaults

Init ==
  /\ head = [r \in Repos |-> 1]
  /\ last = [r \in Repos |-> 1]
  /\ anc = [r \in Repos |-> [c \in Commits |-> IF c = 1 THEN {1} ELSE {}]]
  /\ \E present \in SUBSET Modules :
       tree = [r \in Repos |-> [c \in Commits |-> [m \in Modules |->
                IF c = 1 /\ m \in present /\ RepoOf[m] = r THEN 1 ELSE Absent]]]
  /\ stored = [r \in Repos |-> NoSha]
  /\ status = [r \in Repos |-> "pending"]
  /\ store = [m \in Modules |-> [emb |-> Absent, models |-> Absent, views |-> Absent]]
  /\ edges = {}
  /\ basis = [d \in Modules |-> [m \in Modules |-> Absent]]
  /\ lock = [prof \in Profiles |-> NoProc]
  /\ run = [p \in Procs |-> NoRun]
  /\ w = [p \in Procs |-> [r \in Repos |-> IdleWorker]]
  /\ faults = 0

-----------------------------------------------------------------------------
(* The checkouts, moved by whoever maintains them (git pull, git reset).   *)

\* A new commit on top of base, with that content of the repository's modules.
NewCommit(r, base, content) ==
  LET n == last[r] + 1 IN
  /\ last[r] < MaxCommit
  /\ MovesDuringRuns \/ \A p \in Procs : w[p][r].pc = "idle"
  /\ head' = [head EXCEPT ![r] = n]
  /\ last' = [last EXCEPT ![r] = n]
  /\ anc' = [anc EXCEPT ![r][n] = anc[r][base] \cup {n}]
  /\ tree' = [tree EXCEPT ![r][n] = content]
  /\ UNCHANGED <<stored, status, store, edges, basis, lock, run, w, faults>>

\* The content after a commit on base that rewrites or removes some modules.
Touch(r, base, touched, gone) ==
  [m \in Modules |-> IF m \in gone THEN Absent
                     ELSE IF m \in touched THEN last[r] + 1
                     ELSE tree[r][base][m]]

\* A fast-forward: a child of HEAD.
Pull(r) ==
  /\ "pull" \in HeadMoves
  /\ \E touched \in SUBSET ModulesOf(r) : \E gone \in SUBSET touched :
       NewCommit(r, head[r], Touch(r, head[r], touched, gone))

\* History rewritten (force-push, rebase, amended commit): HEAD is replaced
\* by a commit on one of its proper ancestors.
Amend(r) ==
  /\ "amend" \in HeadMoves
  /\ \E base \in anc[r][head[r]] \ {head[r]} :
       \E touched \in SUBSET ModulesOf(r) : \E gone \in SUBSET touched :
         NewCommit(r, base, Touch(r, base, touched, gone))

\* A child of HEAD that restores the content of an ancestor (git revert).
Revert(r) ==
  /\ "revert" \in HeadMoves
  /\ \E old \in anc[r][head[r]] : NewCommit(r, head[r], tree[r][old])

-----------------------------------------------------------------------------
(* index_profile                                                           *)

\* Mutant of Begin: the result of pg_try_advisory_lock is not looked at.
BeginWithoutLock(p, prof, kind) ==
  /\ run[p] = NoRun
  /\ ReposOf(prof) # {}
  /\ lock' = [lock EXCEPT ![prof] = p]
  /\ run' = [run EXCEPT ![p] = [pc |-> "running", prof |-> prof, kind |-> kind,
                                todo |-> ReposOf(prof)]]
  /\ UNCHANGED <<gitVars, stored, status, storeVars, w, faults>>

\* The advisory lock is taken without waiting; a process that does not get
\* it raises and has changed nothing; nor does a profile without repositories.
Begin(p, prof, kind) ==
  /\ run[p] = NoRun
  /\ ReposOf(prof) # {}
  /\ lock[prof] = NoProc
  /\ lock' = [lock EXCEPT ![prof] = p]
  /\ run' = [run EXCEPT ![p] = [pc |-> "running", prof |-> prof, kind |-> kind,
                                todo |-> ReposOf(prof)]]
  /\ UNCHANGED <<gitVars, stored, status, storeVars, w, faults>>

\* The lock of a run is gone: given back, or dropped with its session.
Unlock(p) == IF lock[run[p].prof] = p THEN [lock EXCEPT ![run[p].prof] = NoProc] ELSE lock

\* Mutant of End: the error that ends a run with failed repositories is raised
\* without the finally clause that unlocks.
EndUnlocksOnSuccess(p) ==
  /\ run[p] # NoRun
  /\ run[p].todo = {}
  /\ lock' = IF \A r \in ReposOf(run[p].prof) : status[r] # "error" THEN Unlock(p) ELSE lock
  /\ run' = [run EXCEPT ![p] = NoRun]
  /\ UNCHANGED <<gitVars, stored, status, storeVars, w, faults>>

\* Every repository has been tried: the lock is released, whether or not
\* some of them failed.
End(p) ==
  /\ run[p] # NoRun
  /\ run[p].todo = {}
  /\ lock' = Unlock(p)
  /\ run' = [run EXCEPT ![p] = NoRun]
  /\ UNCHANGED <<gitVars, stored, status, storeVars, w, faults>>

\* A killed process: PostgreSQL drops its session and with it the lock.
Crash(p) ==
  /\ run[p] # NoRun
  /\ \A r \in Repos : w[p][r].pc \in FaultPhases \cup {"idle"}
  /\ faults < MaxFaults
  /\ faults' = faults + 1
  /\ lock' = Unlock(p)
  /\ run' = [run EXCEPT ![p] = NoRun]
  /\ w' = [w EXCEPT ![p] = [r \in Repos |-> IdleWorker]]
  /\ UNCHANGED <<gitVars, stored, status, storeVars>>

\* The connection that took the lock is lost and the process does not notice:
\* with max_workers > 1 its threads have connections of their own.
LoseSession(p) ==
  /\ SessionDrops
  /\ Parallel
  /\ run[p] # NoRun
  /\ lock[run[p].prof] = p
  /\ lock' = Unlock(p)
  /\ UNCHANGED <<gitVars, stored, status, storeVars, run, w, faults>>

-----------------------------------------------------------------------------
(* _index_repo                                                             *)

\* ORDER BY r.id, one at a time, unless the repositories go to a thread pool.
MayStart(p, r) ==
  /\ run[p] # NoRun
  /\ r \in run[p].todo
  /\ w[p][r].pc = "idle"
  /\ Parallel \/ \A q \in run[p].todo : r <= q

\* The outcome of a repository: its worker is done, and so is the repository.
Done(p, r, outcome) ==
  /\ status' = [status EXCEPT ![r] = outcome]
  /\ w' = [w EXCEPT ![p][r] = IdleWorker]
  /\ run' = [run EXCEPT ![p].todo = @ \ {r}]

\* get_repo_head: None when the git call fails.
ReadHead(r) == {head[r]} \cup (IF "rev-parse" \in GitFaults THEN {NoSha} ELSE {})

\* is_ancestor: False when the git call fails.
IsAncestor(r, old, new) ==
  {old \in anc[r][new]} \cup (IF "merge-base" \in GitFaults THEN {FALSE} ELSE {})

\* Mutant of LastHead: full_reindex is not looked at.
LastHeadOfAnyRun(p, r, cur) ==
  IF stored[r] # NoSha /\ cur # NoSha
    THEN {IF ok THEN stored[r] ELSE NoSha : ok \in IsAncestor(r, stored[r], cur)}
    ELSE {stored[r]}

\* last_head as _index_repo leaves it: None asks for a full reindex.
LastHead(p, r, cur) ==
  LET old == IF run[p].kind.full THEN NoSha ELSE stored[r] IN
  IF old # NoSha /\ cur # NoSha
    THEN {IF ok THEN old ELSE NoSha : ok \in IsAncestor(r, old, cur)}
    ELSE {old}

\* HEAD equals the recorded one: nothing is read or written.
Skip(p, r) ==
  /\ MayStart(p, r)
  /\ ~run[p].kind.full
  /\ stored[r] # NoSha
  /\ stored[r] = head[r]
  /\ w' = [w EXCEPT ![p][r] = [IdleWorker EXCEPT !.pc = "status"]]
  /\ UNCHANGED <<gitVars, stored, status, storeVars, lock, run, faults>>

Start(p, r) ==
  /\ MayStart(p, r)
  /\ \E cur \in ReadHead(r) :
       /\ run[p].kind.full \/ stored[r] = NoSha \/ cur # stored[r]
       /\ \E prev \in LastHead(p, r, cur) :
            w' = [w EXCEPT ![p][r] = [IdleWorker EXCEPT !.pc = "scan", !.cur = cur,
                                                        !.prev = prev]]
  /\ UNCHANGED <<gitVars, stored, status, storeVars, lock, run, faults>>

\* The diff filter and the propagation to other repositories are for
\* incremental runs only.
Incremental(x) == x.prev # NoSha /\ x.cur # NoSha

\* Mutant of Changed: the diff is that of the last commit (HEAD~1..HEAD).
ChangedByLastCommit(r, x, live) == {{m \in live : tree[r][x.cur][m] = x.cur}}

\* compute_changed_module_paths: the modules that the two commits disagree on
\* and whose manifest is there now; none when git diff fails.
Changed(r, x, live) ==
  {{m \in live : tree[r][x.prev][m] # tree[r][x.cur][m]}}
    \cup (IF "diff" \in GitFaults THEN {{}} ELSE {})

Live(r) == {m \in ModulesOf(r) : tree[r][head[r]][m] # Absent}

\* build_registry, live_paths and the diff filter.
Scan(p, r) ==
  LET x == w[p][r] IN
  /\ x.pc = "scan"
  /\ \E sel \in IF Incremental(x) THEN Changed(r, x, Live(r)) ELSE {Live(r)} :
       /\ ~(Incremental(x) /\ sel = {})
       /\ w' = [w EXCEPT ![p][r] =
                  [x EXCEPT !.pc = IF sel = {} THEN "gc" ELSE "parse",
                            !.live = Live(r), !.sel = sel, !.todo = sel]]
  /\ UNCHANGED <<gitVars, stored, status, storeVars, lock, run, faults>>

\* Mutant of NothingChanged: the early return leaves head_sha alone.
NothingChangedNothingStored(p, r) ==
  LET x == w[p][r] IN
  /\ x.pc = "scan"
  /\ Incremental(x)
  /\ {} \in Changed(r, x, Live(r))
  /\ w' = [w EXCEPT ![p][r] = [x EXCEPT !.pc = "status", !.live = Live(r)]]
  /\ UNCHANGED <<gitVars, stored, status, storeVars, lock, run, faults>>

\* No module directory changed: head_sha is advanced and nothing else is done.
NothingChanged(p, r) ==
  LET x == w[p][r] IN
  /\ x.pc = "scan"
  /\ Incremental(x)
  /\ {} \in Changed(r, x, Live(r))
  /\ stored' = [stored EXCEPT ![r] = x.cur]
  /\ w' = [w EXCEPT ![p][r] = [x EXCEPT !.pc = "status", !.live = Live(r)]]
  /\ UNCHANGED <<gitVars, status, storeVars, lock, run, faults>>

\* One module of a phase is done; after the last one the next phase begins
\* with all of them.
PhaseStep(x, m, next) ==
  IF x.todo = {m} THEN [x EXCEPT !.pc = next, !.todo = x.sel]
                  ELSE [x EXCEPT !.todo = @ \ {m}]

\* Whether make_chunks returns anything for that content of a module.
HasChunks(m, content) == content # Absent /\ <<m, content>> \notin Chunkless

\* Mutant of Parse: chunks that are already in the table are kept.
ParseKeepingChunks(p, r, m) ==
  LET x == w[p][r]
      content == tree[r][head[r]][m] IN
  /\ x.pc = "parse"
  /\ m \in x.todo
  /\ w' = [w EXCEPT ![p][r] = [PhaseStep(x, m, "models") EXCEPT !.parsed[m] = content]]
  /\ store' = IF run[p].kind.embed /\ HasChunks(m, content) /\ store[m].emb = Absent
                THEN [store EXCEPT ![m].emb = content] ELSE store
  /\ UNCHANGED <<gitVars, stored, status, edges, basis, lock, run, faults>>

\* A module is parsed from the working tree as it is now, and its embeddings are
\* replaced in one transaction. write_module_embeddings returns before its DELETE
\* when there are no chunks: the rows of an older content stay.
Parse(p, r, m) ==
  LET x == w[p][r]
      content == tree[r][head[r]][m] IN
  /\ x.pc = "parse"
  /\ m \in x.todo
  /\ w' = [w EXCEPT ![p][r] = [PhaseStep(x, m, "models") EXCEPT !.parsed[m] = content]]
  /\ store' = IF run[p].kind.embed /\ HasChunks(m, content)
                THEN [store EXCEPT ![m].emb = content] ELSE store
  /\ UNCHANGED <<gitVars, stored, status, edges, basis, lock, run, faults>>

\* Mutant of WriteModels: the relations point from the dependency to the module.
WriteModelsReversed(p, r, m) ==
  LET x == w[p][r] IN
  /\ x.pc = "models"
  /\ m \in x.todo
  /\ w' = [w EXCEPT ![p][r] = PhaseStep(x, m, "views")]
  /\ store' = [store EXCEPT ![m].models = x.parsed[m]]
  /\ edges' = edges \cup {<<e[2], e[1]>> : e \in {e \in DependsOn : e[1] = m}}
  /\ basis' = [basis EXCEPT ![m] = [d \in Modules |->
                 IF <<m, d>> \in DependsOn THEN store[d].models ELSE Absent]]
  /\ UNCHANGED <<gitVars, stored, status, lock, run, faults>>

\* write_results: the Module node, its DEPENDS_ON relations and its models,
\* resolved against what the graph holds.
WriteModels(p, r, m) ==
  LET x == w[p][r] IN
  /\ x.pc = "models"
  /\ m \in x.todo
  /\ w' = [w EXCEPT ![p][r] = PhaseStep(x, m, "views")]
  /\ store' = [store EXCEPT ![m].models = x.parsed[m]]
  /\ edges' = edges \cup {e \in DependsOn : e[1] = m}
  /\ basis' = [basis EXCEPT ![m] = [d \in Modules |->
                 IF <<m, d>> \in DependsOn THEN store[d].models ELSE Absent]]
  /\ UNCHANGED <<gitVars, stored, status, lock, run, faults>>

\* write_view_results, write_js_graph_results and write_stylesheets.
WriteViews(p, r, m) ==
  LET x == w[p][r] IN
  /\ x.pc = "views"
  /\ m \in x.todo
  /\ w' = [w EXCEPT ![p][r] = PhaseStep(x, m, "gc")]
  /\ store' = [store EXCEPT ![m].views = x.parsed[m]]
  /\ UNCHANGED <<gitVars, stored, status, edges, basis, lock, run, faults>>

\* gc_stale_modules: DETACH DELETE of the Module nodes whose path was not scanned.
Stale(p, r) ==
  IF run[p].kind.gc /\ w[p][r].live # {} THEN ModulesOf(r) \ w[p][r].live ELSE {}

CollectStale(p, r) ==
  /\ w[p][r].pc = "gc"
  /\ store' = [m \in Modules |-> IF m \in Stale(p, r)
                                   THEN [store[m] EXCEPT !.models = Absent] ELSE store[m]]
  /\ edges' = {e \in edges : e[1] \notin Stale(p, r) /\ e[2] \notin Stale(p, r)}
  /\ w' = [w EXCEPT ![p][r].pc = "advance"]
  /\ UNCHANGED <<gitVars, stored, status, basis, lock, run, faults>>

\* update_repo_head_sha, when HEAD could be read.
Advance(p, r) ==
  LET x == w[p][r] IN
  /\ x.pc = "advance"
  /\ stored' = IF x.cur # NoSha THEN [stored EXCEPT ![r] = x.cur] ELSE stored
  /\ w' = [w EXCEPT ![p][r].pc = IF Incremental(x) THEN "propagate" ELSE "status"]
  /\ UNCHANGED <<gitVars, status, storeVars, lock, run, faults>>

\* Mutant of DependentRepos: the repositories that the changed modules depend on.
DependencyRepos(r, sel) ==
  {RepoOf[e[2]] : e \in {e \in edges : e[1] \in sel /\ e[2] \notin sel}} \ {r}

\* find_dependent_repos, without the repository just indexed.
DependentRepos(r, sel) ==
  {RepoOf[e[1]] : e \in {e \in edges : e[2] \in sel /\ e[1] \notin sel}} \ {r}

\* reset_head_sha of the dependent repositories.
Propagate(p, r) ==
  LET x == w[p][r] IN
  /\ x.pc = "propagate"
  /\ stored' = [q \in Repos |-> IF q \in DependentRepos(r, x.sel) THEN NoSha ELSE stored[q]]
  /\ w' = [w EXCEPT ![p][r].pc = "status"]
  /\ UNCHANGED <<gitVars, status, storeVars, lock, run, faults>>

Succeed(p, r) ==
  /\ w[p][r].pc = "status"
  /\ Done(p, r, "indexed")
  /\ UNCHANGED <<gitVars, stored, storeVars, lock, faults>>

\* Mutant of Fail: head_sha is advanced in a finally clause.
FailAdvancing(p, r) ==
  /\ w[p][r].pc \in FaultPhases
  /\ faults < MaxFaults
  /\ faults' = faults + 1
  /\ stored' = [stored EXCEPT ![r] = w[p][r].cur]
  /\ Done(p, r, "error")
  /\ UNCHANGED <<gitVars, storeVars, lock>>

\* A phase raises: what it has written stays, the repository is marked, and
\* the run goes on with the others.
Fail(p, r) ==
  /\ \/ MayStart(p, r) /\ "start" \in FaultPhases
     \/ w[p][r].pc \in FaultPhases
  /\ faults < MaxFaults
  /\ faults' = faults + 1
  /\ Done(p, r, "error")
  /\ UNCHANGED <<gitVars, stored, storeVars, lock>>

-----------------------------------------------------------------------------

WorkerStep(p, r) ==
  \/ Skip(p, r)
  \/ Start(p, r)
  \/ Scan(p, r)
  \/ NothingChanged(p, r)
  \/ \E m \in Modules : Parse(p, r, m) \/ WriteModels(p, r, m) \/ WriteViews(p, r, m)
  \/ CollectStale(p, r)
  \/ Advance(p, r)
  \/ Propagate(p, r)
  \/ Succeed(p, r)

Next ==
  \/ \E r \in Repos : Pull(r) \/ Amend(r) \/ Revert(r)
  \/ \E p \in Procs :
       \/ \E prof \in Profiles, kind \in Kinds : Begin(p, prof, kind)
       \/ End(p)
       \/ Crash(p)
       \/ LoseSession(p)
       \/ \E r \in Repos : WorkerStep(p, r) \/ Fail(p, r)

Spec == Init /\ [][Next]_vars

-----------------------------------------------------------------------------
(* Safety                                                                  *)

\* The advisory lock: no two processes work on the same repository, although
\* processes are killed, and each knows the others only through PostgreSQL.
OneWorkerPerRepo ==
  \A p, q \in Procs, r \in Repos :
    w[p][r].pc # "idle" /\ w[q][r].pc # "idle" => p = q

\* The module is on disk, and is the same at repos.head_sha and at HEAD.
Unchanged(m) ==
  LET r == RepoOf[m]
      k == tree[r][head[r]][m] IN
  stored[r] # NoSha /\ k # Absent /\ tree[r][stored[r]][m] = k

\* The next run will take the repository for a continuation of what is stored.
NextRunIsIncremental(r) == stored[r] # NoSha /\ stored[r] \in anc[r][head[r]]

\* What the next run will not look at again is in the graph: both transactions
\* of such a module were written from the content it has at HEAD (ADR-0007 D1:
\* head_sha is "the last successful run wrote up to this commit", and D3).
UnchangedIsIndexed ==
  \A m \in Modules : Unchanged(m) /\ NextRunIsIncremental(RepoOf[m]) =>
    /\ store[m].models = tree[RepoOf[m]][head[RepoOf[m]]][m]
    /\ store[m].views = tree[RepoOf[m]][head[RepoOf[m]]][m]

\* The same whatever happens to the checkouts, as long as no run is disturbed:
\* the diff is always taken from an ancestor, or not at all (ADR-0007 D2).
UndisturbedIsIndexed == faults = 0 => UnchangedIsIndexed

\* The same for the embeddings of the pgvector table, of a module whose content
\* at HEAD gives any chunk. One that has lost all of them keeps the rows of an
\* older content under the advanced head_sha (writer_pgvector.py:242), and with
\* that content nothing is claimed of its rows.
UnchangedIsEmbedded ==
  \A m \in Modules :
    LET k == tree[RepoOf[m]][head[RepoOf[m]]][m] IN
    Unchanged(m) /\ NextRunIsIncremental(RepoOf[m]) /\ HasChunks(m, k) => store[m].emb = k

\* repos.head_sha only moves to a descendant, or to NULL (ADR-0007 D3: "head_sha
\* can only advance, never roll back").
HeadShaNeverGoesBack ==
  [][\A r \in Repos : stored'[r] \in {stored[r], NoSha} \/ stored[r] = NoSha
                        \/ stored[r] \in anc[r][stored'[r]]]_vars

\* The reset button (ADR-0007 D4, D5): when a full reindex of an unmoving
\* checkout succeeds, the graph holds what HEAD holds, whatever went wrong
\* before; with --gc it holds no other module of the repository.
FullReindexMirrorsHead ==
  \A p \in Procs, r \in Repos :
    w[p][r].pc = "status" /\ run[p].kind.full /\ w[p][r].cur = head[r] =>
      \A m \in ModulesOf(r) :
        LET k == tree[r][head[r]][m] IN
        /\ k # Absent => store[m].models = k /\ store[m].views = k
        /\ k = Absent /\ run[p].kind.gc /\ w[p][r].live # {} => store[m].models = Absent

Updating(a) == \E p \in Procs : w[p][a].pc \in {"models", "views", "gc", "advance", "propagate"}

\* A change is not lost to the modules of other repositories that depend on
\* it: as long as the relations of such a module are those of the old content,
\* the module has changed since repos.head_sha, head_sha of its repository is
\* NULL, or the worker of the change has yet to reset it (ADR-0007,
\* cross-repo propagation). A run that fails between advancing head_sha and the
\* reset loses it, so this is about what happens without faults.
DependentsAreRevisited ==
  \A d, m \in Modules :
    faults = 0 /\ <<d, m>> \in edges /\ RepoOf[d] # RepoOf[m] /\ basis[d][m] # Absent =>
      \/ basis[d][m] = store[m].models
      \/ stored[RepoOf[d]] = NoSha
      \/ ~Unchanged(d)
      \/ Updating(RepoOf[m])

-----------------------------------------------------------------------------
(* Liveness                                                                *)

\* The steps of a started run are taken; the hourly cron entry of
\* docs/deploy.md starts a run of every profile again and again, so each of
\* them gets its lock when it is free infinitely often.
FairSpec ==
  /\ Spec
  /\ \A p \in Procs : WF_vars(End(p))
  /\ \A p \in Procs, r \in Repos : WF_vars(WorkerStep(p, r))
  /\ \A prof \in Profiles : SF_vars(\E p \in Procs, kind \in Kinds : Begin(p, prof, kind))

\* Faults and commits being finite, every repository is in the end indexed
\* at its HEAD, and stays so.
Converges ==
  \A r \in Repos : <>[](stored[r] = head[r] /\ status[r] = "indexed")

\* A process that takes the lock gives it back, also when repositories fail
\* or the process is killed.
LockIsReleased ==
  \A prof \in Profiles : lock[prof] # NoProc ~> lock[prof] = NoProc

=============================================================================
