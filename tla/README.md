# Odoo Semantic MCP: TLA+ models and proofs

Odoo Semantic MCP indexes the source code of Odoo installations into a Neo4j
graph and a pgvector table and serves both to coding assistants over MCP. A web
application administers what is indexed, and PostgreSQL holds the bookkeeping.
This directory holds models of the parts whose correctness depends on the order
of steps, their TLC configurations, and TLAPS proofs about them.

Paths below are relative to the repository; `src/indexer/pipeline.py:193` is a
line of a source file.

## 1. The system

| Component | State it keeps | Operations | What makes it correct |
|---|---|---|---|
| Incremental indexer (`src/indexer/pipeline.py`, `incremental.py`, `cross_repo.py`) | none of its own: the graph, the vector table, `repos.head_sha`, `repos.status`, an advisory lock per profile | `index_profile`, `index_all`, `_index_repo` | `head_sha` never claims more than the stores hold; a change reaches the repositories that depend on it; one indexer per profile; every repository is indexed in the end |
| Graph writer (`src/indexer/writer_neo4j.py`) | Module, Model, Field, View... nodes keyed by name and version, each with the profiles that own it | one transaction per module and layer; module GC; scoped deletion | a node lives as long as one of its owners does |
| Vector writer (`src/indexer/writer_pgvector.py`) | rows of embeddings | delete and insert of a module in one transaction, if it has a chunk | the rows of a module are those of its last indexed content that gave any |
| Spec layer (`index_core`, `parser_odoo_core.py`, `parser_lint_rules.py`, `parser_cli.py`, `diff_engine.py`) | CoreSymbol, LintRule, CLICommand, CLIFlag nodes by version, REPLACED_BY and CHECKS edges | `index_core`; `lookup_core_api`, `api_version_diff`, `lint_check`, `cli_help` | what is recorded of a version is what its sources say, in whatever order versions are indexed |
| Pattern catalogue (`src/indexer/seed_patterns.py`) | PatternExample nodes, pattern rows, two `_SeedMeta` sentinels | seed, skip when the hash is known | a sentinel never vouches for what is not written |
| Repository registry (`src/db/repo_registry.py`) | profiles (a forest), repos, `clone_status`, `head_sha` | CRUD, `set_profile_parent`, `reset_head_sha` | the hierarchy has no cycle and one version per tree |
| Jobs (`src/db/job_registry.py`, `src/indexer/__main__.py`, `src/web_ui/helpers/subprocess_runner.py`, `src/web_ui/routes/jobs.py`) | `indexer_jobs` rows, processes | spawn, report, reset, mark dead | a job that ended says so; a finished job stays finished |
| Cloner (`src/cloner/__main__.py`) | a checkout, `clone_status` | clone | `cloned` means that the checkout is there |
| Web administration (`src/web_ui/routes/repos.py`) | none | add, update, delete, clone-all, reset-embed, index-all | what is deleted disappears from all three stores |
| Accounts and keys (`src/db/auth_registry.py`, `src/web_ui/login_attempts.py`) | users, API keys, tokens, login attempts | login, MFA, reset, (de)activation | one active administrator remains; a token is used once |
| MCP request path (`src/mcp/middleware.py`, `session.py`, `resources.py`) | in-memory caches of the process, `api_key_session_state` | verify key, session defaults, rendered resources, the pool and its recovery | a cache serves nothing older than its time to live allows; a pinned version stays pinned |
| MCP tools (`src/mcp/server.py`, `orm.py`) | none | some thirty read-only queries on the graph | an answer says what the sources say, completely |
| Parsers (`parser_*.py`, `scanner.py`, `registry.py`, `resolver.py`) | none | files of a module to records | nothing that a tool promises to know gets lost |
| Migrations (`src/db/migrate.py`) | schema | apply under an advisory lock | each migration is applied once |
| Formatting, front end, deployment | none | pure functions, I/O | not protocols |

Components meet in four places: the PostgreSQL rows (`repos`, `indexer_jobs`,
users), the graph, advisory locks, and operating-system processes that the web
application starts and then only sees through the job's row and its pid.

The behaviours that are hard, each listed at its line under `hazards` in
`PROJECT.json`:

- **three stores, no common transaction.** A run writes the vector table module
  by module while it parses, then the graph module by module in two layers, then
  `head_sha`. It can raise or be killed between any two of them.
- **checkouts that move.** HEAD is read once, files are read later; between runs
  history may be pulled, force-pushed or reverted.
- **failing git calls.** Each helper of `incremental.py` turns a failure into a
  value (`None`, `False`, the empty set) with a meaning of its own.
- **several indexers.** Cron, the web application and operators start processes
  that know each other only through advisory locks.
- **propagation.** A changed module makes other repositories out of date
  although nothing of theirs has changed; the only memory of that fact is the
  NULL in their `head_sha`.
- **check-then-act** in the administration code: the parent of a profile, the
  guard against deleting what is being indexed, the reset of a job, the last
  administrator.
- **three kinds of processes on one row**: the web application, cloners and
  indexers read a row of `repos`, work for minutes and then write it.
- **order of indexing.** A transaction only sees what is in the graph when it
  runs; whatever it refers to and is not there becomes a placeholder for good.
- **merging writes.** Writing a module again adds to what is there and removes
  nothing.
- **caches** filled from a value read before an invalidation, or during an
  outage.

## 2. What is modelled

### `IncrementalIndexer`

The core of the system: every caller of `index_profile` as a process, one worker
per repository that goes through the phases of `_index_repo`, the stores, the
bookkeeping column and the lock. Checkouts are part of the environment.

| Model | Code |
|---|---|
| `head`, `last`, `anc`, `tree` | the checkout at `local_path`: commits are numbered as they are made; a commit gives each module directory a content, the number of the commit that last touched it (`Absent`: no directory) |
| `stored`, `status` | `repos.head_sha` (`NoSha` is NULL), `repos.status` |
| `store[m].emb`, `.models`, `.views` | what the vector table and the two graph transactions of module `m` were written from |
| `edges`, `basis` | the DEPENDS_ON relations; the content of the dependencies that the relations of a module were resolved against |
| `lock` | `pg_try_advisory_lock` of `_indexer_lock`, one per profile |
| `run` | a call of `index_profile`: its flags and the repositories left |
| `w[p][r]` | the local variables of `_index_repo`: `current_head`, `last_head`, `live_paths`, the filtered modules, what was parsed |
| `Begin`, `End` | `_indexer_lock` around `index_profile`; the error for failed repositories is raised before the lock is given back |
| `Skip`, `Start` | HEAD equals `head_sha`; otherwise HEAD, ancestry and the base of the diff |
| `Scan`, `NothingChanged` | `build_registry` and the diff filter; the early return that advances `head_sha` |
| `Parse`, `HasChunks` | one module of the first loop: files read from the working tree as it is now, embeddings replaced; a module that gives no chunk keeps the rows it has, for `write_module_embeddings` returns before its DELETE |
| `WriteModels`, `WriteViews` | `write_results`; `write_view_results`, `write_js_graph_results`, `write_stylesheets` |
| `CollectStale` | `gc_stale_modules` behind its risk gate |
| `Advance`, `Propagate` | `update_repo_head_sha`; `find_dependent_repos` and `reset_head_sha` |
| `Succeed`, `Fail`, `Crash` | the outcome of a repository in `index_profile`; SIGKILL of the process |
| `LoseSession` | the lock's session ends and the process does not notice |
| `Pull`, `Amend`, `Revert` | a new commit on HEAD; one on an ancestor of HEAD (history rewritten); one that restores an old content |

A failing git call is a second value of the helper: `ReadHead` may be `NoSha`,
`IsAncestor` may be FALSE, `Changed` may be empty, each when `GitFaults` says
so.

What is abstracted: the nodes below a module (its models, fields and views are
one value per transaction), the order of modules within a phase (the model
allows any; the code takes the topological order of `resolver.py`), embedding
batches, and clone URLs. A module belongs to one repository here; who owns a
node is the subject of `RepositoryAdmin`, what the nodes say that of
`GraphWriter`.

### `JobLifecycle`

A row of `indexer_jobs`, the operating-system process it stands for, and the web
process that creates both, sweeps the table when it starts and resets rows on
request.

| Model | Code |
|---|---|
| `row` | `indexer_jobs.status` and `.pid` (`"none"`: no such row) |
| `command`, `proc`, `exit`, `pidOf` | the spawned `python -m src.indexer <command> --job-id N`: how far it is, how it ended, its number |
| `foreign` | numbers that other programs have; `Alive` is `os.kill(pid, 0)`, for which a zombie is alive |
| `web` | the task of the web process and the rows it has read for it |
| `owed` | auxiliary: the dead jobs a sweep found when it began |
| `WebStart`, `SweepRow`, `SweepEnds`, `SweepFails` | `_lifespan` and `mark_dead_jobs`: one read of all rows, then one judgement after the other |
| `CreateJob`, `Spawn`, `SpawnFails` | `create_job` and `spawn_indexer_subcommand` |
| `ResetReads`, `ResetJudges`, `ResetFails` | `reset_stuck_job` |
| `RejectsArguments` | the parser of `index-core` has no `--job-id`, which is always appended |
| `FailsToConnect`, `MarkRunning`, `Work`, `MarkDone`, `MarkError` | the reports of `seed_patterns.main` and of `index-repo`; `Report` says what becomes of one |
| `Kill`, `Exit`, `Reap`, `PidTaken`, `PidFreed`, `WebStop` | the operating system |

The web application is one uvicorn process and none of the handlers awaits
between its first and last statement, so `web` does one task at a time. What a
subcommand does to the stores is the step `Work`: it is the subject of the other
modules.

### `PatternSeeding`

The pattern catalogue in its two stores, and the processes that seed it: `run`
at the end of every `index_profile`, `main` from the command line.

| Model | Code |
|---|---|
| `file`, `Text` | the version of `patterns.json` on disk, which stands for its sha256, and what each version says of each pattern |
| `graph`, `vectors` | PatternExample nodes; rows with `chunk_type = 'pattern_example'` |
| `mark`, `legacy` | the two `_SeedMeta` sentinels; the single one of old deployments |
| `w[q]` | the arguments and local variables of a seeding |
| `Begin` | the sha256 is computed first |
| `Gate`, `GateVectors` | the sentinels are read one after the other; nothing to do, or not |
| `Load` | the file is read a second time, filtered by `--version` |
| `WriteGraph`, `MarkGraph` | MERGE of the nodes, in one transaction for up to 200 patterns (the file has 113); sentinel |
| `Embed`, `CommitVectors`, `MarkVectors` | DELETE, INSERT and COMMIT at READ COMMITTED; sentinel |
| `Fail` | an exception or a kill; an open transaction is rolled back |
| `Edit` | a release replaces the file while seedings may be at work |

`crossed` records that another seeding committed after the DELETE of this one,
whose rows that DELETE did not see and which therefore stay, except where `ON
CONFLICT` overwrites them. `run` and `main` differ in `WritesGraph`,
`WritesVectors` and in what an empty load means. File versions only grow: a
release that restores an older file byte by byte, and `--patterns-file` with
another file, are not modelled.

### `RepositoryAdmin`

The rows of `profiles` and `repos`, the requests of the web application and the
commands of `src.manager` that change them, the cloner processes, the indexer
processes as far as they read and write those rows, and the clean-up of the
stores after a deletion.

| Model | Code |
|---|---|
| `profile`, `repo` | the two tables; an id that is gone is never used again |
| `disk` | what each directory holds: a complete checkout of a source; a tree whose HEAD git has set and whose files it has not finished (`Half`); something without HEAD and modules (`Partial`: a clone before that, or any other directory); nothing |
| `CreateProfile`, `UpdateProfile`, `SetProfileParent`, `DeleteProfile` | the handlers with `_validate_parent`, the version check up and down the tree, the foreign key |
| `AddRepo`, `UpdateRepo`, `DeleteSshKey`, `CloneAll` | the handlers; a PATCH may name another URL, key and `local_path`; `ON DELETE SET NULL` of the key; `clone-all` marks a `file://` URL of a directory cloned on the spot |
| `CliAddProfile`, `CliAddRepo`, `CliClone` | `add-profile`, `add-repo`, the statements of `apply-preset` one by one, and `clone-profile` repository by repository: commands of a shell, which may come at any moment, also between the steps of a deletion |
| `RowReads` ... `SetsCloned`, `ClonerIsKilled` | `src/cloner/__main__.py` and `clone_repo`, a step for each statement on the row or the directory; `GitFetches` is HEAD, `GitSucceeds` the last of the files |
| `IndexRepo`, `ResetEmbed`, `IndexAll` | the guard `indexer_is_running`, the write, the spawn |
| `ReadsRows`, `TakesLock`, `OpensRepo`, `WritesGraph`, `AdvancesSha`, ... | `index_profile`: rows and ancestors are read before the lock is taken; `clone_status` is not looked at, so of an unfinished checkout HEAD is read and some of the modules are found |
| `DeleteRepo`, `CollectsNames`, `DeletesNodes`, `DeletesVectors` | rows first, then the names of the modules, the graph, the vectors, each best effort |
| `CliDeleteRepo`, `CliDeleteProfile` | `src.manager`: rows only |
| `abandoned`, `known` | auxiliary: repositories whose cloner was killed, and that an indexer has read |
| `left`, `moved`, `byHand`, `overrun` | auxiliary: what the code does leave behind or lose, recorded at the step that does it (section 3) |
| `Begin` | what commands of the shell may have registered before the first request, so that the bound on requests is not used up by it |

A checkout does not move on here and a repository is indexed as a whole. A
request other than a deletion is one step: its handler does not await between
its statements. git is taken to die with the cloner that started it. Left out: a
plain directory without git that holds modules (it is indexed, without a
`head_sha`), `--ssh-key-id` of `clone-profile` (the change that a PATCH of the
key makes), spawns that fail in `clone-all`, and `seed-master-data` with
`--reset`.

### `McpServer` and `StickyContext`

One server process: requests on an event loop, four pieces of memory that age,
PostgreSQL that comes and goes.

| Model | Code |
|---|---|
| `keyCache`, `Arrive`, `ReadKey`, `Verified`, `VerifyFails` | `AuthMiddleware.dispatch`; the verification is the one thing done in a worker thread |
| `row`, `session`, `ReadsSession`, `SetActiveVersion`, `SetActiveProfile` | `session.py`: the row with its 24 hours, the cache with its 60 seconds, the degraded read |
| `CallTool`, `ReadResource`, `Fit`, `Hits` | a tool's resolution of its version; the least recently used cache of resources |
| `pool`, `idle`, `Connects`, `EnsurePg`, `RetryOnce`, `Retry`, `HealthProbe` | `PgPool`, `_ensure_pg`, `_bg_retry_init_pool`; psycopg2 keeps one idle connection, which may have died |
| `Deactivate`, `Index`, `PgDown`, `PgReturns`, `Restart`, `Tick` | the rest of the world |

Times are ticks: a cache entry counts what is left of it, a row its age.
Handlers do not await between reading and using the session, so each is one
step. `StickyContext` is the abstract specification of the session layer
(ADR-0029): a key has a pin and a memory of what it was answered; `McpServer`
implements it with the row as pin, the cache of the process as memory, and a
database that is healthy when a checkout would succeed. Left out: the outcome of
the rate limit (any request may be refused), the pinned profile and the context
"unknown".

### `SpecParsers`, `SpecLayer`, `Parsers`, `GraphWriter`, `McpTools`

One specification in five layers: what the files say, what the parsers make of
them, what the writers make of that in the graph, and what the tools answer.

| Model | Code |
|---|---|
| `SpecParsers` | the allow-listed files of the framework in the two layouts (`openerp`/`odoo`, whole or split into `odoo/orm`), deprecation marks, curated tools, the three sources of lint rules, commands and options with their curated files; merging and de-duplication |
| `SpecLayer` | `index_core` as phases, symbol batches and the two lifecycle passes as transactions, kills between any two; `compute_diff`; the four tools on it |
| `Parsers` | Python of both eras (AST, and the text fallback for Odoo 8 and 9), calls of deprecated symbols with their filter, views, templates, JavaScript of three eras, stylesheets, manifests |
| `GraphWriter` | `_write_parse_result`, `_write_view_parse_result`, `_write_js_graph_result`, `write_stylesheets` node by node and edge by edge, with placeholders; both collections; `delete_modules_scoped`; runs that write layer by layer in the order of `topological_sort`, and are killed; checkouts that change |
| `McpTools` | resolve, list, describe, impact, validate, override point, deprecated usage, the routers and the pager, as functions of the graph; a tool reads between two transactions |

Files are records of what the parsers look at; names are strings or sequences of
parts, never text. At the end of `Parsers` and `SpecParsers` the same files are
read a second time without the parsers (`Said`, `Definitions`, `RulesOf`,
`FlagsOf`): the properties compare the tools' answers with that reading.
Auxiliary variables record the content each layer of a module was last written
with (`last`), whether all that was ever written of it is that content (`pure`),
what was in the graph before it was written (`seen`), views extended before they
existed (`overtaken`), and versions of the framework by their last complete run,
with those complete by then (`completed`), or compared with a half-written one
(`tainted`).

Left out: the list of profiles of a node, the `order` of INHERITS edges,
OF_COMMAND edges, the `SpecMetadata` banner, the limit of 20 rows of the
deprecated usage, the cross-version diff of methods, `find_examples`,
`suggest_pattern` and the style override, a module directory that occurs twice,
manifests of a foreign version, forward `@import`s, kinds and signatures of
symbols, a second `index_core` of a version whose files have changed (the sources
of a version are constants), and writes between two pages of a list or between
the queries of one answer, which is one read of the graph. External ids are
unique across modules in the instance.

### Modules

| File | Role |
|---|---|
| `IncrementalIndexer.tla` | the specification, its properties, and the mutants that show each property can fail |
| `MCIncrementalIndexer.tla` | constants for TLC |
| `IncrementalIndexerProofs.tla` | type correctness, mutual exclusion, the invariant of a worker; a full reindex mirrors HEAD; pulled checkouts: what will be skipped is indexed and embedded, `head_sha` only advances; undisturbed runs on any history; dependents are revisited |
| `JobLifecycle.tla`, `MCJobLifecycle.tla`, `JobLifecycleProofs.tla` | jobs: specification, constants for TLC, theorems |
| `PatternSeeding.tla`, `MCPatternSeeding.tla`, `PatternSeedingProofs.tla` | the pattern catalogue: the same |
| `RepositoryAdmin.tla`, `MCRepositoryAdmin.tla`, `RepositoryAdminProofs.tla` | profiles, repositories, cloners, deletion: the same |
| `McpServer.tla`, `StickyContext.tla`, `McpServerProofs.tla` | the server process, what its session layer promises, and the theorems about both |
| `SpecParsers.tla`, `SpecLayer.tla`, `SpecLayerProofs.tla` | the framework's own API, and the theorems about what the layer records and answers |
| `Parsers.tla`, `GraphWriter.tla`, `McpTools.tla`, `MCMcpTools.tla` | the code graph over them and the tools; a small Odoo for TLC |
| `GraphWriterProofs.tla`, `McpToolsProofs.tla` | the theorems about the graph that is written, and about what the tools answer from it |

`SpecParsers` is extended by `SpecLayer`, this and `Parsers` by `GraphWriter`,
and that by `McpTools`, which composes `index_core` and the runs of all
repositories into one next-state relation.

Each specification also holds mutants: variants of its definitions with a
plausible slip, marked in comments, which show that a property can fail.

## 3. Properties

Of `IncrementalIndexer`:

- `TypeOK`: the one type invariant.
- `OneWorkerPerRepo`: no two processes work on one repository.
- `UnchangedIsIndexed`, `UnchangedIsEmbedded`: a module that the next run will
  not look at (its content at `head_sha` is that of HEAD, and `head_sha` is an
  ancestor of HEAD) is in the graph, in the vector table, with that content.
  This is what `head_sha` means (ADR-0007 D1 and D3). The second speaks of
  modules that give a chunk: one that has lost its last chunk keeps its old rows
  (section 5).
- `UndisturbedIsIndexed`: the same under rewritten history and reverts, as long
  as no run has failed.
- `HeadShaNeverGoesBack`: an action property; `head_sha` moves to a descendant
  or to NULL (ADR-0007 D3).
- `FullReindexMirrorsHead`: the reset button (ADR-0007 D4 and D5).
- `DependentsAreRevisited`: when a module was resolved against an old content of
  a dependency in another repository, something will make the next runs look at
  it again.
- `Converges`, `LockIsReleased`: liveness.

Of `JobLifecycle`:

- `TypeOK`, with the fact that a running row carries a pid.
- `VerdictsAreTrue`: an action property; whoever turns a job into an error, its
  process has raised or exited. Sweep and reset act on rows read earlier.
- `EndedStaysEnded`: an action property; done and error are not left again.
- `SweepMarksTheDead`: once the web process serves, no job is running that was
  dead when it started.
- `SuccessIsReported`: exit status 0 leaves the job done. Violated: finding 3.

Of `PatternSeeding`:

- `TypeOK`, with the fact that a process without an embedder never comes to the
  vector table.
- `GraphIsUpToDate`, `VectorsAreUpToDate`: when the next seeding would skip a
  store, that store holds the file. The graph may hold more (MERGE never
  deletes), the vector table may not.
- `Converges`: both stores end up with the file.

Of `RepositoryAdmin`:

- `TypeOK`.
- `HierarchyIsSound`: parents exist, have the version of their children, and
  form no cycle, on which the recursive queries would not end.
- `DeletedIsGone`: what is in the graph and the vector table belongs, by
  directory name and version, to a repository there is or to the deletion in
  progress. Excepted is what is `left` under such a name: by a failing step of a
  deletion; by a deletion from the shell; by an edit of a row an indexer has read
  (its path, or the name or version of its profile); by a deletion of a row that
  an indexer has read and not yet locked; by a write to a name whose deletion is
  in progress; and by a GC, which deletes nodes and no embeddings.
- `IndexedIsInGraph`: a `head_sha` means that the modules are there and carry
  the name of the profile, whatever is collected or deleted elsewhere. Excepted
  are repositories that have `moved` (edited after an indexer had read them) and
  those that were `overrun`: another repository of the same version had a module
  of theirs written, or a GC or a deletion came over their directory name, or
  they were indexed from an unfinished checkout. `Overrun` says so of the moment
  at which it happens; two repositories that merely look alike are not excepted.
- `ClonedIsThere`, `PendingIsAttended`: what `clone_status` says of the disk and
  of the processes, unless an administrator has named the directory (`byHand`: a
  PATCH of `local_path`, or a `file://` URL) since a cloner last saved it, and
  unless the cloner was killed (`abandoned`).
- `CheckoutsAreKept`: an action property; no cloner writes into a finished
  checkout.

Of `McpServer`:

- `TypeOK`, with what connections have to do with the pool and the database.
- `RevokedKeysFade`: an action property; a deactivated key is not admitted later
  than one cache lifetime and one verification after the deactivation, although
  the process that deactivates it cannot clear this process's cache.
- `ResourcesFollowTheContext`: a rendered resource is for the version the caller
  named, or that its own context stands for, and not too old.
- `Recovers`: liveness; a server that started without PostgreSQL gets its pool.
- `StickyPromise`: the session layer implements `StickyContext`.

Of the knowledge graph (`SpecLayer`, `McpTools`):

- `TypeOK`.
- `LifecycleIsExact`: nothing is recorded as added, removed, deprecated or
  replaced that was not; and all that was, when the lower version was complete
  first.
- `CoreIsAnswered`: the four tools of the framework's API answer as the files
  read.
- `AnswersMatchSources`: every class, field, method, view, component, patch and
  stylesheet of a written module is found; and nothing else, as long as the
  module was written with one content.
- `InheritanceIsShown`: a class shows the parents indexed before it, and what it
  inherits through three steps is known to the validators.
- `BlastRadiusIsComplete`: `impact_analysis` misses nothing indexed after what
  it depends on.
- `BaseViewIsFound`: a view extension is tied to its base, if neither of the two
  was extended before it was there.
- `UsageIsExact`: deprecated usage is reported exactly, for modules indexed
  after the spec layer.
- `PagesAreComplete`: following the pager of a list that does not change shows
  as many rows as there are, and once each row that ORDER BY tells from the
  others, in whatever order each page puts rows of equal keys. Such are the
  members of one name of two modules whose nodes were collected (`Twins`): those
  may come twice or not at all. Of the views and templates of a module every
  external id is shown.

`MCMcpTools` assumes `SourcesAreFit` of its sources, which `TLC` evaluates once:
the parsers make of the files what these say. The theorems about the graph
assume it too (section 6), so it compares the parsers with a plain reading of
the sources apart from the writer and the tools.

## 4. Runs

| Run | Instance | Question |
|---|---|---|
| `IndexerFresh` | 1 repository, 2 modules, 2 processes, 3 commits pulled at any time, the second of which leaves a module without chunks, incremental and `--full --gc` runs, 2 faults in any phase, failing rev-parse and merge-base | Is what will be skipped in both stores? Does `head_sha` only advance? Does the lock exclude? |
| `IndexerReset` | 1 repository, 2 modules, 1 process, 4 commits pulled, rewritten and reverted between runs, 1 fault between the writes of the two layers, failing merge-base | Does a full reindex mirror HEAD after anything? Without faults, is nothing skipped wrongly? |
| `IndexerLive` | 2 repositories of 2 profiles, the second depending on the first, one process after the other with a thread pool, 2 commits each, 1 fault, a lock that may be lost, the liveness specification | Do changes reach dependents? Is everything indexed in the end and every lock released? |
| `FindDiffError` | git diff may fail | finding 1 |
| `FindPropagationRace` | the two profiles indexed by two processes | finding 2 |
| `JobsSwept` | 3 jobs of any of 3 subcommands, 2 process numbers, all faults | Is a live job ever condemned, a dead one missed, an ended one revived? |
| `FindJobNeverDone` | 1 `index-repo` job, no fault | finding 3 |
| `SeedingGated` | 2 processes, 2 patterns, 3 versions of the file (a change, a removal, a return), seedings with and without embedder and with `--force`, 1 failure, one file version at a time, the liveness specification | Do the sentinels ever lie? Do both stores converge? |
| `FindFilteredSeed` | 1 process, seedings with and without `--version` | finding 4 |
| `RepositoryAdmin` | 2 profiles, 2 repositories, 3 sources of which two share the directory and module name, 2 cloners, 1 indexer, 3 requests or commands after an empty registry or two registered profiles with a checkout each, 1 fault | Do rows, disk, processes and stores keep agreeing? |
| `McpServer` | 1 key, 2 requests, 2 versions, lifetimes of 1 and 2 ticks, a pool of 1 connection, 2 outside events | Do caches age as they should, does the server recover, does the session layer keep its promise? |
| `KnowledgeGraph` | 3 modules of 2 repositories, 2 versions of the framework, 4 operations of which overlaps count twice, 1 change of a checkout | Do the tools answer what the sources say, in whatever order things are indexed, killed, changed and deleted? |

**Bounds.** `MaxCommit` bounds the commits of a repository. Three let a run read
one commit while the next two arrive, which is what it takes for `head_sha`,
`current_head` and the parsed content to be three different commits; four are
needed for rewritten history: an ancestor, a recorded commit, the commit that
replaces it and one that restores the first. Two modules are needed for a run to
be interrupted between modules, and for a diff that selects one of them. Two
faults give a failed run followed by a killed one. Two processes are enough for
contention, since a lock has one holder. Three jobs on two numbers make a number
change hands while the sweep judges a third row; the faults of jobs are not
counted. Three versions of the pattern file let a seeding hash one, load the
next and be followed by a third; `MaxFaults = 1` breaks off one seeding between
a write and its sentinel. In `RepositoryAdmin` three requests are what it takes
to register a repository and to clone it or to index it, or, when two are
registered, to index both, or one twice, and to interfere; `Begin` has both
situations, and a `file://` URL whose directory is a checkout or is none. The
second profile and repository are there so that ids, names and modules can be
mistaken for each other: two sources share a directory name and a module, and a
third shares a module with the larger of them; two of them are registered under
one version or two. One indexer, because the lock makes others wait; two cloners,
because nothing makes those wait. In `McpServer` `MaxEvents = 2`
gives an outage and its end or an outage and a revocation, `MaxLag = 1` lets a
verdict arrive after the state it was read from has changed, and one connection
with two requests exhausts the pool. The pin lives one tick and the cache two,
the reverse of the code's 24 hours and 60 seconds, so that a cache that outlives
the row is seen; lifetimes are constants of the theorems. `MaxOps = 4` of
`KnowledgeGraph` allows four operations one after the other (index, change,
index again, delete), or two that overlap and one more; an operation is a run, a
kill, a pull or a deletion. The three modules stand in a chain and a triangle: a
base, a layer that adds a mixin, and one that uses both from another repository.
The theorems remove these bounds for the properties they state.

**Symmetry.** Processes and modules are interchangeable in the two runs with one
repository, and process numbers in `JobsSwept`, which use it only for safety.
Profiles, repositories and cloners are interchangeable in `RepositoryAdmin`. The
other runs use none.

**Deadlock** is checked in every run but two: with commits used up and no faults
left, a process can still begin another run or another seeding, the web process
can stop and start, and time goes on. In `RepositoryAdmin` and `KnowledgeGraph`
the system stops when the requests or operations are used up and what they
started has ended.

**Fairness.** `FairSpec` assumes that a started run goes on (weak fairness of a
worker's steps and of `End`: it is a running process) and strong fairness of
starting a run of each profile: `docs/deploy.md` installs an hourly cron entry
`index-repo --all`, so a profile's run is started again and again whatever
happened to the ones before, and gets the lock if the lock is free then. Strong,
not weak, because the lock may be taken and given back in between. Nothing is
assumed of commits, faults or losses: they are finite in number.

`FairSpec` of `PatternSeeding` assumes in the same way that a seeding that was
started goes on, and strong fairness of `Hourly`, the seeding at the end of the
hourly run. It stands for runs in which no repository failed: `index_profile`
raises before its seeding otherwise (`src/indexer/pipeline.py:611`, `:691`).

`Spec` of `McpServer` assumes weak fairness of `Retry`: asyncio wakes a task up
whose sleep is over. It is not assumed that PostgreSQL returns, nor that anybody
calls the health probe.

## 5. Findings

1. `FindDiffError`: `compute_changed_module_paths` returns the empty set when
   git diff fails or runs into its time limit (`src/indexer/incremental.py:86`).
   `_index_repo` reads that as "no module dirs changed" and advances `head_sha`
   over modules that were never indexed, and no later incremental run looks at
   them. ADR-0007 says that `head_sha` is "the last successful run wrote up to
   this commit".
2. `FindPropagationRace`: when two profiles are indexed at the same time (an
   option of the cron entry, `--profile-workers 2`), `reset_head_sha` of a
   dependent repository can come while its worker is past reading the graph; the
   worker then overwrites the NULL with its own `head_sha`, and the dependent is
   not revisited. `docs/deploy.md:752` calls the option safe because of the
   per-profile lock.

3. `FindJobNeverDone`: `index-repo` reports through `job_registry.update_job`, a
   function that the module no longer has (`src/indexer/__main__.py:271`); the
   `AttributeError` is swallowed, and a job that succeeded stays queued. The
   test of these calls patches the missing function in
   (`tests/test_indexer_job_id.py:39`: "Successful run: update_job called twice
   (running → done).").
4. `FindFilteredSeed`: `seed-patterns --version 17.0` replaces all pattern rows
   of the vector table by those of 17.0 and then sets the sentinels to the
   sha256 of the whole file (`src/indexer/seed_patterns.py:550`), so that every
   later seeding skips and the other patterns cannot be found. ADR-0007:99 has
   the sentinel "set only after pgvector embed+write succeeds" so that skipping
   is safe.

Further states in which a stronger property than the ones above does not hold,
all but the last reproducible by changing a run as named:

- a run that fails after some transactions, then a revert: the diff is empty and
  the graph keeps the content of the failed run (`IndexerReset` with
  `UnchangedIsIndexed` instead of `UndisturbedIsIndexed`);
- a failure between `Advance` and `Propagate` loses the propagation
  (`IndexerLive` with `FaultPhases = {"propagate"}`, `MaxFaults = 1`);
- a lost session lets two processes work on a repository (`IndexerFresh` with
  `Parallel` and `SessionDrops`);
- a run without embedder advances `head_sha` for a later run that has one
  (`IndexerFresh` with a kind whose `embed` is FALSE);
- a commit that only deletes a module ends an incremental `--gc` run before the
  GC (`NothingChanged` does not go through `CollectStale`);
- a job that finished between the two steps of a reset goes from done to error:
  its process is gone, so `VerdictsAreTrue` holds, but `SuccessIsReported` does
  not (`FindJobNeverDone` with `Subcommands = {"seed-patterns"}`);
- an `index-core` job exits with a usage error and stays queued
  (`RejectsArguments`), as do jobs whose process dies before its first report:
  the sweep looks only at rows with a pid;
- two seedings of different file versions that overlap (`SeedingGated` with
  `MixedVersions = TRUE`): the older may write last;
- a dependency indexed after its dependents resets nobody (`Propagate` is for
  incremental runs only), which `src/indexer/pipeline.py:552` documents;
- a commit that leaves a module without chunks: `write_module_embeddings` returns
  before its DELETE (`src/indexer/writer_pgvector.py:242`), the old rows stay and
  `head_sha` advances (`IndexerFresh` with `UnchangedIsEmbedded` without
  `HasChunks`);
- members of two collected modules tie in the lists of fields, methods and
  patches (`src/mcp/server.py:2506`), whose pages may repeat or skip them. This
  one is read off the queries and is in no run: `KnowledgeGraph` collects at most
  one module in its four operations, and it takes two. `PagesAreAlwaysComplete`
  is proved for any number of them.

In `RepositoryAdmin` the properties name what they except, and each exception is
something the code does (take it out of the property, and the run finds it):

- `overrun`: two repositories of one version with a module in common write one
  Module node, and deleting either, or the GC of either, removes it although the
  other still has a `head_sha`; with a directory name in common `DeletesNodes`
  matches both. Two sources with one slug in one profile also share the clone
  directory;
- `overrun`: a repository indexed while git is still at work, or after a clone
  that was killed at its time limit, has a `head_sha` and some of its modules;
  later runs skip it;
- `left`: an indexer has read its rows and not yet its lock; the guard of the
  deletion finds the lock free, rows and nodes are deleted, and then the indexer
  writes the nodes of the row that is gone. So does one that reads a row that the
  shell has inserted while a deletion of the same directory name is in progress,
  and that deletion then takes the new nodes (`overrun`);
- `left`, `moved`: an edit of the version after `reset-embed`, whose NULL in
  `head_sha` makes the guard think that nothing was indexed, leaves the nodes
  under the old version; so does a PATCH of `local_path`, or a clone to another
  directory after a new URL, whose old directory no deletion looks for;
- `byHand`: after a PATCH of `local_path` the row says `cloned` over any
  directory; `clone-all` and `clone-profile` mark a `file://` repository cloned
  because its directory is there (`src/web_ui/routes/repos.py:720`), with or
  without a checkout in it.

What the model shows, and no property calls wrong because no document promises
otherwise:

- `clone-all` starts a second cloner for a repository that is pending; it finds
  the directory taken and may write `error` over a good clone. A clone killed at
  its time limit leaves a directory that makes every later attempt fail;
- deletion from the command line checks no lock and cleans up no store; a preset
  that meets a known URL leaves the profile with the repositories before it;
- after an outage "no context" is cached for up to `SessionTTL` although the row
  has a pin; the profile that `set_active_profile` stores is read by no tool,
  although its answer says that later calls will filter by it
  (`src/mcp/server.py:4868`);
- deactivating a key clears the cache of the web process, not that of the
  server;
- a placeholder view stays unresolved when its base arrives
  (`src/indexer/writer_neo4j.py:274`), and inherited models likewise;
- what a module no longer has stays in the graph: neither a new run nor the GC
  removes a field or a patch, and the GC of a module leaves its members;
- a class decorated `@deprecated("...")` is stable while a function is
  deprecated (`src/indexer/parser_odoo_core.py:241`); a curated rule with the id
  and kind of an extracted one is dropped with the symbol it names; ruff and
  eslint rules carry no message and so never fire; `noqa` cannot name an id with
  a hyphen (`src/mcp/server.py:1590`); uses of symbols outside
  `_DEPRECATED_API_SYMBOLS` are never recorded; no run writes a replacement edge
  between flags;
- `_inherit` given as a tuple is dropped (`src/indexer/parser_python.py:392`); a
  file of Odoo 8 or 9 that parses as Python 3 loses its comodels (`:445`); a
  file with a syntax error has no models (`:1032`); excluded directory names are
  looked for in the whole absolute path (`:1046`); an unqualified `inherit_id`
  names no module (`src/indexer/parser_xml.py:41`); a CSS `@import` never
  matches the path of a stylesheet (`src/indexer/parser_css.py:320`).

Two sentences of ADR-0016 are not what the code does, outside of what is
modelled (the profiles of a node): line 71 has a query by profile return nodes
of the ancestor profiles, but the filter is `$profile_name IN m.profile`
(`src/mcp/server.py:364`); line 138 has each run overwrite the list, but the
writer appends to it (`src/indexer/writer_neo4j.py:43`).

## 6. Proofs

All theorems are about the specification `Spec` with any finite or infinite sets
(of processes, profiles, repositories and modules; jobs and process numbers;
patterns; keys, requests and versions; sources and symbols), any bound on
commits, file versions, requests, events and faults, any lifetimes, and the
assumptions on the constants that the modules state (`ConstantsAssumption`,
`ServerAssumption`, and those of `SpecParsers`, `GraphWriter` and `McpTools`).
`TLC` checks that each instance satisfies them. Besides what is a type, they say
that a non-empty set of versions of the server has a least element, that no
profile, repository, indexer or module is the value `None`, that the lists of a
framework's symbols are sequences, that what a parser returns for a module are
lists of records with finite sets of members, whose dependencies are modules
(`ResultsAssumption`), and that all names have a place in the alphabetical
order (`ToolsAssumption`).

Hypotheses of single theorems are named formulas on the constants. Each is one
whose absence lets `TLC` find the property violated: they say on what the
property really rests. Those about the sources of the graph are in `SpecLayer`
and `McpTools`; the sources of `KnowledgeGraph` satisfy them all, which `TLC`
evaluates before the run (`MCSourcesAreFit`).

### `IncrementalIndexer`

| Theorem | Statement | Assumes |
|---|---|---|
| `TypeCorrect` | `Spec => []TypeOK` | |
| `MutualExclusion` | `Spec => []OneWorkerPerRepo` | sessions last |
| `FullReindexMirrors` | `Spec => []FullReindexMirrorsHead` | sessions last |
| `UnchangedIsAlwaysIndexed` | `Spec => []UnchangedIsIndexed` | sessions last, `PulledOnly` |
| `HeadShaAdvances` | `Spec => HeadShaNeverGoesBack` | the same |
| `UnchangedIsAlwaysEmbedded` | `Spec => []UnchangedIsEmbedded` | the same, and `AllEmbed` |
| `UndisturbedIsAlwaysIndexed` | `Spec => []UndisturbedIsIndexed` | `StillOnly` |
| `DependentsAreAlwaysRevisited` | `Spec => []DependentsAreRevisited` | `Sequential`, `NeverInFull`, `OneDeep` |

Sessions last is `~ SessionDrops`. `PulledOnly`: checkouts are only pulled, and
git diff answers. `AllEmbed`: no run is started with `--no-embed`. `StillOnly`:
checkouts move between runs only, in any way, and the git calls that a run rests
on answer. `Sequential`: one process, which takes the repositories of a profile
in turn. `NeverInFull`: checkouts are only pulled, rev-parse, merge-base and
diff answer, and there is no `--full`. `OneDeep`: no repository both depends on
another and is depended on.

**The argument.** `TypeOK` is inductive only with `RunsAndWorkers`: a worker's
repository is one that its process has not finished. Mutual exclusion follows
from that and `RunsHoldTheirLock`.

`WorkerInv` says of every worker between reading HEAD and its end what it knows:
`ReadSince`, that each content it parsed, and each absence it saw, is that of
some commit not older than its `current_head` and than `head_sha`; what of its
selection is written; and that, unless the diff filtered them, its selection is
all that was on disk. It needs mutual exclusion, since a second worker on the
repository would overwrite both. When HEAD is still `current_head`, "some commit
since" is HEAD itself, which gives `FullReindexMirrors`: no assumption on
history is needed, because the numbering of commits only has to grow.

`PullInv` adds what pulls guarantee: `Linear`, that two commits that agree on a
module agree with all commits between them (`Between`), and `IndexedSince(r,
s)`, that what commit `s` and HEAD agree on is in the graph, for `s` the
recorded `head_sha` and for the base of every diff in progress. A write of a
content read since `s` keeps `IndexedSince(r, s)`: if `s` and HEAD agree, so
does the commit it was read from. The same argument covers the GC (a module
absent since `s` is not one they agree on) and the advance of `head_sha` to
`current_head`, with the unselected modules covered by the base of the diff. A
revert breaks `Linear`, which is where the theorem stops and where the
counterexample of section 5 starts. `EmbedInv` repeats it for the vector table,
which a run writes before the graph, and for the contents that give a chunk: only
those replace the rows of their module. A run without an embedder would break it,
and does (the hazard of `pipeline.py:196`).

`UndisturbedInv` does without `Linear`. As long as nothing has failed, a
repository has, between its runs, its recorded commit in the graph, module by
module; during a run only what the recorded commit and HEAD agree on is certain,
until the run writes `head_sha`. So checkouts may be amended or reverted, as
long as they stand still during a run and no run fails.

`RevisitInv` follows a change of a module from the diff that finds it to the
modules of other repositories that depend on it. `InOrder` says which worker can
be where, which is what `Sequential` gives. A run starts from what is stored
(`FromStored`). A dependent just written was resolved against what its
dependency is now; a module whose content changed is, until the run ends, among
those that are still to be propagated; and what a propagation resets is a
repository that nobody depends on. The last point is `OneDeep`: a repository
that was itself reset is reindexed in full, and a full reindex does not
propagate (`pipeline.py:438`), so that the third repository of a chain is not
revisited. The hazard of `pipeline.py:425` describes it. Two workers lose a change as
section 5 shows; a full run, or one whose git calls fail, propagates nothing.

### `JobLifecycle`

| Theorem | Statement |
|---|---|
| `TypeCorrect` | `Spec => []TypeOK` |
| `NoLiveJobCondemned` | `Spec => VerdictsAreTrue` |
| `EndedJobsStayEnded` | `Spec => EndedStaysEnded` |
| `TheDeadAreMarked` | `Spec => []SweepMarksTheDead` |

The inductive invariant adds to the types that a pid in a row, and a pid the web
process has read, is that of the job's own process, which has reported
(`RowsAreOwn`, `ReadsAreOwn`). A pid once reported never changes, so a verdict
on a row read long ago is still about the right process, and a process that is
not alive stays dead; reused numbers err on the side of letting a dead job run.
`EndedStaysEnded` follows because only a process that has not reported can
report that it runs, and its row is queued. `SweepInv` says where a job that was
dead at the start still is while the sweep lasts: among the rows that it has
read and not yet come to, unless its number was given away or the sweep failed.

### `PatternSeeding`

| Theorem | Statement | Assumes |
|---|---|---|
| `TypeCorrect` | `Spec => []TypeOK` | no `--version`, one file version at a time |
| `GraphSentinelIsTrue` | `Spec => []GraphIsUpToDate` | the same |
| `VectorSentinelIsTrue` | `Spec => []VectorsAreUpToDate` | the same |

The second assumption (`~ MixedVersions`) is about operations: processes that
read an older release have ended before one starts that reads a newer. A release
may still come at any moment of a seeding, several seedings may overlap, and any
of them may fail. `OneVersion` says that the active processes share a version `v
<= file` and that no sentinel is newer than `v`: so while old processes are
active, no sentinel can match the file, and what they write cannot matter.
`CurrentWork` says that if `v = file`, what was loaded is the file and what was
written is still there, across transactions that replace the same rows
(`crossed`). Both hold only together with the two properties, which `IInv`
therefore contains.

### `RepositoryAdmin`

| Theorem | Statement |
|---|---|
| `HierarchyIsAlwaysSound` | `Spec => []HierarchyIsSound` |
| `TypeCorrect` | `Spec => []TypeOK` |
| `ClonedRepositoriesAreThere` | `Spec => []ClonedIsThere` |
| `PendingRepositoriesAreAttended` | `Spec => []PendingIsAttended` |
| `CheckoutsAreNeverOverwritten` | `Spec => CheckoutsAreKept` |
| `IndexedIsAlwaysInGraph` | `Spec => []IndexedIsInGraph` |
| `DeletedIsAlwaysGone` | `Spec => []DeletedIsGone` |

They need no hypothesis: which directories administrators name, what sources
have in common, and when commands of the shell come, is open. What the code then
loses or leaves behind is excepted in the properties, step by step (section 3).

Acyclicity is stated without recursion: every non-empty set of live profiles has
a member whose parent is not in it. A new profile has no children, so a set that
contains it either is only it or loses it. When a parent is set, the profile is
not among the ancestors of the new parent: in a set without a way out that
contains the profile, the ancestors of the new parent would form such a set
already before the step. A deleted profile has no children, and an edited
version meets that of its parent and of all its descendants.

The inductive invariant (`AdminInv`) is the types, the hierarchy, and `CloneInv`
of the cloners. A directory in which git is at work is unfinished and has one
writer, because the cloner that finds it empty is the one that fills it; from
its last git step to the end of a cloner, its checkout is complete. So whatever
path is saved when, and whoever else was told to clone the same repository, the
row names a complete checkout by the time it says so; a path that an
administrator writes in between makes the row one of `byHand`, until the next
cloner saves its own. A pending row has a cloner that is between marking it and
writing another status.

The last two theorems rest on `OwnInv`, which is `OrderInv` with `StoreInv`.
`OrderInv` says what an indexer's notes are worth. `Accounted`: the name and
version it will write under are still those of the row it has read, or are in
`left`; `InPlace`: unless the row has `moved`, so are directory, profile and
chain. A deleted row is no exception (`Abandons`): under the lock the web
application refuses to delete, and whoever waits for the lock makes the deletion
leave its name behind. `Overrun \subseteq overrun` is part of it, so that what
is said of a repository that is not in `overrun` may assume that nobody is about
to take anything of it.

`StoreInv` has two halves. `IndexedIsStored` and `WrittenIsStored`: a repository
that is `Settled` (a row, not moved, not overrun) with a `head_sha`, or whose
`head_sha` an indexer is about to write, is `Stored`: its directory holds that
commit and every module of it has a node of this directory name and profile.
`BearsStays` shows that a step that takes such a node, or gives it another
directory, is a write, a GC or a deletion in whose reach the repository has been
since that step was prepared, and so is in `Overrun`; `StoredStays` lifts this to
repositories, whose directory is kept by `CheckoutsAreKept`. `NodesOwned`: a node
belongs to a row that was read, to the deletion in progress until it has deleted
its nodes, or to what was left behind; `VectorsOwned`: an embedding without a
node awaits the write of its indexer or is fading, which is to say collected for
deletion or left behind. The last needs `DoomedFade`: every node that is about to
be deleted has been collected, or was written meanwhile and its name left.

### `McpServer`

| Theorem | Statement |
|---|---|
| `TypeCorrect` | `Spec => []TypeOK` |
| `AlwaysFadeInv` | `Spec => []FadeInv` |
| `RevokedKeysAlwaysFade` | `Spec => RevokedKeysFade` |
| `ResourcesAlwaysFollow` | `Spec => []ResourcesFollowTheContext` |
| `SessionLayerIsSticky` | `Spec => StickyPromise`: `McpServer` implements `StickyContext` |

`FadeInv` says that the time a cached verdict has left and the time since the
key was revoked add up to at most `KeyTTL + MaxLag`, and that a positive verdict
on its way is not older than its lag. `Tick` moves one unit from one summand to
the other; a verdict that arrives starts with `KeyTTL` left, and its lag is what
has passed since it was read. The refinement maps the initial state to one and
every step to a step of `StickyContext` or a stutter, from the types of sessions
and requests; it is proved action by action, reads separately for a cached
answer, the row, and the degraded read.

`ServerInv` adds to `FadeInv` the types of sessions, of the cache of resources
and of connections, with what relates them: an entry of the cache is filed under
the version it was rendered for (`ResourcesOK`), and whoever has a connection
has it from a pool there is (`ConnectionsOK`, `OutsideOK`). The last two make
`TypeOK`; the first gives `ResourcesFollowTheContext`, with the version that a
request resolved before it came to the cache.

### `SpecLayer`

| Theorem | Statement | Assumes |
|---|---|---|
| `LifecycleIsAlwaysSound` | `Spec => []LifecycleIsSound` | `Unambiguous` |
| `LifecycleIsAlwaysExact` | `Spec => []LifecycleIsExact` | the same, `NotEmpty`, one run at a time |
| `LayerIsAlwaysWhole` | `Spec => []LayerIsWhole` | `Unambiguous` |
| `CoreIsAlwaysAnswered` | `Spec => []CoreIsAnswered` | the same, `Qualified`, `Parsed(v)` of every version |

`LifecycleIsSound` is the first half of `LifecycleIsExact`: what is recorded as
new, removed, deprecated or replaced is so in the sources. It holds in whatever
order the versions are indexed, several at a time, and wherever a run is killed.
`SoundInv` says of a run that what it has written are symbols of its version,
and that a difference it has computed is one to a version that it was computed
from, whatever has come in between since.

That all that was added or removed is recorded (`ExactInv`) needs more: a run
compares its version with the one that is still right below it when the run
ends, for only one run is under way; two versions cannot both be right above the
same one, so nothing is overwritten; and a version indexed later between two
others makes `After` false, with which the property is stated. `Unambiguous`: a
name that a version lists twice has one status, or a rerun shows the first one
between two of its batches. `NotEmpty`: every version has a symbol, or the next
one finds it missing and overwrites `removed_in`. `~ CoreOverlap`: of two
overlapping runs, each compares with a version that may no longer be the one
below it.

`LayerIsWhole` says what a completed version leaves in the graph: of each of its
tables every entry, as listed, each rule linked to the symbol it is about, and
nothing else, although a run may be killed after any transaction and another
version may be written meanwhile. `LayerInv` follows a run through its phases:
everything in the graph is an entry of a table (`SidesOK`), and a run that is
past a phase, or a version that completed once, has all that the phase writes
(`StagesOK`); no step takes any of it back, so a second run that is killed
leaves what the first one wrote. That a rule finds the symbol to link to needs
`SoundInv`: every batch of symbols is written before the first rule.

`CoreIsAnswered` has two parts. What the layer and the tools contribute is
proved: from `LayerIsWhole`, the lookup by a qualified name, the comparison of
two versions, the rules that fire on a line and the list of flags give what the
tables say. What the parsers contribute is the hypothesis `Parsed`: the tables
say what the files say, which is a matter of folds over lists of files and
entries. `Qualified`: no qualified name ends with another one. Both hold of the
sources of the instance that `KnowledgeGraph` runs with, and the run checks the
conclusion there with the parsers as they are.

### `McpTools`

| Theorem | Statement | Assumes |
|---|---|---|
| `TypesAreAlwaysCorrect` | `Spec => []TypeOK` | `Unambiguous` |
| `UsageIsAlwaysExact` | `Spec => []UsageIsExact` | the same, `ReadAsWritten` |
| `BlastRadiusIsAlwaysComplete` | `Spec => []BlastRadiusIsComplete` | the same, `OwnIds` |
| `BaseViewIsAlwaysFound` | `Spec => []BaseViewIsFound` | the same |
| `AnswersAlwaysMatch` | `Spec => []AnswersMatchSources` | the same, `SheetsAsWritten` |
| `InheritanceIsAlwaysShown` | `Spec => []InheritanceIsShown` | as `BlastRadiusIsAlwaysComplete` |
| `PagesAreAlwaysComplete` | `Spec => []PagesAreComplete` | the same, `OneBase` |

They hold for any number of repositories, modules and contents, runs that are
killed between any two transactions, checkouts that change while a run is at
work, and modules that are deleted or collected meanwhile. `ReadAsWritten`: for
each content, the parsers make of the files what a reading without them says
(`Said` and the operators beside it). This is the part that is a fold over files
and entries; the sources of `KnowledgeGraph` satisfy it, and the run checks
the conclusions there with the parsers as they are. `SheetsAsWritten` says the
same of stylesheets, and that one is listed after those of its module that it
imports: the writer makes an `IMPORTS` edge only to a stylesheet it has written.
`OwnIds`: an external id is not `None`, and no module has one of another module;
Odoo prefixes them with the name of the module. `OneBase`: no template stands
in a module twice with different bases. It is needed: the list of templates has a
row for each base, its total counts templates, and with more rows than that the
pager stops before the last page.

**Folds.** The writers fold over the models, views, components and patches of a
module, and each step is itself a fold over members and parents. `FoldTrace`
turns such a fold into the graphs it goes through, `t[0]` to `t[n]`, each the
last one with one entry put into it; `Induction`, which is well-foundedness of
the naturals for a set of numbers, carries what each step keeps from the first
to the last. What a property relies on therefore has to be a relation between
graphs that is kept entry by entry: nothing is taken away, what is added belongs
to this entry, after `i` entries the first `i` are there. The lists of the tools
are `SortBy` of a set of rows: `KeysSort` and `OrderedIs` say that such a list
has these rows and no others, provided that they are finitely many and their
keys can be compared, which is what `DataOK` is for.

**The moves.** `MovesAre` reduces the next-state relation to a handful of moves
(`GraphMove`): a layer of a module is written; a module's node is written, or
deleted, or collected; a step leaves the code graph alone. Each invariant is
shown for the moves, not for the actions:

- `GraphOK`: edges end at nodes of the graph, of the kind they are for, and
  placeholders are what they say;
- `HistOK`: what the auxiliary variables record is in step with the graph: what
  was `seen` before a layer was written was there, and a stub that was late is
  `overtaken`, by kind and external id;
- `UsesOK`: a use of a symbol stems from a source of the module, or it is not
  pure; the first invariant to combine the code graph with `SoundInv` of the
  framework's API;
- `WrittenOK`: of a written layer of a module everything is in the graph as it
  was last written (`Whereabouts`), and an extension is tied to its base or to a
  stub that is there because the base was late (`StubsLate`);
- `DataOK`: the tables of the graph are finite, and all names in it orderable.

`BlastRadiusIsComplete` then follows from `WrittenOK` of the module that depends
and of the one it depends on: what `impact_analysis` follows are the edges that
the writer found or made at the time, because the other end was `seen`.
`BaseViewIsFound` needs `OwnIds`: a second module with the same external id would
turn the stub of one into the view of another.

`AnswersMatchSources` has two halves. That everything is answered follows from
`WrittenOK` and from what the lists of the tools contain (`LayersListed`,
`FieldsListed`, `PatchesListed`, `CompsListed`); for the stylesheets `SheetsIn`
takes the place of `WrittenOK`, since no deletion takes them away. That nothing
else is answered of a module written with one content needs `ModelsExact` and
`PatchesExact`: every model, field, method and patch of the module in the graph
stems from that content. A placeholder never has the name of a module, which is
why the writes of other modules do not disturb them. A deletion deletes the
nodes of the modules that are indexed, but the history then says of all modules
of the repository that they are no longer written; so the induction needs that
what is written is indexed (`IndexedOK`), and that in turn that a run writes the
views and the JavaScript of a module only while its node is there (`AtWork`):
its own repository is neither collected nor deleted while it runs.

`InheritanceIsShown` climbs. What is within so many steps, and where a dotted path
leads, are folds over a list of numbers, so `FoldTrace` unrolls them too
(`WithinNext`, `ChainFold`): `ThreeSteps` says that the walk of the tool, whose
length the code fixes, reaches what is one, two or three steps away. The edges
are there because `WrittenOK` keeps them from the time at which the parents were
`seen` (`ClassIsNear`); what hangs on the nodes that they lead to is then known
to `lookup_field`, and with it to relations, domains and paths (`LookedUp`).

`PagesAreComplete` says of the recursive pager what it computes. Each page is a
query of its own that may order rows of equal keys in its own way, so the pages
are of keys (`ListKeys`), which every such order has in common. `WalkIs`: when
the total is no less than the rows, `Walk` is the list of keys. Its domain is
`0..Len(keys)` and each page leads to a later start, so the proof is an induction
on what is left, and no function is assumed: that one with the pager's equation
exists is shown first, by the keys after each start (`RowsFrom`, `PageEnds`).
A row whose key no other row has is then seen once (`ListIsSeen`). Which these
are follows from the order: the keys can be compared because nodes are numbered
(`NumbersOK`), modules with a node have places of their own (`EqualKeys`), so
that two members or patches of one key are `Twins` (`MembersDiffer`,
`PatchesDiffer`). For the rows of a module's views,
`ViewsExact` is what `ModelsExact` is for models. For templates there is more to
know, how many rows one has: `EdgesFrom` says that each `INHERITS_VIEW` or
`EXTENDS_TMPL` edge was drawn by a content of the module that its source belongs
to, and by the last one if there was no other, so that a template has no more
bases than its sources give it. A write of another module could only break that
by taking over the node, which `OwnIds` excludes.

Some definitions changed on the way. `NamesIn` had a union that the two parsers
bind differently (`UNION A \cup B`); it is parenthesised now. `ResultsAssumption`
states what was implicit, that lists of members are finite and that no field is
called `None`, and `ToolsAssumption` that the version is a number.
`AnswersMatchSources` claims OWL components only of versions from 14 on, for
which the tool answers, and `InheritanceIsShown` no `@api.depends` on a relation
called `id`, which the tool always refuses. `GraphAssumption` says that `None`,
the absent filter of a list, is no module.

### Only model-checked

- Liveness, and with it `ENABLED`: `Converges` (of `IncrementalIndexer` and of
  `PatternSeeding`), `LockIsReleased`, `Recovers`. The prover has no rules for
  fairness.
- The parsers (`SourcesAreFit`, the hypotheses above): what their folds
  compute for every sequence of entries is an induction over data, out of
  the prover's reach. They are a matter of one instance of sources, chosen so
  that each branch occurs in it.

## 7. Not modelled, and the plan

Worth modelling next: **accounts** (`src/db/auth_registry.py`,
`src/web_ui/login_attempts.py`): sign-in with its sessions and tokens,
throttling, the last administrator. Within one web process the handlers do not
interleave, since they do not await between their statements; several workers
and the command line do. The guard of the last administrator locks the row of
the user it changes (`src/db/auth_registry.py:556`) and counts the others
without locking them, so that it takes two transactions to see what it promises;
a model needs PostgreSQL's READ COMMITTED as begin, read, write and commit
steps. Keys of a deactivated user stay valid: `McpServer` has keys without
owners, as `verify_api_key` has.

Worth proving next: that `MutualExclusion`, `HeadShaAdvances` and the like hold
of the two sides together, in a module that composes `RepositoryAdmin` with
`IncrementalIndexer`.

Not modelled:

- `reembed_stubs_for_profile` and `audit_repo_for_profile`: one-shot commands
  over the same stores; the chunks for embedding and the two tools that search
  them (`find_examples`, `suggest_pattern`), whose answers depend on an
  embedding model;
- the outcome of rate limits, whose counters need windows of time but no
  protocol;
- migrations (`src/db/migrate.py`): one advisory lock and a table of what is
  applied;
- backup, restore and audit: wrappers around external tools;
- configuration, pages, mail, formatting of answers, the front end and the
  deployment files: no state of their own that a step order could break.
