--------------------------- MODULE PatternSeeding ---------------------------
(***************************************************************************)
(* Seeding of the pattern catalogue (indexer/seed_patterns.py): the file   *)
(* patterns.json is written to the graph (PatternExample nodes) and to the *)
(* vector table, and a sentinel per store records the sha256 of the file   *)
(* that was written, so that an unchanged file is not written again.       *)
(*                                                                         *)
(* `run` is called at the end of every index_profile, `main` is the        *)
(* command line and the job of the web UI; several processes may be at it. *)
(* A version of the file is its number in the order of the edits; it       *)
(* stands for the sha256, too.                                             *)
(***************************************************************************)
EXTENDS Naturals, FiniteSets

CONSTANTS
  Patterns,      \* pattern_id
  Text,          \* [1..MaxFile -> [Patterns -> Nat]]: what each version of
                 \* the file says of a pattern, Absent if nothing
  MaxFile,       \* bound on the versions of the file
  VersionOf,     \* [Patterns -> odoo_version_min]
  Procs,
  Kinds,         \* the ways to seed: records [entry, embed, force, filter]
  NoFilter,      \* no --version
  MixedVersions, \* whether a process may start while one that read an older
                 \* version of the file is still at work
  MaxFaults      \* bound on the processes that raise or are killed

Absent == 0
None   == 0      \* no sentinel
Files  == 1..MaxFile
Content == [Patterns -> Nat]

ASSUME ConstantsAssumption ==
  /\ MaxFile \in Nat \ {0}
  /\ MaxFaults \in Nat
  /\ Text \in [Files -> Content]
  /\ Kinds \subseteq [entry : {"run", "main"}, embed : BOOLEAN, force : BOOLEAN,
                      filter : {VersionOf[p] : p \in Patterns} \cup {NoFilter}]
  /\ MixedVersions \in BOOLEAN

VARIABLES
  file,      \* the version of patterns.json on disk
  graph,     \* snippet_text of the PatternExample nodes
  vectors,   \* content of the rows of chunk_type pattern_example
  mark,      \* the sentinels: _SeedMeta {key: patterns_<store>}.sha256
  legacy,    \* the sentinel of old deployments: _SeedMeta {key: patterns}
  w,         \* the processes
  faults

vars == <<file, graph, vectors, mark, legacy, w, faults>>

Stores == {"graph", "vectors"}
Pcs == {"idle", "gate", "gate vectors", "load", "graph", "mark graph", "embed", "commit",
        "mark vectors"}

Nothing == [p \in Patterns |-> Absent]
NoKind  == [entry |-> "none", embed |-> FALSE, force |-> FALSE, filter |-> NoFilter]
NoWork  == [pc |-> "idle", kind |-> NoKind, sha |-> None, content |-> Nothing,
            graphNeeds |-> FALSE, vectorsNeed |-> FALSE, crossed |-> FALSE]

Work ==
  [pc : Pcs, kind : Kinds \cup {NoKind}, sha : Files \cup {None}, content : Content,
   graphNeeds : BOOLEAN, vectorsNeed : BOOLEAN, crossed : BOOLEAN]

Init ==
  /\ file = 1
  /\ legacy \in {None, 1}
  /\ graph = IF legacy = None THEN Nothing ELSE Text[1]
  /\ vectors \in IF legacy = None THEN {Nothing} ELSE {Nothing, Text[1]}
  /\ mark = [s \in Stores |-> None]
  /\ w = [q \in Procs |-> NoWork]
  /\ faults = 0

Active(q) == w[q].pc # "idle"

-----------------------------------------------------------------------------
(* One run of seeding.                                                     *)

Go(q, to) == w' = [w EXCEPT ![q].pc = to]
Stop(q)   == w' = [w EXCEPT ![q] = NoWork]

\* _compute_patterns_sha256 is the first thing done.
Begin(q, kind) ==
  /\ ~ Active(q)
  /\ MixedVersions \/ \A other \in Procs : Active(other) => w[other].sha = file
  /\ w' = [w EXCEPT ![q] =
             [NoWork EXCEPT !.pc = IF kind.force THEN "load" ELSE "gate",
                            !.kind = kind, !.sha = file, !.graphNeeds = kind.force,
                            !.vectorsNeed = kind.force /\ kind.embed]]
  /\ UNCHANGED <<file, graph, vectors, mark, legacy, faults>>

\* The old sentinel counts for the graph as long as there is no new one.
StoredGraphSha == IF mark["graph"] # None THEN mark["graph"] ELSE legacy

\* Mutant: nothing is done when the graph is up to date.
GateOnGraphOnly(q) ==
  /\ w[q].pc = "gate"
  /\ LET needs == StoredGraphSha # w[q].sha
     IN  IF ~ needs
           THEN Stop(q)
           ELSE w' = [w EXCEPT ![q] = [@ EXCEPT
                          !.pc = IF w[q].kind.embed THEN "gate vectors" ELSE "load",
                          !.graphNeeds = needs]]
  /\ UNCHANGED <<file, graph, vectors, mark, legacy, faults>>

Gate(q) ==
  /\ w[q].pc = "gate"
  /\ LET needs == StoredGraphSha # w[q].sha
     IN  IF ~ needs /\ ~ w[q].kind.embed
           THEN Stop(q)
           ELSE w' = [w EXCEPT ![q] = [@ EXCEPT
                          !.pc = IF w[q].kind.embed THEN "gate vectors" ELSE "load",
                          !.graphNeeds = needs]]
  /\ UNCHANGED <<file, graph, vectors, mark, legacy, faults>>

GateVectors(q) ==
  /\ w[q].pc = "gate vectors"
  /\ LET needs == mark["vectors"] # w[q].sha
     IN  IF ~ needs /\ ~ w[q].graphNeeds
           THEN Stop(q)
           ELSE w' = [w EXCEPT ![q] = [@ EXCEPT !.pc = "load", !.vectorsNeed = needs]]
  /\ UNCHANGED <<file, graph, vectors, mark, legacy, faults>>

\* `main` writes both stores once it does anything; `run` what is needed.
\* (Mutant: without an embedder, too.)
WritesGraph(q)   == w[q].kind.entry = "main" \/ w[q].graphNeeds
WritesVectorsAnyway(q) == w[q].kind.entry = "main" \/ w[q].vectorsNeed
WritesVectors(q) == w[q].kind.embed /\ (w[q].kind.entry = "main" \/ w[q].vectorsNeed)

\* _load_patterns reads the file again, and keeps the patterns of --version.
Matches(filter, p) == filter = NoFilter \/ VersionOf[p] = filter
Loaded(filter) == [p \in Patterns |-> IF Matches(filter, p) THEN Text[file][p] ELSE Absent]

Load(q) ==
  /\ w[q].pc = "load"
  /\ IF w[q].kind.entry = "main" /\ Loaded(w[q].kind.filter) = Nothing
       THEN Stop(q)
       ELSE w' = [w EXCEPT ![q] = [@ EXCEPT !.pc = IF WritesGraph(q) THEN "graph" ELSE "embed",
                                     !.content = Loaded(w[q].kind.filter)]]
  /\ UNCHANGED <<file, graph, vectors, mark, legacy, faults>>

\* MERGE on pattern_id: nodes of other patterns stay.
Over(new, old) == [p \in Patterns |-> IF new[p] # Absent THEN new[p] ELSE old[p]]

WriteGraph(q) ==
  /\ w[q].pc = "graph"
  /\ graph' = Over(w[q].content, graph)
  /\ Go(q, "mark graph")
  /\ UNCHANGED <<file, vectors, mark, legacy, faults>>

\* Mutants: the sha256 is that of the file as it is now; the single sentinel of
\* before ADR-0007 D6-split, set whether embedded or not.
MarkGraphNow(q) ==
  /\ w[q].pc = "mark graph"
  /\ mark' = [mark EXCEPT !["graph"] = file]
  /\ IF WritesVectors(q) THEN Go(q, "embed") ELSE Stop(q)
  /\ UNCHANGED <<file, graph, vectors, legacy, faults>>

MarkGraphForBoth(q) ==
  /\ w[q].pc = "mark graph"
  /\ mark' = [s \in Stores |-> w[q].sha]
  /\ IF WritesVectors(q) THEN Go(q, "embed") ELSE Stop(q)
  /\ UNCHANGED <<file, graph, vectors, legacy, faults>>

MarkGraph(q) ==
  /\ w[q].pc = "mark graph"
  /\ mark' = [mark EXCEPT !["graph"] = w[q].sha]
  /\ IF WritesVectors(q) THEN Go(q, "embed") ELSE Stop(q)
  /\ UNCHANGED <<file, graph, vectors, legacy, faults>>

\* The embeddings are computed; then a transaction deletes all rows.
Embed(q) ==
  /\ w[q].pc = "embed"
  /\ Go(q, "commit")
  /\ UNCHANGED <<file, graph, vectors, mark, legacy, faults>>

\* It inserts the new ones and commits.  Rows that another transaction
\* committed since its DELETE began were not seen by that DELETE and stay.
CommitVectors(q) ==
  /\ w[q].pc = "commit"
  /\ vectors' = IF w[q].crossed THEN Over(w[q].content, vectors) ELSE w[q].content
  /\ w' = [other \in Procs |->
             IF other = q THEN [w[q] EXCEPT !.pc = "mark vectors"]
             ELSE IF w[other].pc = "commit" THEN [w[other] EXCEPT !.crossed = TRUE]
             ELSE w[other]]
  /\ UNCHANGED <<file, graph, mark, legacy, faults>>

MarkVectors(q) ==
  /\ w[q].pc = "mark vectors"
  /\ mark' = [mark EXCEPT !["vectors"] = w[q].sha]
  /\ Stop(q)
  /\ UNCHANGED <<file, graph, vectors, legacy, faults>>

\* A step raises or the process is killed; an open transaction is rolled back.
Fail(q) ==
  /\ Active(q)
  /\ faults < MaxFaults
  /\ faults' = faults + 1
  /\ Stop(q)
  /\ UNCHANGED <<file, graph, vectors, mark, legacy>>

\* A release brings a new patterns.json, whoever is reading the old one.
Edit ==
  /\ file < MaxFile
  /\ file' = file + 1
  /\ UNCHANGED <<graph, vectors, mark, legacy, w, faults>>

-----------------------------------------------------------------------------
Step(q) ==
  \/ Gate(q) \/ GateVectors(q) \/ Load(q)
  \/ WriteGraph(q) \/ MarkGraph(q)
  \/ Embed(q) \/ CommitVectors(q) \/ MarkVectors(q)

Next ==
  \/ Edit
  \/ \E q \in Procs : Step(q) \/ Fail(q) \/ \E kind \in Kinds : Begin(q, kind)

Spec == Init /\ [][Next]_vars

\* The hourly index-repo of cron ends with a seeding that embeds.
Hourly == [entry |-> "run", embed |-> TRUE, force |-> FALSE, filter |-> NoFilter]

FairSpec ==
  /\ Spec
  /\ \A q \in Procs : WF_vars(Step(q))
  /\ SF_vars(\E q \in Procs : Begin(q, Hourly))

-----------------------------------------------------------------------------
(* Types.  Only versions of the file that existed are ever recorded, and a *)
(* process without an embedder never comes to the vector table.            *)
TypeOK ==
  /\ file \in Files
  /\ graph \in Content
  /\ vectors \in Content
  /\ mark \in [Stores -> Files \cup {None}]
  /\ legacy \in {None, 1}
  /\ faults \in 0..MaxFaults
  /\ \A s \in Stores : mark[s] <= file
  /\ w \in [Procs -> Work]
  /\ \A q \in Procs : w[q].pc \in {"gate vectors", "embed", "commit", "mark vectors"}
                           => w[q].kind.embed

(* When the next seeding would skip the graph, every pattern of the file   *)
(* is in it with the text of the file, whatever raised, was killed, edited *)
(* or seeded at the same time before (ADR-0007:98).                        *)
GraphIsUpToDate ==
  StoredGraphSha = file =>
    \A p \in Patterns : Text[file][p] # Absent => graph[p] = Text[file][p]

(* When the next seeding would skip the vector table, it holds the file's  *)
(* patterns and no others (ADR-0007:99).                                   *)
VectorsAreUpToDate == mark["vectors"] = file => vectors = Text[file]

(* With an hourly seeding that embeds, finitely many edits and failures,   *)
(* both stores end up with the file, whatever --no-embed and --force runs  *)
(* come in between.                                                        *)
Converges ==
  <>[] /\ vectors = Text[file]
       /\ \A p \in Patterns : Text[file][p] # Absent => graph[p] = Text[file][p]
=============================================================================
