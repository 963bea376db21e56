------------------------ MODULE PatternSeedingProofs ------------------------
(* What the sentinels of PatternSeeding promise, for any number of processes, *)
(* patterns, releases and failures.  The promise on the vector table and on   *)
(* the graph needs two assumptions, which the theorems state: nobody seeds    *)
(* with --version, and no process starts while one that read an older file is *)
(* still at work.                                                             *)
EXTENDS PatternSeeding, TLAPS

Unfiltered == \A kind \in Kinds : kind.filter = NoFilter

Holds(g, f) == \A p \in Patterns : Text[f][p] # Absent => g[p] = Text[f][p]
InGraph(f) == Holds(graph, f)

HasContent == {"graph", "mark graph", "embed", "commit", "mark vectors"}
AtVectors  == {"embed", "commit", "mark vectors"}

-----------------------------------------------------------------------------
(* Every process works on a version that exists, no newer than the file; all  *)
(* active processes on the same one; no sentinel is newer than it.  So once   *)
(* the file is edited, no sentinel matches it while an old process is active. *)
OneVersion ==
  \A q \in Procs : Active(q) =>
    /\ w[q].sha \in Files /\ w[q].sha <= file
    /\ \A r \in Procs : Active(r) => w[r].sha = w[q].sha
    /\ \A s \in Stores : mark[s] <= w[q].sha
    /\ legacy <= w[q].sha

(* A process that works on the present file has loaded it, and what it has    *)
(* written is still there: nobody else can have written anything else.        *)
CurrentWork ==
  \A q \in Procs : Active(q) /\ w[q].sha = file =>
    /\ w[q].pc \in HasContent => w[q].content = Text[file]
    /\ w[q].pc = "mark graph" => InGraph(file)
    /\ w[q].pc = "mark vectors" => vectors = Text[file]
    /\ w[q].crossed => vectors = Text[file]

(* A process that is about to load the file has a store to write.             *)
HasPurpose ==
  \A q \in Procs : /\ w[q].kind.filter = NoFilter
                   /\ w[q].pc = "load" => w[q].kind.embed \/ w[q].graphNeeds

IInv ==
  /\ TypeOK
  /\ HasPurpose
  /\ OneVersion
  /\ CurrentWork
  /\ GraphIsUpToDate
  /\ VectorsAreUpToDate

-----------------------------------------------------------------------------
(* The records of the processes.                                              *)
LEMMA NothingIsContent == Nothing \in Content
BY DEF Nothing, Content, Absent

LEMMA NoWorkTyped == NoWork \in Work
BY NothingIsContent DEF NoWork, NoKind, Work, Pcs, None

LEMMA LoadedTyped ==
  ASSUME NEW filter, TypeOK
  PROVE  /\ Loaded(filter) \in Content
         /\ filter = NoFilter => Loaded(filter) = Text[file]
<1>1. Text[file] \in [Patterns -> Nat]
  BY ConstantsAssumption DEF TypeOK, Content
<1> QED
  BY <1>1 DEF Loaded, Matches, Content, Absent

LEMMA OverTyped ==
  ASSUME NEW new \in Content, NEW old \in Content
  PROVE  Over(new, old) \in Content
BY DEF Over, Content

LEMMA InitIInv == Init => IInv
<1> SUFFICES ASSUME Init PROVE IInv
  OBVIOUS
<1>1. Text[1] \in Content /\ 1 \in Files
  BY ConstantsAssumption DEF Files
<1>2. \A q \in Procs : w[q] = NoWork /\ ~ Active(q)
  BY DEF Init, Active, NoWork
<1>3. TypeOK
  <2>1. w \in [Procs -> Work]
    BY NoWorkTyped DEF Init
  <2>2. \A q \in Procs : w[q].pc = "idle"
    BY <1>2 DEF NoWork
  <2>3. graph \in Content /\ vectors \in Content
    BY <1>1, NothingIsContent DEF Init
  <2>4. file \in Files /\ legacy \in {None, 1}
    BY <1>1 DEF Init
  <2>5. mark \in [Stores -> Files \cup {None}] /\ \A s \in Stores : mark[s] <= file
    BY DEF Init, None
  <2>6. faults \in 0..MaxFaults
    BY ConstantsAssumption DEF Init
  <2> QED
    BY <2>1, <2>2, <2>3, <2>4, <2>5, <2>6 DEF TypeOK
<1>4. HasPurpose
  BY <1>2 DEF HasPurpose, NoWork, NoKind
<1>5. OneVersion /\ CurrentWork
  BY <1>2 DEF OneVersion, CurrentWork
<1>6. GraphIsUpToDate /\ VectorsAreUpToDate
  BY DEF Init, GraphIsUpToDate, VectorsAreUpToDate, StoredGraphSha, Stores, None
<1> QED
  BY <1>3, <1>4, <1>5, <1>6 DEF IInv

-----------------------------------------------------------------------------
(* What a step makes of the record of its process: it becomes x, which is     *)
(* idle or the same run one step on.                                          *)
Becomes(q, x) ==
  /\ x \in Work
  /\ w' = [w EXCEPT ![q] = x]
  /\ x.kind.filter = NoFilter
  /\ x.pc \in {"gate vectors"} \cup AtVectors => x.kind.embed
  /\ x.pc = "load" => x.kind.embed \/ x.graphNeeds

Proceeds(q, x) ==
  /\ Becomes(q, x)
  /\ x.pc # "idle" => /\ Active(q)
                      /\ x.sha = w[q].sha
                      /\ x.crossed = w[q].crossed
  /\ x.pc \in HasContent => \/ x.content = Text[file]
                            \/ w[q].pc \in HasContent /\ x.content = w[q].content
  /\ x.pc = "mark graph" => w[q].pc = "graph"
  /\ x.pc # "mark vectors"

LEMMA Stopping ==
  ASSUME NEW q \in Procs, Stop(q)
  PROVE  Proceeds(q, NoWork)
<1>1. NoWork.pc = "idle" /\ NoWork.kind.filter = NoFilter
  BY DEF NoWork, NoKind
<1> QED
  BY <1>1, NoWorkTyped DEF Stop, Proceeds, Becomes, AtVectors, HasContent

LEMMA Going ==
  ASSUME TypeOK, HasPurpose, NEW q \in Procs, NEW to \in {"mark graph", "embed", "commit"},
         w[q].pc \in HasContent, to = "mark graph" => w[q].pc = "graph",
         to \in AtVectors => w[q].kind.embed, Go(q, to)
  PROVE  \E x : Proceeds(q, x)
<1>1. PICK x : x = [w[q] EXCEPT !.pc = to]
  OBVIOUS
<1>2. w[q] \in Work
  BY DEF TypeOK
<1>3. to \in Pcs
  BY DEF Pcs
<1>4. /\ x \in Work /\ x.pc = to /\ x.kind = w[q].kind /\ x.sha = w[q].sha
      /\ x.crossed = w[q].crossed /\ x.content = w[q].content
  BY <1>1, <1>2, <1>3 DEF Work
<1>5. w' = [w EXCEPT ![q] = x]
  BY <1>1 DEF Go
<1> QED
  BY <1>4, <1>5 DEF Proceeds, Becomes, HasPurpose, AtVectors, HasContent, Active

LEMMA GateShape ==
  ASSUME IInv, NEW q \in Procs, Gate(q)
  PROVE  \E x : Proceeds(q, x)
<1> DEFINE needs == StoredGraphSha # w[q].sha
           to == IF w[q].kind.embed THEN "gate vectors" ELSE "load"
<1>1. w[q].pc = "gate" /\ w[q] \in Work /\ w[q].kind.filter = NoFilter
  BY DEF Gate, IInv, TypeOK, HasPurpose
<1>2. CASE ~ needs /\ ~ w[q].kind.embed
  BY <1>2, Stopping DEF Gate
<1>3. CASE ~ (~ needs /\ ~ w[q].kind.embed)
  <2>1. PICK x : x = [w[q] EXCEPT !.pc = to, !.graphNeeds = needs]
    OBVIOUS
  <2>2. needs \in BOOLEAN /\ to \in Pcs
    BY DEF Pcs
  <2> HIDE DEF needs, to
  <2>3. /\ x \in Work /\ x.pc = to /\ x.kind = w[q].kind /\ x.sha = w[q].sha
        /\ x.crossed = w[q].crossed /\ x.graphNeeds = needs
    BY <1>1, <2>1, <2>2 DEF Work
  <2>4. w' = [w EXCEPT ![q] = x]
    BY <1>3, <2>1 DEF Gate, needs, to
  <2>5. to \in {"gate vectors", "load"} /\ (to = "gate vectors" => w[q].kind.embed)
        /\ (to = "load" => needs)
    BY <1>3 DEF to
  <2>6. Becomes(q, x)
    BY <1>1, <2>3, <2>4, <2>5 DEF Becomes, AtVectors
  <2> QED
    BY <1>1, <2>3, <2>5, <2>6 DEF Proceeds, HasContent, Active
<1> QED
  BY <1>2, <1>3

LEMMA GateVectorsShape ==
  ASSUME IInv, NEW q \in Procs, GateVectors(q)
  PROVE  \E x : Proceeds(q, x)
<1> DEFINE needs == mark["vectors"] # w[q].sha
<1>1. /\ w[q].pc = "gate vectors" /\ w[q] \in Work /\ w[q].kind.filter = NoFilter
      /\ w[q].kind.embed
  BY DEF GateVectors, IInv, TypeOK, HasPurpose
<1>2. CASE ~ needs /\ ~ w[q].graphNeeds
  BY <1>2, Stopping DEF GateVectors
<1>3. CASE ~ (~ needs /\ ~ w[q].graphNeeds)
  <2>1. PICK x : x = [w[q] EXCEPT !.pc = "load", !.vectorsNeed = needs]
    OBVIOUS
  <2>2. needs \in BOOLEAN /\ "load" \in Pcs
    BY DEF Pcs
  <2>3. w' = [w EXCEPT ![q] = x]
    BY <1>3, <2>1 DEF GateVectors
  <2> HIDE DEF needs
  <2>4. /\ x \in Work /\ x.pc = "load" /\ x.kind = w[q].kind /\ x.sha = w[q].sha
        /\ x.crossed = w[q].crossed
    BY <1>1, <2>1, <2>2 DEF Work
  <2>5. Becomes(q, x)
    BY <1>1, <2>3, <2>4 DEF Becomes, AtVectors
  <2> QED
    BY <1>1, <2>4, <2>5 DEF Proceeds, HasContent, Active
<1> QED
  BY <1>2, <1>3

LEMMA LoadShape ==
  ASSUME IInv, NEW q \in Procs, Load(q)
  PROVE  \E x : Proceeds(q, x)
<1> DEFINE empty == w[q].kind.entry = "main" /\ Loaded(w[q].kind.filter) = Nothing
           to == IF WritesGraph(q) THEN "graph" ELSE "embed"
<1>1. /\ w[q].pc = "load" /\ w[q] \in Work /\ w[q].kind.filter = NoFilter
      /\ w[q].kind.embed \/ w[q].graphNeeds
  BY DEF Load, IInv, TypeOK, HasPurpose
<1>2. CASE empty
  BY <1>2, Stopping DEF Load
<1>3. CASE ~ empty
  <2>1. PICK x : x = [w[q] EXCEPT !.pc = to, !.content = Loaded(w[q].kind.filter)]
    OBVIOUS
  <2>2. to \in Pcs /\ Loaded(w[q].kind.filter) \in Content
        /\ Loaded(w[q].kind.filter) = Text[file]
    BY <1>1, LoadedTyped DEF Pcs, IInv
  <2>3. to \in {"graph", "embed"} /\ (to = "embed" => w[q].kind.embed)
    BY <1>1 DEF WritesGraph
  <2>4. w' = [w EXCEPT ![q] = x]
    BY <1>3, <2>1 DEF Load
  <2> HIDE DEF to
  <2>5. /\ x \in Work /\ x.pc = to /\ x.kind = w[q].kind /\ x.sha = w[q].sha
        /\ x.crossed = w[q].crossed /\ x.content = Text[file]
    BY <1>1, <2>1, <2>2 DEF Work
  <2>6. Becomes(q, x)
    BY <1>1, <2>3, <2>4, <2>5 DEF Becomes, AtVectors
  <2> QED
    BY <1>1, <2>3, <2>5, <2>6 DEF Proceeds, HasContent, Active
<1> QED
  BY <1>2, <1>3

LEMMA WriteShape ==
  ASSUME IInv, NEW q \in Procs,
         WriteGraph(q) \/ MarkGraph(q) \/ Embed(q) \/ MarkVectors(q) \/ Fail(q)
  PROVE  \E x : Proceeds(q, x)
<1>1. CASE Stop(q)
  BY <1>1, Stopping
<1>2. CASE WriteGraph(q)
  BY <1>2, Going DEF WriteGraph, IInv, HasContent, AtVectors
<1>3. CASE MarkGraph(q) /\ WritesVectors(q)
  BY <1>3, Going DEF MarkGraph, WritesVectors, IInv, HasContent, AtVectors
<1>4. CASE Embed(q)
  <2>1. w[q].kind.embed
    BY <1>4 DEF Embed, IInv, TypeOK
  <2> QED
    BY <1>4, <2>1, Going DEF Embed, IInv, HasContent, AtVectors
<1> QED
  BY <1>1, <1>2, <1>3, <1>4 DEF MarkGraph, MarkVectors, Fail

LEMMA BeginShape ==
  ASSUME IInv, Unfiltered, NEW q \in Procs, NEW kind \in Kinds, Begin(q, kind)
  PROVE  \E x : Becomes(q, x) /\ x.sha = file /\ ~ x.crossed /\ x.pc \in {"gate", "load"}
<1> DEFINE to == IF kind.force THEN "load" ELSE "gate"
           both == kind.force /\ kind.embed
<1>1. /\ kind.force \in BOOLEAN /\ kind.embed \in BOOLEAN /\ kind.filter = NoFilter
      /\ file \in Files
  BY ConstantsAssumption DEF Unfiltered, IInv, TypeOK
<1>2. PICK x : x = [NoWork EXCEPT !.pc = to, !.kind = kind, !.sha = file,
                                  !.graphNeeds = kind.force, !.vectorsNeed = both]
  OBVIOUS
<1>3. w' = [w EXCEPT ![q] = x]
  BY <1>2 DEF Begin
<1>4. to \in Pcs /\ to \in {"gate", "load"} /\ (to = "load" => kind.force) /\ both \in BOOLEAN
  BY <1>1 DEF Pcs
<1>5. ~ NoWork.crossed
  BY DEF NoWork
<1> HIDE DEF to, both
<1>6. /\ x \in Work /\ x.pc = to /\ x.kind = kind /\ x.sha = file /\ x.graphNeeds = kind.force
      /\ x.crossed = NoWork.crossed
  BY <1>1, <1>2, <1>4, NoWorkTyped DEF Work
<1> QED
  BY <1>1, <1>3, <1>4, <1>5, <1>6 DEF Becomes, AtVectors

Advances(q) ==
  \/ Gate(q) \/ GateVectors(q) \/ Load(q)
  \/ WriteGraph(q) \/ MarkGraph(q) \/ Embed(q) \/ MarkVectors(q) \/ Fail(q)

LEMMA AdvanceShape ==
  ASSUME IInv, NEW q \in Procs, Advances(q)
  PROVE  \E x : Proceeds(q, x)
BY GateShape, GateVectorsShape, LoadShape, WriteShape DEF Advances

(* A commit touches the records of the processes in their transactions.       *)
CommitOf(q, r) ==
  /\ w'[r] \in Work
  /\ w'[r].kind = w[r].kind /\ w'[r].sha = w[r].sha /\ w'[r].content = w[r].content
  /\ w'[r].graphNeeds = w[r].graphNeeds
  /\ w'[r].pc = IF r = q THEN "mark vectors" ELSE w[r].pc
  /\ w'[r].crossed => w[r].crossed \/ (r # q /\ w[r].pc = "commit")

LEMMA CommitShape ==
  ASSUME TypeOK, NEW q \in Procs, CommitVectors(q)
  PROVE  \A r \in Procs : CommitOf(q, r)
<1> TAKE r \in Procs
<1>1. w[r] \in Work /\ w[q] \in Work
  BY DEF TypeOK
<1>2. CASE r = q
  <2>1. w'[r] = [w[q] EXCEPT !.pc = "mark vectors"]
    BY <1>2 DEF CommitVectors
  <2> QED
    BY <1>1, <1>2, <2>1 DEF CommitOf, Work, Pcs
<1>3. CASE r # q /\ w[r].pc = "commit"
  <2>1. w'[r] = [w[r] EXCEPT !.crossed = TRUE]
    BY <1>3 DEF CommitVectors
  <2> QED
    BY <1>1, <1>3, <2>1 DEF CommitOf, Work, Pcs
<1>4. CASE r # q /\ w[r].pc # "commit"
  <2>1. w'[r] = w[r]
    BY <1>4 DEF CommitVectors
  <2> QED
    BY <1>1, <1>4, <2>1 DEF CommitOf
<1> QED
  BY <1>2, <1>3, <1>4

-----------------------------------------------------------------------------
(* Types.                                                                     *)
LEMMA StoresTyped ==
  ASSUME TypeOK, OneVersion, [Next]_vars
  PROVE  /\ file' \in Files /\ graph' \in Content /\ vectors' \in Content
         /\ mark' \in [Stores -> Files \cup {None}] /\ \A s \in Stores : mark'[s] <= file'
         /\ legacy' = legacy /\ faults' \in 0..MaxFaults
<1> DEFINE Goal == /\ file' \in Files /\ graph' \in Content /\ vectors' \in Content
                   /\ mark' \in [Stores -> Files \cup {None}]
                   /\ \A s \in Stores : mark'[s] <= file'
                   /\ legacy' = legacy /\ faults' \in 0..MaxFaults
<1>1. /\ file \in Files /\ graph \in Content /\ vectors \in Content
      /\ mark \in [Stores -> Files \cup {None}] /\ \A s \in Stores : mark[s] <= file
      /\ faults \in 0..MaxFaults
  BY DEF TypeOK
<1>2. \A q \in Procs : w[q].content \in Content
  BY DEF TypeOK, Work
<1>3. CASE UNCHANGED <<file, graph, vectors, mark, legacy, faults>>
  BY <1>1, <1>3
<1>4. CASE Edit
  <2>1. file' = file + 1 /\ file' \in Files
    BY <1>1, <1>4, ConstantsAssumption DEF Edit, Files
  <2>2. \A s \in Stores : mark[s] \in Nat /\ file \in Nat
    BY <1>1 DEF Files, None
  <2> QED
    BY <1>1, <1>4, <2>1, <2>2 DEF Edit
<1>5. ASSUME NEW q \in Procs, WriteGraph(q) PROVE Goal
  BY <1>1, <1>2, <1>5, OverTyped DEF WriteGraph
<1>6. ASSUME NEW q \in Procs, MarkGraph(q) \/ MarkVectors(q) PROVE Goal
  <2>1. w[q].sha \in Files /\ w[q].sha <= file
    BY <1>6 DEF MarkGraph, MarkVectors, OneVersion, Active
  <2>2. \E s \in Stores : mark' = [mark EXCEPT ![s] = w[q].sha]
    BY <1>6 DEF MarkGraph, MarkVectors, Stores
  <2> QED
    BY <1>1, <1>6, <2>1, <2>2 DEF MarkGraph, MarkVectors
<1>7. ASSUME NEW q \in Procs, CommitVectors(q) PROVE Goal
  BY <1>1, <1>2, <1>7, OverTyped DEF CommitVectors
<1>8. ASSUME NEW q \in Procs, Fail(q) PROVE Goal
  BY <1>1, <1>8, ConstantsAssumption DEF Fail
<1> QED
  BY <1>3, <1>4, <1>5, <1>6, <1>7, <1>8
  DEF Next, vars, Step, Gate, GateVectors, Load, Embed, Begin

LEMMA WorkStep ==
  ASSUME IInv, Unfiltered, [Next]_vars
  PROVE  /\ w' \in [Procs -> Work]
         /\ \A q \in Procs : w'[q].pc \in {"gate vectors", "embed", "commit", "mark vectors"}
                              => w'[q].kind.embed
         /\ HasPurpose'
<1> DEFINE Fine(v) ==
      /\ v.pc \in {"gate vectors", "embed", "commit", "mark vectors"} => v.kind.embed
      /\ v.kind.filter = NoFilter
      /\ v.pc = "load" => v.kind.embed \/ v.graphNeeds
<1> SUFFICES w' \in [Procs -> Work] /\ \A q \in Procs : Fine(w'[q])
  BY DEF HasPurpose
<1>1. w \in [Procs -> Work] /\ \A q \in Procs : Fine(w[q])
  BY DEF IInv, TypeOK, HasPurpose
<1>2. CASE UNCHANGED w
  BY <1>1, <1>2
<1>3. ASSUME NEW q \in Procs, NEW x, Becomes(q, x)
      PROVE  w' \in [Procs -> Work] /\ \A r \in Procs : Fine(w'[r])
  <2>1. x \in Work /\ Fine(x) /\ w' = [w EXCEPT ![q] = x]
    BY <1>3 DEF Becomes, AtVectors
  <2> HIDE DEF Fine
  <2> QED
    BY <1>1, <2>1
<1>4. ASSUME NEW q \in Procs, CommitVectors(q)
      PROVE  w' \in [Procs -> Work] /\ \A r \in Procs : Fine(w'[r])
  <2>1. \A r \in Procs : CommitOf(q, r)
    BY <1>4, CommitShape DEF IInv
  <2>2. w' = [r \in Procs |-> w'[r]]
    BY <1>4 DEF CommitVectors
  <2>3. w' \in [Procs -> Work]
    BY <2>1, <2>2 DEF CommitOf
  <2>4. w[q].pc = "commit"
    BY <1>4 DEF CommitVectors
  <2>5. ASSUME NEW r \in Procs PROVE Fine(w'[r])
    <3>1. CASE r = q
      <4>1. w'[q].kind = w[q].kind /\ w'[q].pc = "mark vectors" /\ Fine(w[q])
        BY <1>1, <2>1 DEF CommitOf
      <4> QED
        BY <2>4, <3>1, <4>1
    <3>2. CASE r # q
      <4>1. w'[r].kind = w[r].kind /\ w'[r].graphNeeds = w[r].graphNeeds /\ w'[r].pc = w[r].pc
        BY <2>1, <3>2 DEF CommitOf
      <4> QED
        BY <1>1, <4>1
    <3> QED
      BY <3>1, <3>2
  <2> HIDE DEF Fine
  <2> QED
    BY <2>3, <2>5
<1>5. ASSUME NEW q \in Procs, Advances(q)
      PROVE  w' \in [Procs -> Work] /\ \A r \in Procs : Fine(w'[r])
  BY <1>3, <1>5, AdvanceShape DEF Proceeds
<1>6. ASSUME NEW q \in Procs, NEW kind \in Kinds, Begin(q, kind)
      PROVE  w' \in [Procs -> Work] /\ \A r \in Procs : Fine(w'[r])
  BY <1>3, <1>6, BeginShape
<1> QED
  BY <1>2, <1>4, <1>5, <1>6 DEF Next, vars, Edit, Step, Advances

LEMMA TypeStep ==
  ASSUME IInv, Unfiltered, [Next]_vars
  PROVE  TypeOK' /\ HasPurpose'
<1>1. legacy \in {None, 1}
  BY DEF IInv, TypeOK
<1> QED
  BY <1>1, StoresTyped, WorkStep DEF IInv, TypeOK

-----------------------------------------------------------------------------
(* One version at a time.  A step of a process other than the first leaves    *)
(* the active processes and their versions as they are, or one of them stops. *)
Keeps ==
  \A r \in Procs : w'[r].pc # "idle" => w[r].pc # "idle" /\ w'[r].sha = w[r].sha

Acts(q) == Advances(q) \/ CommitVectors(q)

LEMMA ActsKeeps ==
  ASSUME IInv, NEW q \in Procs, Acts(q)
  PROVE  Keeps /\ file' = file /\ legacy' = legacy /\ (q \in Procs /\ Active(q))
<1>1. w \in [Procs -> Work]
  BY DEF IInv, TypeOK
<1>2. ASSUME NEW x, Proceeds(q, x) PROVE Keeps
  BY <1>1, <1>2 DEF Proceeds, Becomes, Keeps, Active
<1>3. CASE Advances(q)
  BY <1>2, <1>3, AdvanceShape
     DEF Advances, Gate, GateVectors, Load, WriteGraph, MarkGraph, Embed, MarkVectors, Fail,
         Active
<1>4. CASE CommitVectors(q)
  <2>1. \A r \in Procs : CommitOf(q, r)
    BY <1>4, CommitShape DEF IInv
  <2>2. w[q].pc = "commit" /\ file' = file /\ legacy' = legacy
    BY <1>4 DEF CommitVectors
  <2> QED
    BY <2>1, <2>2 DEF CommitOf, Keeps, Active
<1> QED
  BY <1>3, <1>4 DEF Acts

(* A sentinel changes to the version of the process that sets it.             *)
LEMMA ActsMarks ==
  ASSUME IInv, NEW q \in Procs, Acts(q)
  PROVE  \A s \in Stores : mark'[s] = mark[s] \/ mark'[s] = w[q].sha
<1>1. mark \in [Stores -> Files \cup {None}]
  BY DEF IInv, TypeOK
<1>2. CASE MarkGraph(q) \/ MarkVectors(q)
  BY <1>1, <1>2 DEF MarkGraph, MarkVectors, Stores
<1>3. CASE UNCHANGED mark
  BY <1>3
<1> QED
  BY <1>2, <1>3
     DEF Acts, Advances, Gate, GateVectors, Load, WriteGraph, MarkGraph, Embed, MarkVectors,
         Fail, CommitVectors

LEMMA OneVersionStep ==
  ASSUME IInv, Unfiltered, ~ MixedVersions, [Next]_vars
  PROVE  OneVersion'
<1>1. /\ file \in Files /\ legacy \in {None, 1}
      /\ mark \in [Stores -> Files \cup {None}] /\ \A s \in Stores : mark[s] <= file
      /\ w \in [Procs -> Work]
  BY DEF IInv, TypeOK
<1>2. file \in Nat /\ 1 <= file /\ \A s \in Stores : mark[s] \in Nat
  BY <1>1 DEF Files, None
<1>3. OneVersion
  BY DEF IInv
<1>4. CASE UNCHANGED <<file, mark, legacy, w>>
  BY <1>3, <1>4 DEF OneVersion, Active
<1>5. CASE Edit
  <2>1. file' = file + 1 /\ UNCHANGED <<mark, legacy, w>>
    BY <1>5 DEF Edit
  <2>2. \A q \in Procs : Active(q) => w[q].sha \in Nat
    BY <1>3 DEF OneVersion, Files
  <2>3. \A q \in Procs : Active(q) => w[q].sha <= file'
    BY <1>2, <1>3, <2>1, <2>2 DEF OneVersion
  <2> QED
    BY <1>3, <2>1, <2>3 DEF OneVersion, Active
<1>6. ASSUME NEW q \in Procs, Acts(q) PROVE OneVersion'
  <2>1. Keeps /\ file' = file /\ legacy' = legacy /\ Active(q)
    BY <1>6, ActsKeeps
  <2>2. \A s \in Stores : mark'[s] = mark[s] \/ mark'[s] = w[q].sha
    BY <1>6, ActsMarks
  <2>3. w[q].sha \in Nat /\ w[q].sha <= w[q].sha
    BY <1>3, <2>1 DEF OneVersion, Files
  <2> QED
    BY <1>3, <2>1, <2>2, <2>3 DEF OneVersion, Active, Keeps
<1>7. ASSUME NEW q \in Procs, NEW kind \in Kinds, Begin(q, kind) PROVE OneVersion'
  <2>1. PICK x : Becomes(q, x) /\ x.sha = file
    BY <1>7, BeginShape
  <2>2. w' = [w EXCEPT ![q] = x] /\ UNCHANGED <<file, mark, legacy>>
    BY <1>7, <2>1 DEF Becomes, Begin
  <2>3. \A r \in Procs : w[r].pc # "idle" => w[r].sha = file
    BY <1>7 DEF Begin, Active
  <2>4. \A r \in Procs : w'[r].pc # "idle" => w'[r].sha = file
    BY <1>1, <2>1, <2>2, <2>3
  <2>5. legacy <= file /\ file <= file
    BY <1>1, <1>2 DEF None
  <2> QED
    BY <1>1, <2>2, <2>4, <2>5 DEF OneVersion, Active
<1> QED
  BY <1>4, <1>5, <1>6, <1>7 DEF Next, vars, Step, Acts, Advances

-----------------------------------------------------------------------------
(* What a process at the present file does to the stores: it can only bring   *)
(* them to the file, and a store it has written is at the file.               *)
LEMMA CurrentStores ==
  ASSUME IInv, NEW q \in Procs, Acts(q), w[q].sha = file
  PROVE  /\ Holds(graph, file) => Holds(graph', file)
         /\ WriteGraph(q) => Holds(graph', file)
         /\ vectors = Text[file] => vectors' = Text[file]
         /\ CommitVectors(q) => vectors' = Text[file]
<1>1. Text[file] \in Content
  BY ConstantsAssumption DEF IInv, TypeOK
<1>2. CASE WriteGraph(q)
  <2>1. w[q].content = Text[file]
    BY <1>2 DEF WriteGraph, IInv, CurrentWork, Active, HasContent
  <2>2. graph' = Over(Text[file], graph) /\ vectors' = vectors
    BY <1>2, <2>1 DEF WriteGraph
  <2>3. Holds(graph', file)
    BY <2>2 DEF Holds, Over
  <2> QED
    BY <1>2, <2>2, <2>3 DEF WriteGraph, CommitVectors
<1>3. CASE CommitVectors(q)
  <2>1. /\ w[q].content = Text[file]
        /\ w[q].crossed => vectors = Text[file]
    BY <1>3 DEF CommitVectors, IInv, CurrentWork, Active, HasContent
  <2>2. Over(Text[file], Text[file]) = Text[file]
    BY <1>1 DEF Over, Content
  <2>3. vectors' = Text[file] /\ graph' = graph
    BY <1>3, <2>1, <2>2 DEF CommitVectors
  <2> QED
    BY <1>3, <2>3 DEF WriteGraph, CommitVectors
<1>4. CASE ~ WriteGraph(q) /\ ~ CommitVectors(q)
  <2>1. UNCHANGED <<graph, vectors>>
    BY <1>4 DEF Acts, Advances, Gate, GateVectors, Load, MarkGraph, Embed, MarkVectors, Fail
  <2> QED
    BY <1>4, <2>1
<1> QED
  BY <1>2, <1>3, <1>4

LEMMA CurrentWorkStep ==
  ASSUME IInv, Unfiltered, ~ MixedVersions, [Next]_vars
  PROVE  CurrentWork'
<1> DEFINE Good(v, g, vs, f) ==
      /\ v.pc \in HasContent => v.content = Text[f]
      /\ v.pc = "mark graph" => Holds(g, f)
      /\ v.pc = "mark vectors" => vs = Text[f]
      /\ v.crossed => vs = Text[f]
<1> SUFFICES \A r \in Procs : w'[r].pc # "idle" /\ w'[r].sha = file'
                                => Good(w'[r], graph', vectors', file')
  BY DEF CurrentWork, Active, InGraph
<1>1. /\ file \in Files /\ w \in [Procs -> Work] /\ OneVersion
  BY DEF IInv, TypeOK
<1>2. \A r \in Procs : w[r].pc # "idle" /\ w[r].sha = file => Good(w[r], graph, vectors, file)
  BY DEF IInv, CurrentWork, Active, InGraph
<1>3. CASE UNCHANGED <<file, graph, vectors, w>>
  BY <1>2, <1>3
<1>4. CASE Edit
  <2>1. file' = file + 1 /\ w' = w
    BY <1>4 DEF Edit
  <2>2. \A r \in Procs : w[r].pc # "idle" => w[r].sha \in Nat /\ w[r].sha <= file
    BY <1>1 DEF OneVersion, Files, Active
  <2>3. file \in Nat
    BY <1>1 DEF Files
  <2>4. \A r \in Procs : w'[r].pc # "idle" => w'[r].sha # file'
    BY <2>1, <2>2, <2>3
  <2> QED
    BY <2>4
<1>5. ASSUME NEW q \in Procs, NEW kind \in Kinds, Begin(q, kind),
             NEW r \in Procs, w'[r].pc # "idle", w'[r].sha = file'
      PROVE  Good(w'[r], graph', vectors', file')
  <2>1. PICK x : /\ Becomes(q, x) /\ x.sha = file /\ ~ x.crossed
                 /\ x.pc \in {"gate", "load"}
    BY <1>5, BeginShape
  <2>2. w' = [w EXCEPT ![q] = x] /\ UNCHANGED <<file, graph, vectors>>
    BY <1>5, <2>1 DEF Becomes, Begin
  <2>3. CASE r = q
    BY <1>1, <2>1, <2>2, <2>3 DEF HasContent
  <2>4. CASE r # q
    BY <1>1, <1>2, <1>5, <2>2, <2>4
  <2> QED
    BY <2>3, <2>4
<1>6. ASSUME NEW q \in Procs, Acts(q),
             NEW r \in Procs, w'[r].pc # "idle", w'[r].sha = file'
      PROVE  Good(w'[r], graph', vectors', file')
  <2>1. /\ Active(q) /\ file' = file
        /\ w[r].pc # "idle" /\ w[r].sha = file
    BY <1>6, ActsKeeps DEF Keeps
  <2>2. w[q].sha = file
    BY <1>1, <2>1 DEF OneVersion, Active
  <2>3. /\ Holds(graph, file) => Holds(graph', file)
        /\ WriteGraph(q) => Holds(graph', file)
        /\ vectors = Text[file] => vectors' = Text[file]
        /\ CommitVectors(q) => vectors' = Text[file]
    BY <1>6, <2>2, CurrentStores
  <2>4. Good(w[r], graph, vectors, file) /\ Good(w[q], graph, vectors, file)
    BY <1>2, <2>1, <2>2 DEF Active
  <2>5. CASE CommitVectors(q)
    <3>1. CommitOf(q, r) /\ w[q].pc = "commit"
      BY <2>5, CommitShape DEF IInv, CommitVectors
    <3>2. w[q].content = Text[file]
      BY <2>4, <3>1 DEF HasContent
    <3>3. w'[r].pc \in HasContent => w'[r].content = Text[file]
      BY <2>4, <3>1, <3>2 DEF CommitOf, HasContent
    <3>4. w'[r].pc = "mark graph" => Holds(graph', file)
      BY <2>3, <2>4, <3>1 DEF CommitOf
    <3> QED
      BY <2>1, <2>3, <2>5, <3>3, <3>4
  <2>6. CASE Advances(q)
    <3>1. PICK x : Proceeds(q, x)
      BY <2>6, AdvanceShape
    <3>2. w' = [w EXCEPT ![q] = x]
      BY <3>1 DEF Proceeds, Becomes
    <3>3. CASE r # q
      BY <1>1, <2>1, <2>3, <2>4, <3>2, <3>3
    <3>4. CASE r = q
      <4>1. w'[r] = x /\ x.pc # "idle"
        BY <1>1, <1>6, <3>2, <3>4
      <4>2. x.pc \in HasContent => x.content = Text[file]
        BY <2>4, <3>1 DEF Proceeds
      <4>3. x.pc = "mark graph" => WriteGraph(q)
        <5>1. x.pc = "mark graph" => w[q].pc = "graph"
          BY <3>1 DEF Proceeds
        <5>2. CASE Fail(q)
          <6>1. w'[q] = NoWork
            BY <1>1, <5>2 DEF Fail, Stop
          <6>2. NoWork.pc = "idle"
            BY DEF NoWork
          <6> QED
            BY <3>4, <4>1, <6>1, <6>2
        <5> QED
          BY <2>6, <5>1, <5>2
             DEF Advances, Gate, GateVectors, Load, MarkGraph, Embed, MarkVectors
      <4>4. x.crossed => vectors = Text[file]
        BY <2>4, <3>1, <4>1 DEF Proceeds
      <4>5. x.pc # "mark vectors"
        BY <3>1 DEF Proceeds
      <4> QED
        BY <2>1, <2>3, <4>1, <4>2, <4>3, <4>4, <4>5
    <3> QED
      BY <3>3, <3>4
  <2> QED
    BY <1>6, <2>5, <2>6 DEF Acts
<1> QED
  BY <1>3, <1>4, <1>5, <1>6 DEF Next, vars, Step, Acts, Advances

-----------------------------------------------------------------------------
(* What the sentinels say.                                                    *)
LEMMA SentinelStep ==
  ASSUME IInv, [Next]_vars
  PROVE  GraphIsUpToDate' /\ VectorsAreUpToDate'
<1> DEFINE Stored(m) == IF m["graph"] # None THEN m["graph"] ELSE legacy
           Truth(m, g, vs, f) == /\ Stored(m) = f => Holds(g, f)
                                 /\ m["vectors"] = f => vs = Text[f]
<1>1. /\ file \in Files /\ legacy \in {None, 1} /\ OneVersion
      /\ mark \in [Stores -> Files \cup {None}] /\ \A s \in Stores : mark[s] <= file
  BY DEF IInv, TypeOK
<1>2. /\ file \in Nat /\ 1 <= file /\ legacy \in Nat /\ legacy <= file
      /\ \A s \in Stores : mark[s] \in Nat
      /\ "graph" \in Stores /\ "vectors" \in Stores
  BY <1>1 DEF Files, None, Stores
<1>3. Truth(mark, graph, vectors, file)
  BY DEF IInv, GraphIsUpToDate, VectorsAreUpToDate, StoredGraphSha, Holds
<1>4. legacy' = legacy
  BY StoresTyped DEF IInv
<1> SUFFICES Truth(mark', graph', vectors', file')
  BY <1>4 DEF GraphIsUpToDate, VectorsAreUpToDate, StoredGraphSha, Holds
<1>5. CASE UNCHANGED <<file, graph, vectors, mark>>
  BY <1>3, <1>5
<1>6. CASE Edit
  <2>1. file' = file + 1 /\ mark' = mark
    BY <1>6 DEF Edit
  <2>2. mark["graph"] # file' /\ mark["vectors"] # file' /\ legacy # file'
    BY <1>1, <1>2, <2>1
  <2> QED
    BY <2>1, <2>2
<1>7. ASSUME NEW q \in Procs, Acts(q) PROVE Truth(mark', graph', vectors', file')
  <2>1. Active(q) /\ file' = file
    BY <1>7, ActsKeeps
  <2>2. \A s \in Stores : mark'[s] = mark[s] \/ mark'[s] = w[q].sha
    BY <1>7, ActsMarks
  <2>3. CASE w[q].sha # file
    <3>1. /\ w[q].sha \in Nat /\ w[q].sha <= file
          /\ \A s \in Stores : mark[s] <= w[q].sha
          /\ legacy <= w[q].sha
      BY <1>1, <2>1 DEF OneVersion, Files
    <3>2. legacy # file /\ \A s \in Stores : mark[s] # file
      BY <1>2, <2>3, <3>1
    <3>3. mark'["graph"] # file /\ mark'["vectors"] # file
      BY <1>2, <2>2, <2>3, <3>2
    <3> QED
      BY <2>1, <3>2, <3>3
  <2>4. CASE w[q].sha = file
    <3>1. /\ Holds(graph, file) => Holds(graph', file)
          /\ vectors = Text[file] => vectors' = Text[file]
      BY <1>7, <2>4, CurrentStores
    <3>2. CASE MarkGraph(q)
      <4>1. Holds(graph, file) /\ graph' = graph /\ vectors' = vectors
        BY <2>1, <2>4, <3>2 DEF MarkGraph, IInv, CurrentWork, InGraph
      <4>2. mark'["vectors"] = mark["vectors"]
        BY <1>1, <1>2, <3>2 DEF MarkGraph
      <4> QED
        BY <1>3, <2>1, <4>1, <4>2
    <3>3. CASE MarkVectors(q)
      <4>1. vectors = Text[file] /\ graph' = graph /\ vectors' = vectors
        BY <2>1, <2>4, <3>3 DEF MarkVectors, IInv, CurrentWork
      <4>2. mark'["graph"] = mark["graph"]
        BY <1>1, <1>2, <3>3 DEF MarkVectors
      <4> QED
        BY <1>3, <2>1, <4>1, <4>2
    <3>4. CASE mark' = mark
      BY <1>3, <2>1, <3>1, <3>4
    <3> QED
      BY <1>7, <3>2, <3>3, <3>4
         DEF Acts, Advances, Gate, GateVectors, Load, WriteGraph, Embed, Fail, CommitVectors
  <2> QED
    BY <2>3, <2>4
<1> QED
  BY <1>5, <1>6, <1>7 DEF Next, vars, Step, Acts, Advances, Begin

LEMMA Invariance ==
  ASSUME Unfiltered, ~ MixedVersions
  PROVE  Spec => []IInv
<1>1. IInv /\ [Next]_vars => IInv'
  BY TypeStep, OneVersionStep, CurrentWorkStep, SentinelStep DEF IInv
<1> QED
  BY InitIInv, <1>1, PTL DEF Spec

(* The types, and that no process without an embedder comes to the vector     *)
(* table, for any number of processes, releases and faults, when nobody seeds *)
(* with --version and one release is seeded at a time.                        *)
THEOREM TypeCorrect ==
  ASSUME Unfiltered, ~ MixedVersions
  PROVE  Spec => []TypeOK
<1>1. IInv => TypeOK
  BY DEF IInv
<1> QED
  BY Invariance, <1>1, PTL

(* Seedings without --version of one release at a time, however they overlap, *)
(* raise or are killed, never let the sentinel of the graph match a file that *)
(* is not in the graph.                                                       *)
THEOREM GraphSentinelIsTrue ==
  ASSUME Unfiltered, ~ MixedVersions
  PROVE  Spec => []GraphIsUpToDate
<1>1. IInv => GraphIsUpToDate
  BY DEF IInv
<1> QED
  BY Invariance, <1>1, PTL

(* Nor the sentinel of the vector table, whose rows two transactions may      *)
(* replace at the same time.                                                  *)
THEOREM VectorSentinelIsTrue ==
  ASSUME Unfiltered, ~ MixedVersions
  PROVE  Spec => []VectorsAreUpToDate
<1>1. IInv => VectorsAreUpToDate
  BY DEF IInv
<1> QED
  BY Invariance, <1>1, PTL
=============================================================================
