------------------------ MODULE MCIncrementalIndexer ------------------------
(* Instances of IncrementalIndexer for TLC. *)
EXTENDS IncrementalIndexer, TLC

CONSTANTS p1, p2, m1, m2

\* index-repo, and index-repo --full --gc.
Incr   == [full |-> FALSE, gc |-> FALSE, embed |-> TRUE]
FullGc == [full |-> TRUE, gc |-> TRUE, embed |-> TRUE]

KIncr == {Incr}
KAll  == {Incr, FullGc}

\* Phases in which a run may fail: any, or while the models of all modules and
\* the views of some are written.
Always        == Phases
BetweenLayers == {"views"}

\* What the second commit makes of a module gives no chunk.
SecondContent == Modules \X {2}

FullSymmetry == Permutations(Procs) \cup Permutations(Modules)

\* One repository with two modules.
OneRepo   == [r \in {1} |-> "main"]
BothInOne == [m \in {m1, m2} |-> 1]

\* Two repositories: m2 of the second depends on m1 of the first.
TwoProfiles   == [r \in {1, 2} |-> IF r = 1 THEN "main" ELSE "other"]
OneEach       == [m \in {m1, m2} |-> IF m = m1 THEN 1 ELSE 2]
SecondOnFirst == {<<m2, m1>>}
=============================================================================
