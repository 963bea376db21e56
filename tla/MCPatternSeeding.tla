-------------------------- MODULE MCPatternSeeding --------------------------
(* Instances of PatternSeeding for TLC. *)
EXTENDS PatternSeeding, TLC

CONSTANTS p1, p2

Seeding(entry, embed, force, filter) ==
  [entry |-> entry, embed |-> embed, force |-> force, filter |-> filter]

\* index-repo with and without an embedder, and the command line.
AllVersions == { Seeding("run", TRUE, FALSE, NoFilter), Seeding("run", FALSE, FALSE, NoFilter),
                 Seeding("main", TRUE, TRUE, NoFilter), Seeding("main", FALSE, FALSE, NoFilter) }

\* seed-patterns, and seed-patterns --version 17.0.
Filtered == { Seeding("main", TRUE, FALSE, NoFilter), Seeding("main", TRUE, FALSE, "17.0") }

\* The second release changes p1 and drops p2, the third brings p2 back.
Releases == << [p \in Patterns |-> 1],
               [p \in Patterns |-> IF p = p1 THEN 2 ELSE Absent],
               [p \in Patterns |-> IF p = p1 THEN 2 ELSE 3] >>

TwoVersions == [p \in Patterns |-> IF p = p1 THEN "16.0" ELSE "17.0"]
=============================================================================
