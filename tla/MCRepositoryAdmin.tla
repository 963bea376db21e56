-------------------------- MODULE MCRepositoryAdmin --------------------------
(* Instances of RepositoryAdmin for TLC. Two sources have the directory name *)
(* and a module in common, as two checkouts of one project do; another has   *)
(* a module in common with the larger of them. The shell has left nothing,   *)
(* or two profiles, of two versions or of one, with a checkout each; the     *)
(* directory of the file:// URL may be no checkout.                          *)
EXTENDS RepositoryAdmin, TLC

CONSTANTS a17, a18, c17, sale, fleet

MCKind == a17 :> "ssh" @@ a18 :> "file" @@ c17 :> "https"
MCSlug == a17 :> "odoo" @@ a18 :> "odoo" @@ c17 :> "addons"
MCHome == [s \in {a17, a18, c17} |-> <<s, MCSlug[s]>>]
MCPaths == {MCHome[a18], MCHome[c17]}
MCHolds == a17 :> {sale} @@ a18 :> {sale, fleet} @@ c17 :> {fleet}
MCFlags == {[full |-> TRUE, gc |-> TRUE, embed |-> FALSE],
            [full |-> FALSE, gc |-> FALSE, embed |-> TRUE]}

MCDisk(rest) == [d \in Dirs |->
  IF d = Home[a18] THEN rest ELSE IF \E s \in Sources : Home[s] = d THEN d[1] ELSE NoSource]
Registered(p, n, v) ==
  [NoProfile EXCEPT !.state = "row", !.name = n, !.version = v]
\* Which two sources were registered, and for which versions.
MCPairs == {<<a17, 17, a18, 18>>, <<a17, 17, a18, 17>>, <<c17, 18, a18, 18>>}
MCBegin ==
  {[profile |-> [p \in Profiles |-> NoProfile], repo |-> [r \in Repos |-> NoRepo],
    disk |-> MCDisk(rest)] : rest \in {a18, Partial}} \cup
  {[profile |-> [x \in Profiles |->
       IF x = p THEN Registered(x, "std", b[2]) ELSE Registered(x, "ext", b[4])],
    repo |-> [x \in Repos |->
       IF x = r THEN NewRow(p, b[1], FALSE, Home[b[1]])
       ELSE NewRow(CHOOSE q \in Profiles : q # p, b[3], FALSE, Home[b[3]])],
    disk |-> MCDisk(a18)] : p \in Profiles, r \in Repos, b \in MCPairs}

MCSymmetry == Permutations(Profiles) \cup Permutations(Repos) \cup Permutations(Cloners)

==============================================================================
