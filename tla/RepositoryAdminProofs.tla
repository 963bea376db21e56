------------------------ MODULE RepositoryAdminProofs ------------------------
(* Theorems about RepositoryAdmin, for any number of profiles, repositories, *)
(* cloners and indexers, and whatever requests, commands, kills and faults   *)
(* there are: the profiles form trees of one version, every variable has its *)
(* type, clones are where their rows say, what is in the stores belongs to a *)
(* repository, and an indexed repository is in the graph.                    *)
EXTENDS RepositoryAdmin, TLAPS

-----------------------------------------------------------------------------
(* What the parts of the system leave alone.                                 *)

ConfiguresFrame ==
  /\ UNCHANGED <<disk, indexer, lock, graph, vectors, web, abandoned, known>>
  /\ Command /\ (UNCHANGED faults \/ Fault)
DeletesFrame == UNCHANGED <<disk, cloner, indexer, lock, abandoned, known, moved, byHand>>
StartsFrame ==
  UNCHANGED <<profile, disk, lock, graph, vectors, web, faults, abandoned, known>> /\ Command
ClonerFrame == UNCHANGED <<profile, indexer, lock, graph, vectors, web, requests, known>>
IndexerFrame == UNCHANGED <<profile, disk, cloner, web, requests, abandoned, moved, byHand>>

LEMMA ConfiguresOnly == ASSUME Configures PROVE ConfiguresFrame
<1>1. ASSUME NEW p, NEW n, NEW v, NEW parent, CreateProfile(p, n, v, parent) PROVE ConfiguresFrame
  BY <1>1 DEF CreateProfile, Request, ConfiguresFrame, processes, stores, auxiliary
<1>2. ASSUME NEW p, NEW n, NEW v, UpdateProfile(p, n, v) PROVE ConfiguresFrame
  BY <1>2 DEF UpdateProfile, Request, ConfiguresFrame, processes, stores
<1>3. ASSUME NEW p, NEW n, NEW v, CliAddProfile(p, n, v) PROVE ConfiguresFrame
  BY <1>3 DEF CliAddProfile, ConfiguresFrame, processes, stores, auxiliary
<1>4. ASSUME NEW p, NEW parent, SetProfileParent(p, parent) PROVE ConfiguresFrame
  BY <1>4 DEF SetProfileParent, Request, ConfiguresFrame, processes, stores, auxiliary
<1>5. ASSUME NEW r, NEW s, NEW p, AddRepo(r, p, s) PROVE ConfiguresFrame
  BY <1>5 DEF AddRepo, Request, ConfiguresFrame, stores, auxiliary
<1>6. ASSUME NEW r, NEW s, NEW p, NEW path, CliAddRepo(r, p, s, path) PROVE ConfiguresFrame
  BY <1>6 DEF CliAddRepo, ConfiguresFrame, processes, stores, auxiliary
<1>7. ASSUME NEW r, NEW s, NEW key, NEW path, UpdateRepo(r, s, key, path) PROVE ConfiguresFrame
  BY <1>7 DEF UpdateRepo, Request, ConfiguresFrame, processes, stores
<1>8. CASE DeleteSshKey
  BY <1>8 DEF DeleteSshKey, Request, ConfiguresFrame, stores, auxiliary
<1> QED
  BY <1>1, <1>2, <1>3, <1>4, <1>5, <1>6, <1>7, <1>8 DEF Configures

LEMMA DeletesOnly == ASSUME Deletes PROVE DeletesFrame
<1>1. ASSUME NEW r, DeleteRepo(r) PROVE DeletesFrame
  BY <1>1 DEF DeleteRepo, DeletesFrame, processes
<1>2. ASSUME NEW r, CliDeleteRepo(r) PROVE DeletesFrame
  BY <1>2 DEF CliDeleteRepo, DeletesFrame, processes
<1>3. ASSUME NEW p, DeleteProfile(p) PROVE DeletesFrame
  BY <1>3 DEF DeleteProfile, DeletesFrame, processes
<1>4. ASSUME NEW p, CliDeleteProfile(p) PROVE DeletesFrame
  BY <1>4 DEF CliDeleteProfile, DeletesFrame, processes
<1>5. CASE CollectsNames
  BY <1>5 DEF CollectsNames, DeletesFrame, processes
<1>6. CASE DeletesNodes
  BY <1>6 DEF DeletesNodes, DeletesFrame, processes
<1>7. CASE DeletesVectors
  BY <1>7 DEF DeletesVectors, DeletesFrame, processes
<1> QED
  BY <1>1, <1>2, <1>3, <1>4, <1>5, <1>6, <1>7 DEF Deletes

LEMMA StartsOnly == ASSUME Starts PROVE StartsFrame
<1>1. ASSUME NEW p, CloneAll(p) PROVE StartsFrame
  BY <1>1 DEF CloneAll, Request, Clones, StartsFrame, stores
<1>2. ASSUME NEW r, CliClone(r) PROVE StartsFrame
  BY <1>2 DEF CliClone, Clones, StartsFrame, stores
<1>3. ASSUME NEW r, ResetEmbed(r) PROVE StartsFrame
  BY <1>3 DEF ResetEmbed, Request, StartsFrame, stores, auxiliary
<1>4. ASSUME NEW r, NEW flags, IndexRepo(r, flags) PROVE StartsFrame
  BY <1>4 DEF IndexRepo, Request, StartsFrame, stores, auxiliary, rows
<1>5. ASSUME NEW flags, IndexAll(flags) PROVE StartsFrame
  BY <1>5 DEF IndexAll, Request, StartsFrame, stores, auxiliary, rows
<1> QED
  BY <1>1, <1>2, <1>3, <1>4, <1>5 DEF Starts

LEMMA ClonersOnly == ASSUME NEW c, ClonerStep(c) PROVE ClonerFrame
<1>1. CASE RowReads(c)
  BY <1>1 DEF RowReads, ClonerFrame, stores, auxiliary
<1>2. CASE MarksPending(c)
  BY <1>2 DEF MarksPending, ClonerFrame, stores, auxiliary
<1>3. CASE StartsGit(c)
  BY <1>3 DEF StartsGit, ClonerFrame, stores, auxiliary
<1>4. CASE GitFetches(c)
  BY <1>4 DEF GitFetches, ClonerFrame, processes, rows, stores, auxiliary
<1>5. CASE GitSucceeds(c)
  BY <1>5 DEF GitSucceeds, ClonerFrame, rows, stores, auxiliary
<1>6. CASE GitFails(c)
  BY <1>6 DEF GitFails, ClonerFrame, stores, auxiliary
<1>7. CASE SavesPath(c)
  BY <1>7 DEF SavesPath, ClonerFrame, stores
<1>8. CASE SetsCloned(c)
  BY <1>8 DEF SetsCloned, ClonerFrame, stores, auxiliary
<1>9. CASE ClonerIsKilled(c)
  BY <1>9 DEF ClonerIsKilled, ClonerFrame, rows, stores
<1> QED
  BY <1>1, <1>2, <1>3, <1>4, <1>5, <1>6, <1>7, <1>8, <1>9 DEF ClonerStep

LEMMA IndexersOnly == ASSUME NEW i, IndexerStep(i) PROVE IndexerFrame
<1>1. CASE NextProfile(i)
  BY <1>1 DEF NextProfile, IndexerFrame, rows, auxiliary
<1>2. CASE ReadsRows(i)
  BY <1>2 DEF ReadsRows, IndexerFrame, rows
<1>3. CASE TakesLock(i)
  BY <1>3 DEF TakesLock, IndexerFrame, rows, auxiliary
<1>4. CASE Finishes(i)
  BY <1>4 DEF Finishes, IndexerFrame, rows, auxiliary
<1>5. ASSUME NEW t, OpensRepo(i, t) PROVE IndexerFrame
  BY <1>5 DEF OpensRepo, IndexerFrame, rows, auxiliary
<1>6. CASE WritesGraph(i)
  BY <1>6 DEF WritesGraph, IndexerFrame, rows
<1>7. CASE AdvancesSha(i)
  BY <1>7 DEF AdvancesSha, IndexerFrame, auxiliary
<1>8. CASE RepoFails(i)
  BY <1>8 DEF RepoFails, IndexerFrame, rows, auxiliary
<1>9. CASE IndexerIsKilled(i)
  BY <1>9 DEF IndexerIsKilled, IndexerFrame, rows, auxiliary
<1> QED
  BY <1>1, <1>2, <1>3, <1>4, <1>5, <1>6, <1>7, <1>8, <1>9 DEF IndexerStep

-----------------------------------------------------------------------------
(* The profiles. Only their table matters: every other step leaves it alone. *)

ProfileRows == [state : {Unborn, "row", "gone"}, name : Names, version : Versions,
                parent : Profiles \cup {None}]
ProfilesOK == profile \in [Profiles -> ProfileRows]

HierarchyInv == ProfilesOK /\ HierarchyIsSound

\* A set that contains the parents of its members.
Cycle(S) == S # {} /\ \A x \in S : profile[x].parent \in S

LEMMA SelfIsAncestor ==
  ASSUME NEW p \in Profiles PROVE p \in AncestorsOf(p)
BY DEF AncestorsOf

LEMMA ParentOfAncestor ==
  ASSUME NEW p \in Profiles, NEW a \in AncestorsOf(p),
         profile[a].parent \in Profiles, None \notin Profiles
  PROVE  profile[a].parent \in AncestorsOf(p)
<1>1. SUFFICES ASSUME NEW S \in SUBSET Profiles, p \in S, ClosedUnderParents(S)
               PROVE  profile[a].parent \in S
  BY DEF AncestorsOf
<1>2. a \in S
  BY <1>1 DEF AncestorsOf
<1>3. QED
  BY <1>1, <1>2 DEF ClosedUnderParents

LEMMA NoCycles ==
  ASSUME HierarchyIsSound, NEW S \in SUBSET Live
  PROVE  ~ Cycle(S)
BY DEF HierarchyIsSound, Cycle

LEMMA LiveParent ==
  ASSUME HierarchyIsSound, NEW p \in Live, profile[p].parent # None
  PROVE  profile[p].parent \in Live /\ profile[profile[p].parent].version = profile[p].version
BY DEF HierarchyIsSound

\* A new row has a live parent or none, and nobody has it as parent yet.
LEMMA NewProfileKeeps ==
  ASSUME HierarchyInv, NEW p \in Profiles, NEW n \in Names, NEW v \in Versions,
         NEW parent \in Profiles \cup {None}, NewProfile(p, n, v, parent)
  PROVE  HierarchyInv'
<1>1. /\ p \notin Live
      /\ Live' = Live \cup {p}
      /\ profile'[p] = [state |-> "row", name |-> n, version |-> v, parent |-> parent]
      /\ \A x \in Profiles \ {p} : profile'[x] = profile[x]
  BY DEF NewProfile, Live, IsProfile, HierarchyInv, ProfilesOK, ProfileRows, Unborn
<1>2. ProfilesOK'
  BY DEF NewProfile, HierarchyInv, ProfilesOK, ProfileRows
<1>3. None \notin Profiles
  BY ConstantsAssumption
<1>4. parent # None => parent \in Live /\ profile[parent].version = v
  BY <1>3 DEF NewProfile, Live
<1>5. ASSUME NEW x \in Live', profile'[x].parent # None
      PROVE  profile'[x].parent \in Live' /\ profile'[profile'[x].parent].version = profile'[x].version
  <2>1. CASE x = p
    BY <1>1, <1>4, <1>5, <2>1 DEF Live
  <2>2. CASE x # p
    <3>1. x \in Live /\ profile'[x] = profile[x]
      BY <1>1, <2>2 DEF Live
    <3>2. profile[x].parent \in Live /\ profile[profile[x].parent].version = profile[x].version
      BY <1>5, <3>1, LiveParent DEF HierarchyInv
    <3>3. profile[x].parent \in Profiles \ {p}
      BY <1>1, <3>2 DEF Live
    <3>4. QED
      BY <1>1, <3>1, <3>2, <3>3
  <2>3. QED
    BY <2>1, <2>2
<1>6. ASSUME NEW S \in SUBSET Live', S # {}, \A x \in S : profile'[x].parent \in S
      PROVE  FALSE
  <2>1. \A x \in S \ {p} : x \in Live /\ profile'[x] = profile[x] /\ profile[x].parent \in S \ {p}
    <3>1. TAKE x \in S \ {p}
    <3>2. x \in Live /\ profile'[x] = profile[x]
      BY <1>1, <1>6 DEF Live
    <3>3. profile[x].parent \in S
      BY <1>6, <3>2
    <3>4. profile[x].parent # None
      BY <1>3, <1>6, <3>3 DEF Live
    <3>5. profile[x].parent \in Live
      BY <3>2, <3>4, LiveParent DEF HierarchyInv
    <3>6. QED
      BY <1>1, <3>2, <3>3, <3>5
  <2>2. S \ {p} # {}
    BY <1>1, <1>3, <1>4, <1>6 DEF Live
  <2>3. S \ {p} \in SUBSET Live
    BY <2>1
  <2>4. Cycle(S \ {p})
    BY <2>1, <2>2 DEF Cycle
  <2>5. QED
    BY <2>3, <2>4, NoCycles DEF HierarchyInv
<1>7. QED
  BY <1>2, <1>5, <1>6 DEF HierarchyInv, HierarchyIsSound

\* A new parent is not below the profile: the part of a cycle that the walk up
\* from the new parent sees would have been a cycle before.
LEMMA SetProfileParentKeeps ==
  ASSUME HierarchyInv, NEW p \in Profiles, NEW parent \in Profiles \cup {None},
         SetProfileParent(p, parent)
  PROVE  HierarchyInv'
<1>1. /\ p \in Live /\ Live' = Live
      /\ profile'[p].parent = parent
      /\ \A x \in Profiles : profile'[x].version = profile[x].version
      /\ \A x \in Profiles \ {p} : profile'[x] = profile[x]
  BY DEF SetProfileParent, Live, IsProfile, HierarchyInv, ProfilesOK, ProfileRows
<1>2. ProfilesOK'
  BY DEF SetProfileParent, HierarchyInv, ProfilesOK, ProfileRows
<1>3. None \notin Profiles
  BY ConstantsAssumption
<1>4. parent # None => /\ parent \in Live
                       /\ profile[parent].version = profile[p].version
                       /\ p \notin AncestorsOf(parent)
  BY <1>3 DEF SetProfileParent, ValidParent, Live
<1>5. ASSUME NEW x \in Live', profile'[x].parent # None
      PROVE  profile'[x].parent \in Live' /\ profile'[profile'[x].parent].version = profile'[x].version
  <2>1. CASE x = p
    BY <1>1, <1>4, <1>5, <2>1 DEF Live
  <2>2. CASE x # p
    <3>1. x \in Live /\ profile'[x] = profile[x]
      BY <1>1, <2>2 DEF Live
    <3>2. profile[x].parent \in Live /\ profile[profile[x].parent].version = profile[x].version
      BY <1>5, <3>1, LiveParent DEF HierarchyInv
    <3>3. QED
      BY <1>1, <3>1, <3>2 DEF Live
  <2>3. QED
    BY <2>1, <2>2
<1>6. ASSUME NEW S \in SUBSET Live', S # {}, \A x \in S : profile'[x].parent \in S
      PROVE  FALSE
  <2>1. CASE p \notin S
    <3>1. \A x \in S : profile[x].parent \in S
      BY <1>1, <1>6, <2>1 DEF Live
    <3>2. Cycle(S) /\ S \in SUBSET Live
      BY <1>1, <1>6, <3>1 DEF Cycle
    <3>3. QED
      BY <3>2, NoCycles DEF HierarchyInv
  <2>2. CASE p \in S
    <3> DEFINE A == S \cap AncestorsOf(parent)
    <3>1. parent \in S /\ parent \in Live /\ p \notin AncestorsOf(parent)
      BY <1>1, <1>3, <1>4, <1>6, <2>2 DEF Live
    <3>2. parent \in A
      BY <3>1, SelfIsAncestor DEF Live
    <3>3. ASSUME NEW x \in A PROVE profile[x].parent \in A
      <4>1. x # p /\ x \in Live
        BY <1>1, <1>6, <3>1
      <4>2. profile[x].parent \in S
        BY <1>1, <1>6, <4>1 DEF Live
      <4>3. profile[x].parent \in Profiles
        BY <1>1, <1>6, <4>2 DEF Live
      <4>4. profile[x].parent \in AncestorsOf(parent)
        BY <1>3, <3>1, <4>3, ParentOfAncestor DEF Live
      <4>5. QED
        BY <4>2, <4>4
    <3>4. Cycle(A) /\ A \in SUBSET Live
      BY <1>1, <1>6, <3>2, <3>3 DEF Cycle
    <3>5. QED
      BY <3>4, NoCycles DEF HierarchyInv
  <2>3. QED
    BY <2>1, <2>2
<1>7. QED
  BY <1>2, <1>5, <1>6 DEF HierarchyInv, HierarchyIsSound

\* An edit keeps the parents; its version is that of the parent, and a child is
\* a descendant, so it has the version too.
LEMMA UpdateProfileKeeps ==
  ASSUME HierarchyInv, NEW p \in Profiles, NEW n \in Names, NEW v \in Versions,
         UpdateProfile(p, n, v)
  PROVE  HierarchyInv'
<1>1. /\ p \in Live /\ Live' = Live
      /\ profile'[p].version = v
      /\ \A x \in Profiles : profile'[x].parent = profile[x].parent
      /\ \A x \in Profiles \ {p} : profile'[x] = profile[x]
  BY DEF UpdateProfile, Live, IsProfile, HierarchyInv, ProfilesOK, ProfileRows
<1>2. ProfilesOK'
  BY DEF UpdateProfile, HierarchyInv, ProfilesOK, ProfileRows
<1>3. None \notin Profiles
  BY ConstantsAssumption
<1>4. v # profile[p].version => ValidVersion(p, v)
  BY DEF UpdateProfile
<1>5. ASSUME NEW x \in Live, profile[x].parent # None
      PROVE  profile[x].parent \in Live /\ profile'[profile[x].parent].version = profile'[x].version
  <2>1. profile[x].parent \in Live /\ profile[profile[x].parent].version = profile[x].version
    BY <1>5, LiveParent DEF HierarchyInv
  <2>2. profile[x].parent # x
    <3>1. SUFFICES ASSUME profile[x].parent = x PROVE FALSE
      OBVIOUS
    <3>2. Cycle({x}) /\ {x} \in SUBSET Live
      BY <3>1 DEF Cycle
    <3>3. QED
      BY <3>2, NoCycles DEF HierarchyInv
  <2>3. CASE v = profile[p].version
    BY <1>1, <2>1, <2>3 DEF Live
  <2>4. CASE v # profile[p].version /\ x = p
    BY <1>1, <1>4, <1>5, <2>1, <2>2, <2>4 DEF ValidVersion, Live
  <2>5. CASE v # profile[p].version /\ profile[x].parent = p
    <3>1. p \in AncestorsOf(x)
      BY <1>3, <2>5, SelfIsAncestor, ParentOfAncestor DEF Live
    <3>2. x \in DescendantsOf(p)
      BY <2>2, <2>5, <3>1 DEF DescendantsOf, Live
    <3>3. profile[x].version = v
      BY <1>4, <2>5, <3>2 DEF ValidVersion
    <3>4. QED
      BY <1>1, <2>1, <2>2, <2>5, <3>3 DEF Live
  <2>6. CASE x # p /\ profile[x].parent # p
    BY <1>1, <2>1, <2>6 DEF Live
  <2>7. QED
    BY <2>3, <2>4, <2>5, <2>6
<1>6. ASSUME NEW S \in SUBSET Live, S # {}, \A x \in S : profile[x].parent \in S
      PROVE  FALSE
  BY <1>6, NoCycles DEF Cycle, HierarchyInv
<1>7. QED
  <2>1. \A x \in Live : profile'[x].parent = profile[x].parent
    BY <1>1 DEF Live
  <2>2. HierarchyIsSound'
    BY <1>1, <1>5, <1>6, <2>1 DEF HierarchyIsSound
  <2>3. QED
    BY <1>2, <2>2 DEF HierarchyInv

\* The foreign key refuses to delete a profile that is a parent.
LEMMA GoneKeeps ==
  ASSUME HierarchyInv, NEW p \in Profiles, IsProfile(p), ~ HasChildren(p),
         profile' = [profile EXCEPT ![p].state = "gone"]
  PROVE  HierarchyInv'
<1>1. /\ Live' = Live \ {p}
      /\ \A x \in Profiles : /\ profile'[x].parent = profile[x].parent
                             /\ profile'[x].version = profile[x].version
  BY DEF Live, IsProfile, HierarchyInv, ProfilesOK, ProfileRows
<1>2. ProfilesOK'
  BY DEF HierarchyInv, ProfilesOK, ProfileRows
<1>3. ASSUME NEW x \in Live', profile'[x].parent # None
      PROVE  profile'[x].parent \in Live' /\ profile'[profile'[x].parent].version = profile'[x].version
  <2>1. x \in Live /\ profile[x].parent # None /\ profile[x].parent # p
    BY <1>1, <1>3 DEF HasChildren, Live
  <2>2. profile[x].parent \in Live /\ profile[profile[x].parent].version = profile[x].version
    BY <2>1, LiveParent DEF HierarchyInv
  <2>3. QED
    BY <1>1, <2>1, <2>2 DEF Live
<1>4. ASSUME NEW S \in SUBSET Live', S # {}, \A x \in S : profile'[x].parent \in S
      PROVE  FALSE
  <2>1. Cycle(S) /\ S \in SUBSET Live
    BY <1>1, <1>4 DEF Cycle, Live
  <2>2. QED
    BY <2>1, NoCycles DEF HierarchyInv
<1>5. QED
  BY <1>2, <1>3, <1>4 DEF HierarchyInv, HierarchyIsSound

LEMMA UnchangedKeeps ==
  ASSUME HierarchyInv, UNCHANGED profile PROVE HierarchyInv'
BY DEF HierarchyInv, ProfilesOK, HierarchyIsSound, Live, IsProfile

LEMMA ConfiguresKeeps ==
  ASSUME HierarchyInv, Configures PROVE HierarchyInv'
<1>1. CASE \E p \in Profiles, n \in Names, v \in Versions, parent \in Profiles \cup {None} :
             CreateProfile(p, n, v, parent)
  BY <1>1, NewProfileKeeps DEF CreateProfile
<1>2. CASE \E p \in Profiles, n \in Names, v \in Versions : UpdateProfile(p, n, v)
  BY <1>2, UpdateProfileKeeps
<1>3. CASE \E p \in Profiles, n \in Names, v \in Versions : CliAddProfile(p, n, v)
  BY <1>3, NewProfileKeeps DEF CliAddProfile
<1>4. CASE \E p \in Profiles, parent \in Profiles \cup {None} : SetProfileParent(p, parent)
  BY <1>4, SetProfileParentKeeps
<1>5. ASSUME NEW r, NEW s, NEW p, AddRepo(r, p, s) PROVE HierarchyInv'
  BY <1>5, UnchangedKeeps DEF AddRepo
<1>6. ASSUME NEW r, NEW s, NEW p, NEW path, CliAddRepo(r, p, s, path) PROVE HierarchyInv'
  BY <1>6, UnchangedKeeps DEF CliAddRepo
<1>7. ASSUME NEW r, NEW s, NEW key, NEW path, UpdateRepo(r, s, key, path) PROVE HierarchyInv'
  BY <1>7, UnchangedKeeps DEF UpdateRepo
<1>8. CASE DeleteSshKey
  BY <1>8, UnchangedKeeps DEF DeleteSshKey
<1>9. QED
  BY <1>1, <1>2, <1>3, <1>4, <1>5, <1>6, <1>7, <1>8 DEF Configures

LEMMA DeletesKeeps ==
  ASSUME HierarchyInv, Deletes PROVE HierarchyInv'
<1>1. CASE \E r \in Repos : DeleteRepo(r) \/ CliDeleteRepo(r)
  BY <1>1, UnchangedKeeps DEF DeleteRepo, CliDeleteRepo
<1>2. CASE \E p \in Profiles : DeleteProfile(p) \/ CliDeleteProfile(p)
  BY <1>2, GoneKeeps DEF DeleteProfile, CliDeleteProfile
<1>3. CASE CollectsNames \/ DeletesNodes \/ DeletesVectors
  BY <1>3, UnchangedKeeps DEF CollectsNames, DeletesNodes, DeletesVectors, rows
<1>4. QED
  BY <1>1, <1>2, <1>3 DEF Deletes

\* What the shell leaves before the first request.
LEMMA InitRows ==
  ASSUME Init
  PROVE  /\ profile \in [Profiles -> {NoProfile} \cup
              [state : {"row"}, name : Names, version : Versions, parent : {None}]]
         /\ repo \in [Repos -> {NoRepo} \cup
              [state : {"row"}, profile : {p \in Profiles : profile[p].state = "row"},
               source : Sources, key : {FALSE}, path : Dirs, clone : {"manual"}, sha : {NoSource}]]
         /\ disk \in [Dirs -> Sources \cup {NoSource, Partial}]
<1>1. PICK b \in Begin : profile = b.profile /\ repo = b.repo /\ disk = b.disk
  BY DEF Init
<1>2. IsBeginning(b)
  BY ConstantsAssumption
<1> QED
  BY <1>1, <1>2 DEF IsBeginning

LEMMA InitHierarchy == Init => HierarchyInv
<1>1. SUFFICES ASSUME Init PROVE HierarchyInv
  OBVIOUS
<1>2. Names # {} /\ Versions # {} /\ None \notin Profiles
  BY ConstantsAssumption
<1>3. \A p \in Profiles : profile[p] \in ProfileRows /\ profile[p].parent = None
  <2> TAKE p \in Profiles
  <2>1. profile[p] = NoProfile
        \/ profile[p] \in [state : {"row"}, name : Names, version : Versions, parent : {None}]
    BY <1>1, InitRows
  <2> QED
    BY <1>2, <2>1 DEF ProfileRows, NoProfile, Unborn
<1>4. ProfilesOK
  BY <1>1, <1>3, InitRows DEF ProfilesOK
<1>5. ASSUME NEW S \in SUBSET Live, S # {} PROVE \E p \in S : profile[p].parent \notin S
  BY <1>2, <1>3, <1>5 DEF Live
<1>6. QED
  BY <1>3, <1>4, <1>5 DEF HierarchyInv, HierarchyIsSound, Live

LEMMA HierarchyStep == HierarchyInv /\ [Next]_vars => HierarchyInv'
<1>1. SUFFICES ASSUME HierarchyInv, [Next]_vars PROVE HierarchyInv'
  OBVIOUS
<1>2. CASE UNCHANGED vars
  BY <1>1, <1>2, UnchangedKeeps DEF vars
<1>3. CASE Configures
  BY <1>1, <1>3, ConfiguresKeeps
<1>4. CASE Deletes
  BY <1>1, <1>4, DeletesKeeps
<1>5. CASE Starts \/ (\E c \in Cloners : ClonerStep(c)) \/ \E i \in Indexers : IndexerStep(i)
  BY <1>1, <1>5, StartsOnly, ClonersOnly, IndexersOnly, UnchangedKeeps
  DEF StartsFrame, ClonerFrame, IndexerFrame
<1>6. QED
  BY <1>1, <1>2, <1>3, <1>4, <1>5 DEF Next

\* The parents of profiles exist, have the version of their children and contain
\* no cycle, in every reachable state (_validate_parent, add_profile,
\* update_profile, the foreign key).
THEOREM HierarchyIsAlwaysSound == Spec => []HierarchyIsSound
<1>1. HierarchyInv => HierarchyIsSound
  BY DEF HierarchyInv
<1>2. QED
  BY <1>1, InitHierarchy, HierarchyStep, PTL DEF Spec

-----------------------------------------------------------------------------
(* The table of repositories. A row that was ever inserted has a profile and *)
(* a URL, and a step does one of few things to it.                           *)

CloneStatuses == {"manual", "pending", "cloned", "error"}
RepoRows == [state : {Unborn, "row", "gone"}, profile : Profiles \cup {None},
             source : Sources \cup {NoSource}, key : BOOLEAN, path : Dirs,
             clone : CloneStatuses, sha : Sources \cup {NoSource}]
NewRows == [state : {"row"}, profile : Profiles, source : Sources, key : BOOLEAN,
            path : Dirs, clone : {"manual"}, sha : {NoSource}]

ReposOK ==
  /\ repo \in [Repos -> RepoRows]
  /\ \A r \in Repos : repo[r].state # Unborn => /\ repo[r].profile \in Profiles
                                               /\ repo[r].source \in Sources

Trees == Sources \cup {NoSource, Partial} \cup {Half(s) : s \in Sources}
DiskOK == disk \in [Dirs -> Trees]

ClonerRows == [at : {"ended", "starts", "marks", "clones", "git", "saves", "sets"},
               repo : Repos \cup {None}, source : Sources \cup {NoSource},
               key : BOOLEAN, dir : Dirs]
ClonersOK ==
  /\ cloner \in [Cloners -> ClonerRows]
  /\ \A c \in Cloners :
       /\ cloner[c].at # "ended" => /\ cloner[c].repo \in Repos
                                    /\ repo[cloner[c].repo].state # Unborn
       /\ cloner[c].at \notin {"ended", "starts"} => cloner[c].source \in Sources

IndexerRows == [at : {"ended", "starts", "reads", "locks", "next", "writes", "advances"},
                names : SUBSET Names, flags : CommandLines, name : Names,
                chain : SUBSET Names, todo : SUBSET Tasks, now : SUBSET Tasks,
                read : Sources \cup {NoSource}, part : SUBSET Modules]
IndexersOK ==
  /\ indexer \in [Indexers -> IndexerRows]
  /\ lock \in [Names -> Indexers \cup {None}]
  /\ \A i \in Indexers : indexer[i].at \in {"writes", "advances"} => indexer[i].read \in Sources

NodeRows == [there : BOOLEAN, dir : Dirs, by : SUBSET Names]
StoresOK == graph \in [Keys -> NodeRows] /\ vectors \subseteq Keys

WebOK ==
  /\ web \in [at : {"idle", "collects", "graph", "vectors"},
              pairs : SUBSET (Slugs \X Versions), keys : SUBSET Keys]
  /\ requests \in 0 .. MaxRequests /\ faults \in 0 .. MaxFaults
  /\ abandoned \subseteq Repos /\ known \subseteq Repos
  /\ left \subseteq Slugs \X Versions
  /\ moved \subseteq Repos /\ byHand \subseteq Repos /\ overrun \subseteq Repos

TypeInv == ProfilesOK /\ ReposOK /\ DiskOK /\ ClonersOK /\ IndexersOK /\ StoresOK /\ WebOK

\* A row that an indexer has read of gets another place.
LeavesPlace(r) == r \in known => r \in moved' /\ PairOf(r) \in left'

EditsRow(r)  == \E s \in Sources, key \in BOOLEAN, path \in Dirs :
                  /\ repo'[r] = [repo[r] EXCEPT !.source = s, !.key = key, !.path = path]
                  /\ path # repo[r].path => r \in byHand' /\ LeavesPlace(r)
NearRow(r)   == /\ repo'[r] = [repo[r] EXCEPT !.path = Home[repo[r].source], !.clone = "cloned"]
                /\ r \in byHand'
                /\ repo[r].path # Home[repo[r].source] => LeavesPlace(r)
MarksRow(r)  == \E status \in CloneStatuses : repo'[r] = [repo[r] EXCEPT !.clone = status]
PlacesRow(r) == \E c \in Cloners :
                  /\ cloner[c].at = "saves" /\ cloner[c].repo = r
                  /\ repo'[r] = [repo[r] EXCEPT !.path = cloner[c].dir]
                  /\ repo[r].path # cloner[c].dir => LeavesPlace(r)
StampsRow(r) == \E i \in Indexers : \E t \in indexer[i].now :
                  /\ indexer[i].at = "advances" /\ t.repo = r
                  /\ repo'[r] = [repo[r] EXCEPT !.sha = indexer[i].read]

\* A deleted row is left behind, or about to be cleaned up and in no indexer's hands.
InsertsRow(r) == repo'[r] \in NewRows /\ profile'[repo'[r].profile].state = "row"
Abandons(r) ==
  \/ PairOf(r) \in left'
  \/ /\ web.at = "idle" /\ web'.at = "collects" /\ PairOf(r) \in web'.pairs
     /\ ~ IsRunning(profile[repo[r].profile].name)
     /\ r \notin Awaited({r})
DeletesRow(r) == repo'[r] = [repo[r] EXCEPT !.state = "gone"] /\ Abandons(r)

\* What a request or an indexer does to a row, and what a cloner does to it.
AdminChange(r) ==
  \/ repo'[r] = repo[r]
  \/ repo[r].state = Unborn /\ InsertsRow(r)
  \/ repo'[r] = [repo[r] EXCEPT !.key = FALSE]
  \/ /\ repo[r].state = "row"
     /\ \/ DeletesRow(r)
        \/ repo'[r] = [repo[r] EXCEPT !.sha = NoSource]
        \/ EditsRow(r)
        \/ NearRow(r)
        \/ StampsRow(r)
RowChange(r) == AdminChange(r) \/ (repo[r].state = "row" /\ (MarksRow(r) \/ PlacesRow(r)))

SameRows    == repo' = [r \in Repos |-> repo'[r]]
AdminsRows  == SameRows /\ \A r \in Repos : AdminChange(r)
RowsChange  == SameRows /\ \A r \in Repos : RowChange(r)

LEMMA OneRowChanges ==
  ASSUME ReposOK, NEW r, IsRepo(r), NEW x, repo' = [repo EXCEPT ![r] = x],
         repo'[r] = x => RowChange(r)
  PROVE  RowsChange
<1>1. r \in Repos /\ repo = [q \in Repos |-> repo[q]]
  BY DEF IsRepo, ReposOK
<1>2. repo' = [q \in Repos |-> IF q = r THEN x ELSE repo[q]]
  BY <1>1
<1>3. \A q \in Repos : q # r => AdminChange(q)
  BY <1>2 DEF AdminChange
<1>4. repo'[r] = x
  BY <1>1, <1>2
<1> QED
  BY <1>1, <1>2, <1>3, <1>4 DEF RowsChange, SameRows, RowChange

LEMMA OneRowAdministered ==
  ASSUME ReposOK, NEW r, IsRepo(r), NEW x, repo' = [repo EXCEPT ![r] = x],
         repo'[r] = x => AdminChange(r)
  PROVE  AdminsRows
<1>1. r \in Repos /\ repo = [q \in Repos |-> repo[q]]
  BY DEF IsRepo, ReposOK
<1>2. repo' = [q \in Repos |-> IF q = r THEN x ELSE repo[q]]
  BY <1>1
<1>3. \A q \in Repos : q # r => AdminChange(q)
  BY <1>2 DEF AdminChange
<1>4. repo'[r] = x
  BY <1>1, <1>2
<1> QED
  BY <1>1, <1>2, <1>3, <1>4 DEF AdminsRows, SameRows

LEMMA NoRowChanges ==
  ASSUME ReposOK, UNCHANGED repo PROVE AdminsRows
BY DEF ReposOK, AdminsRows, SameRows, AdminChange

LEMMA GoneRows ==
  ASSUME ReposOK, NEW R \in SUBSET Repos, \A r \in R : IsRepo(r) /\ Abandons(r), repo' = Gone(R)
  PROVE  AdminsRows
BY DEF Gone, AdminsRows, SameRows, AdminChange, DeletesRow, IsRepo

LEMMA ClonerWrites ==
  ASSUME ReposOK, NEW c \in Cloners, NEW status \in CloneStatuses, NEW then,
         Writes(c, status, then)
  PROVE  RowsChange
<1>1. CASE IsRepo(cloner[c].repo)
  BY <1>1, OneRowChanges DEF Writes, RowChange, MarksRow, IsRepo
<1>2. CASE ~ IsRepo(cloner[c].repo)
  BY <1>2, NoRowChanges DEF Writes, AdminsRows, RowsChange, RowChange
<1> QED
  BY <1>1, <1>2

LEMMA MovesOne ==
  ASSUME NEW r, Moves({r}) PROVE LeavesPlace(r)
<1>1. r \in known => r \in {r} \cap known
  OBVIOUS
<1> QED
  BY <1>1 DEF Moves, LeavesPlace

LEMMA ConfiguresRows == TypeInv /\ Configures => AdminsRows
<1> SUFFICES ASSUME TypeInv, Configures PROVE AdminsRows
  OBVIOUS
<1>1. ReposOK /\ ProfilesOK /\ Paths \subseteq Dirs
  BY ConstantsAssumption DEF TypeInv
<1>2. ASSUME NEW r \in Repos, NEW s \in Sources, NEW p \in Profiles, NEW key \in BOOLEAN,
             NEW path \in Dirs, repo' = [repo EXCEPT ![r] = NewRow(p, s, key, path)],
             repo[r].state = Unborn, IsProfile(p), UNCHANGED profile
      PROVE  AdminsRows
  <2>1. NewRow(p, s, key, path) \in NewRows /\ NewRow(p, s, key, path).profile = p
    BY DEF NewRow, NewRows
  <2>2. repo' = [q \in Repos |-> IF q = r THEN NewRow(p, s, key, path) ELSE repo[q]]
    BY <1>1, <1>2 DEF ReposOK
  <2>3. InsertsRow(r)
    BY <1>2, <2>1, <2>2 DEF InsertsRow, IsProfile
  <2> QED
    BY <1>2, <2>2, <2>3 DEF AdminsRows, SameRows, AdminChange
<1>3. ASSUME NEW r \in Repos, NEW s \in Sources, NEW p \in Profiles, AddRepo(r, p, s)
      PROVE  AdminsRows
  <2>1. CloneDir(profile[p].name, s) \in Dirs
    BY <1>1 DEF CloneDir, Dirs, Slugs, ProfilesOK, ProfileRows
  <2>2. PICK key \in BOOLEAN, d \in Dirs : repo' = [repo EXCEPT ![r] = NewRow(p, s, key, d)]
    BY <1>1, <1>3, <2>1 DEF AddRepo
  <2> QED
    BY <1>2, <1>3, <2>2 DEF AddRepo
<1>4. ASSUME NEW r \in Repos, NEW s \in Sources, NEW p \in Profiles, NEW path \in Paths,
             CliAddRepo(r, p, s, path)
      PROVE  AdminsRows
  BY <1>1, <1>2, <1>4 DEF CliAddRepo
<1>5. ASSUME NEW r \in Repos, NEW s \in Sources, NEW key \in BOOLEAN,
             NEW path \in Paths \cup {repo[r].path}, UpdateRepo(r, s, key, path)
      PROVE  AdminsRows
  <2>1. IsRepo(r) /\ path \in Dirs
    BY <1>1, <1>5 DEF UpdateRepo, ReposOK, RepoRows
  <2>2. PICK x : x = [repo[r] EXCEPT !.source = s, !.key = key, !.path = path]
    OBVIOUS
  <2>3. repo' = [repo EXCEPT ![r] = x]
    BY <1>5, <2>2 DEF UpdateRepo
  <2>4. path # repo[r].path => Moves({r}) /\ r \in byHand'
    BY <1>5 DEF UpdateRepo
  <2>5. path # repo[r].path => r \in byHand' /\ LeavesPlace(r)
    BY <2>4, MovesOne
  <2>6. repo'[r] = x => EditsRow(r)
    BY <2>1, <2>2, <2>5 DEF EditsRow
  <2> QED
    BY <1>1, <2>1, <2>3, <2>6, OneRowAdministered DEF AdminChange, IsRepo
<1>6. CASE DeleteSshKey
  BY <1>6 DEF DeleteSshKey, AdminsRows, SameRows, AdminChange
<1>7. ASSUME NEW p, NEW n, NEW v, NEW parent, CreateProfile(p, n, v, parent) PROVE AdminsRows
  BY <1>1, <1>7, NoRowChanges DEF CreateProfile
<1>8. ASSUME NEW p, NEW n, NEW v, UpdateProfile(p, n, v) PROVE AdminsRows
  BY <1>1, <1>8, NoRowChanges DEF UpdateProfile
<1>9. ASSUME NEW p, NEW n, NEW v, CliAddProfile(p, n, v) PROVE AdminsRows
  BY <1>1, <1>9, NoRowChanges DEF CliAddProfile
<1>10. ASSUME NEW p, NEW parent, SetProfileParent(p, parent) PROVE AdminsRows
  BY <1>1, <1>10, NoRowChanges DEF SetProfileParent
<1> QED
  BY <1>3, <1>4, <1>5, <1>6, <1>7, <1>8, <1>9, <1>10 DEF Configures

LEMMA ClonesRows ==
  ASSUME TypeInv, NEW R \in SUBSET Repos, \A r \in R : IsRepo(r), Clones(R)
  PROVE  AdminsRows
<1>1. PICK near \in SUBSET {r \in R : Kind[repo[r].source] = "file"} :
        /\ repo' = [r \in Repos |->
             IF r \in near
             THEN [repo[r] EXCEPT !.path = Home[repo[r].source], !.clone = "cloned"]
             ELSE repo[r]]
        /\ Moves({r \in near : repo[r].path # Home[repo[r].source]})
        /\ byHand' = byHand \cup near
  BY DEF Clones
<1>2. ASSUME NEW r \in near PROVE r \in Repos /\ repo[r].state = "row" /\ NearRow(r)
  <2>1. repo[r].path # Home[repo[r].source] => LeavesPlace(r)
    BY <1>1, <1>2 DEF Moves, LeavesPlace
  <2> QED
    BY <1>1, <1>2, <2>1 DEF NearRow, IsRepo
<1>3. \A r \in Repos : r \notin near => repo'[r] = repo[r]
  BY <1>1
<1>4. SameRows
  BY <1>1 DEF SameRows
<1> QED
  BY <1>2, <1>3, <1>4 DEF AdminsRows, AdminChange

LEMMA OthersRows ==
  ASSUME TypeInv, Configures \/ Deletes \/ Starts \/ (\E i \in Indexers : IndexerStep(i)) \/ UNCHANGED vars
  PROVE  AdminsRows
<1>1. ReposOK
  BY DEF TypeInv
<1>2. CASE Deletes
  <2>0. \A r : r \in Awaited({r}) => \A R : r \in R => r \in Awaited(R)
    BY DEF Awaited
  <2>1. ASSUME NEW r \in Repos, DeleteRepo(r) PROVE AdminsRows
    <3>1. IsRepo(r) /\ repo' = Gone({r}) /\ StartsCleanup({r}) /\ web.at = "idle"
          /\ ~ IsRunning(profile[repo[r].profile].name)
      BY <2>1 DEF DeleteRepo, Request
    <3>2. Abandons(r)
      BY <3>1 DEF Abandons, StartsCleanup
    <3> QED
      BY <1>1, <3>1, <3>2, GoneRows
  <2>2. ASSUME NEW r \in Repos, CliDeleteRepo(r) PROVE AdminsRows
    <3>1. IsRepo(r) /\ repo' = Gone({r}) /\ Abandons(r)
      BY <2>2 DEF CliDeleteRepo, Abandons
    <3> QED
      BY <1>1, <3>1, GoneRows
  <2>3. ASSUME NEW p \in Profiles PROVE ReposOf(p) \in SUBSET Repos /\ \A r \in ReposOf(p) : IsRepo(r)
    BY DEF ReposOf
  <2>4. ASSUME NEW p \in Profiles, DeleteProfile(p) PROVE AdminsRows
    <3>1. repo' = Gone(ReposOf(p)) /\ StartsCleanup(ReposOf(p)) /\ web.at = "idle"
          /\ ~ IsRunning(profile[p].name)
      BY <2>4 DEF DeleteProfile, Request
    <3>2. ASSUME NEW r \in ReposOf(p) PROVE Abandons(r)
      <4>1. repo[r].profile = p
        BY DEF ReposOf
      <4>2. r \in Awaited({r}) => PairOf(r) \in left'
        BY <2>0, <3>1, <3>2 DEF StartsCleanup
      <4> QED
        BY <3>1, <3>2, <4>1, <4>2 DEF Abandons, StartsCleanup
    <3> QED
      BY <1>1, <2>3, <3>1, <3>2, GoneRows
  <2>5. ASSUME NEW p \in Profiles, CliDeleteProfile(p) PROVE AdminsRows
    <3>1. repo' = Gone(ReposOf(p)) /\ \A r \in ReposOf(p) : Abandons(r)
      BY <2>5 DEF CliDeleteProfile, Abandons
    <3> QED
      BY <1>1, <2>3, <3>1, GoneRows
  <2>6. CASE CollectsNames \/ DeletesNodes \/ DeletesVectors
    BY <1>1, <2>6, NoRowChanges DEF CollectsNames, DeletesNodes, DeletesVectors, rows
  <2> QED
    BY <1>2, <2>1, <2>2, <2>4, <2>5, <2>6 DEF Deletes
<1>3. CASE Starts
  <2>1. ASSUME NEW p \in Profiles, CloneAll(p) PROVE AdminsRows
    <3> DEFINE open == {r \in ReposOf(p) : repo[r].clone # "cloned"}
    <3>1. open \in SUBSET Repos /\ (\A r \in open : IsRepo(r)) /\ Clones(open)
      BY <2>1 DEF CloneAll, ReposOf
    <3> HIDE DEF open
    <3> QED
      BY <3>1, ClonesRows
  <2>2. ASSUME NEW r \in Repos, CliClone(r) PROVE AdminsRows
    BY <2>2, ClonesRows DEF CliClone
  <2>3. ASSUME NEW r \in Repos, ResetEmbed(r) PROVE AdminsRows
    <3>1. repo' = [repo EXCEPT ![r] = [repo[r] EXCEPT !.sha = NoSource]] /\ IsRepo(r)
      BY <2>3 DEF ResetEmbed
    <3> QED
      BY <1>1, <3>1, OneRowAdministered DEF AdminChange, IsRepo
  <2>4. ASSUME NEW flags, (\E r \in Repos : IndexRepo(r, flags)) \/ IndexAll(flags)
        PROVE  AdminsRows
    BY <1>1, <2>4, NoRowChanges DEF IndexRepo, IndexAll, rows
  <2> QED
    BY <1>3, <2>1, <2>2, <2>3, <2>4 DEF Starts
<1>4. ASSUME NEW i \in Indexers, IndexerStep(i) PROVE AdminsRows
  <2>1. CASE AdvancesSha(i)
    <3>1. CASE UNCHANGED repo
      BY <1>1, <3>1, NoRowChanges
    <3>2. ASSUME NEW t \in indexer[i].now, IsRepo(t.repo),
                 repo' = [repo EXCEPT ![t.repo] = [repo[t.repo] EXCEPT !.sha = indexer[i].read]]
          PROVE  AdminsRows
      <4>1. indexer[i].at = "advances"
        BY <2>1 DEF AdvancesSha
      <4> QED
        BY <1>1, <3>2, <4>1, OneRowAdministered DEF AdminChange, StampsRow, IsRepo
    <3> QED
      BY <2>1, <3>1, <3>2 DEF AdvancesSha
  <2>2. CASE UNCHANGED repo
    BY <1>1, <2>2, NoRowChanges
  <2>3. ASSUME NEW t, OpensRepo(i, t) PROVE UNCHANGED repo
    BY <2>3 DEF OpensRepo, rows
  <2>4. CASE NextProfile(i) \/ ReadsRows(i) \/ TakesLock(i) \/ Finishes(i)
    BY <2>2, <2>4 DEF NextProfile, ReadsRows, TakesLock, Finishes, rows
  <2>5. CASE WritesGraph(i) \/ RepoFails(i) \/ IndexerIsKilled(i)
    BY <2>2, <2>5 DEF WritesGraph, RepoFails, IndexerIsKilled, rows
  <2> QED
    BY <1>4, <2>1, <2>2, <2>3, <2>4, <2>5 DEF IndexerStep
<1>5. CASE UNCHANGED vars
  BY <1>1, <1>5, NoRowChanges DEF vars
<1> QED
  BY <1>2, <1>3, <1>4, <1>5, ConfiguresRows

LEMMA RowsStep == TypeInv /\ [Next]_vars => RowsChange
<1> SUFFICES ASSUME TypeInv, [Next]_vars PROVE RowsChange
  OBVIOUS
<1>1. ReposOK
  BY DEF TypeInv
<1>2. ASSUME AdminsRows PROVE RowsChange
  BY <1>2 DEF AdminsRows, RowsChange, RowChange
<1>3. ASSUME NEW c \in Cloners, ClonerStep(c) PROVE RowsChange
  <2>1. CASE RowReads(c)
    <3>1. CASE UNCHANGED repo
      BY <1>1, <3>1, <1>2, NoRowChanges
    <3>2. CASE /\ IsRepo(cloner[c].repo)
               /\ repo' = [repo EXCEPT ![cloner[c].repo] = [repo[cloner[c].repo] EXCEPT !.clone = "error"]]
      BY <1>1, <3>2, OneRowChanges DEF RowChange, MarksRow, CloneStatuses, IsRepo
    <3> QED
      BY <2>1, <3>1, <3>2 DEF RowReads
  <2>2. CASE MarksPending(c) \/ StartsGit(c) \/ GitFails(c) \/ SetsCloned(c)
    BY <1>1, <2>2, <1>2, NoRowChanges, ClonerWrites
    DEF MarksPending, StartsGit, GitFails, SetsCloned, CloneStatuses
  <2>3. CASE SavesPath(c)
    <3>1. CASE UNCHANGED repo
      BY <1>1, <3>1, <1>2, NoRowChanges
    <3>2. CASE /\ IsRepo(cloner[c].repo)
               /\ repo' = [repo EXCEPT ![cloner[c].repo] = [repo[cloner[c].repo] EXCEPT !.path = cloner[c].dir]]
               /\ Moves(IF repo[cloner[c].repo].path = cloner[c].dir THEN {} ELSE {cloner[c].repo})
      <4> DEFINE r == cloner[c].repo
      <4>1. cloner[c].at = "saves"
        BY <2>3 DEF SavesPath
      <4>2. repo[r].path # cloner[c].dir => LeavesPlace(r)
        BY <3>2, MovesOne DEF r
      <4>3. repo'[r] = [repo[r] EXCEPT !.path = cloner[c].dir] => RowChange(r)
        BY <3>2, <4>1, <4>2 DEF RowChange, PlacesRow, IsRepo
      <4> QED
        BY <1>1, <3>2, <4>3, OneRowChanges
    <3> QED
      BY <2>3, <3>1, <3>2 DEF SavesPath
  <2>4. CASE GitFetches(c) \/ GitSucceeds(c) \/ ClonerIsKilled(c)
    BY <1>1, <2>4, <1>2, NoRowChanges DEF GitFetches, GitSucceeds, ClonerIsKilled, rows
  <2> QED
    BY <1>3, <2>1, <2>2, <2>3, <2>4 DEF ClonerStep
<1> QED
  BY <1>2, <1>3, OthersRows DEF Next

LEMMA ReposStep == TypeInv /\ [Next]_vars => ReposOK'
<1> SUFFICES ASSUME TypeInv, [Next]_vars PROVE ReposOK'
  OBVIOUS
<1>1. /\ ReposOK /\ RowsChange
      /\ \A c \in Cloners : cloner[c].dir \in Dirs
      /\ \A i \in Indexers : indexer[i].read \in Sources \cup {NoSource}
  BY RowsStep DEF TypeInv, ClonersOK, ClonerRows, IndexersOK, IndexerRows
<1>2. ASSUME NEW r \in Repos
      PROVE  /\ repo'[r] \in RepoRows
             /\ repo'[r].state # Unborn => repo'[r].profile \in Profiles /\ repo'[r].source \in Sources
  <2>1. /\ repo[r] \in RepoRows
        /\ repo[r].state # Unborn => repo[r].profile \in Profiles /\ repo[r].source \in Sources
        /\ RowChange(r)
    BY <1>1 DEF ReposOK, RowsChange
  <2>2. CASE repo[r].state = Unborn /\ InsertsRow(r)
    BY <2>2 DEF InsertsRow, NewRows, RepoRows, CloneStatuses
  <2>3. CASE repo'[r] = repo[r] \/ repo'[r] = [repo[r] EXCEPT !.key = FALSE]
    BY <2>1, <2>3 DEF RepoRows
  <2>4. CASE /\ repo[r].state = "row"
             /\ DeletesRow(r) \/ repo'[r] = [repo[r] EXCEPT !.sha = NoSource]
    BY <2>1, <2>4 DEF RepoRows, DeletesRow, Unborn
  <2>5. CASE repo[r].state = "row" /\ (EditsRow(r) \/ MarksRow(r) \/ PlacesRow(r) \/ StampsRow(r))
    BY <1>1, <2>1, <2>5 DEF RepoRows, EditsRow, MarksRow, PlacesRow, StampsRow, Unborn
  <2>6. CASE repo[r].state = "row" /\ NearRow(r)
    <3>1. Home[repo[r].source] \in Dirs
      BY <2>1, <2>6, ConstantsAssumption DEF Unborn
    <3> QED
      BY <2>1, <2>6, <3>1 DEF RepoRows, NearRow, CloneStatuses, Unborn
  <2> QED
    BY <2>1, <2>2, <2>3, <2>4, <2>5, <2>6 DEF RowChange, AdminChange
<1>3. repo' \in [Repos -> RepoRows]
  BY <1>1, <1>2 DEF RowsChange, SameRows
<1> QED
  BY <1>2, <1>3 DEF ReposOK

-----------------------------------------------------------------------------
(* The cloners. A step that is not their own starts one that has ended, or   *)
(* takes its key away.                                                       *)

Calm(c) == \E key \in BOOLEAN : cloner'[c] = [cloner[c] EXCEPT !.key = key]
Starting(c) ==
  /\ cloner[c].at = "ended"
  /\ \E r \in Repos : repo'[r].state # Unborn /\ cloner'[c] = Spawned(r)

ClonersCalm == cloner' = [c \in Cloners |-> cloner'[c]] /\ \A c \in Cloners : Calm(c) \/ Starting(c)

LEMMA UnchangedIsCalm == ASSUME ClonersOK, UNCHANGED cloner PROVE ClonersCalm
<1>1. \A c \in Cloners : cloner[c].key \in BOOLEAN /\ cloner[c] \in ClonerRows
  BY DEF ClonersOK, ClonerRows
<1>2. ASSUME NEW c \in Cloners PROVE Calm(c)
  <2>1. cloner'[c] = [cloner[c] EXCEPT !.key = cloner[c].key]
    BY <1>1 DEF ClonerRows
  <2> QED
    BY <1>1, <2>1 DEF Calm
<1> QED
  BY <1>2 DEF ClonersCalm, ClonersOK

LEMMA SpawnsAreCalm ==
  ASSUME ClonersOK, NEW R \in SUBSET Repos, \A r \in R : repo'[r].state # Unborn, SpawnsCloners(R)
  PROVE  ClonersCalm
<1>1. PICK f \in [R -> Cloners] :
        /\ \A r \in R : cloner[f[r]].at = "ended"
        /\ cloner' = [c \in Cloners |->
             IF \E r \in R : f[r] = c THEN Spawned(CHOOSE r \in R : f[r] = c) ELSE cloner[c]]
  BY DEF SpawnsCloners
<1>2. ASSUME NEW c \in Cloners, NEW q \in R, f[q] = c PROVE Starting(c)
  <2> DEFINE r == CHOOSE r \in R : f[r] = c
  <2>1. r \in R /\ f[r] = c
    BY <1>2
  <2>2. cloner'[c] = Spawned(r)
    BY <1>1, <1>2
  <2> HIDE DEF r
  <2> QED
    BY <1>1, <2>1, <2>2 DEF Starting
<1>3. ASSUME NEW c \in Cloners, ~ \E q \in R : f[q] = c PROVE Calm(c)
  <2>1. cloner'[c] = cloner[c] /\ cloner[c] \in ClonerRows
    BY <1>1, <1>3 DEF ClonersOK
  <2>2. cloner'[c] = [cloner[c] EXCEPT !.key = cloner[c].key] /\ cloner[c].key \in BOOLEAN
    BY <2>1 DEF ClonerRows
  <2> QED
    BY <2>2 DEF Calm
<1> QED
  BY <1>1, <1>2, <1>3 DEF ClonersCalm

LEMMA ClonesAreCalm ==
  ASSUME TypeInv, NEW R \in SUBSET Repos, \A r \in R : IsRepo(r), Clones(R)
  PROVE  ClonersCalm /\ UNCHANGED disk /\ byHand \subseteq byHand'
<1>1. ClonersOK /\ ReposOK
  BY DEF TypeInv
<1>2. PICK near \in SUBSET R :
        /\ repo' = [r \in Repos |->
             IF r \in near
             THEN [repo[r] EXCEPT !.path = Home[repo[r].source], !.clone = "cloned"]
             ELSE repo[r]]
        /\ SpawnsCloners(R \ near)
  <2>1. PICK near \in SUBSET {r \in R : Kind[repo[r].source] = "file"} :
        /\ repo' = [r \in Repos |->
             IF r \in near
             THEN [repo[r] EXCEPT !.path = Home[repo[r].source], !.clone = "cloned"]
             ELSE repo[r]]
        /\ SpawnsCloners(R \ near)
    BY DEF Clones
  <2>2. near \in SUBSET R
    OBVIOUS
  <2> QED
    BY <2>1, <2>2
<1>3. \A r \in R \ near : repo'[r].state # Unborn
  BY <1>1, <1>2 DEF IsRepo, Unborn
<1>4. R \ near \in SUBSET Repos
  OBVIOUS
<1>5. ClonersCalm
  BY <1>1, <1>2, <1>3, <1>4, SpawnsAreCalm
<1> QED
  BY <1>5 DEF Clones

\* Only a cloner takes a repository out of an administrator's hands.
LEMMA OthersAreCalm ==
  ASSUME TypeInv, Configures \/ Deletes \/ Starts \/ (\E i \in Indexers : IndexerStep(i)) \/ UNCHANGED vars
  PROVE  ClonersCalm /\ UNCHANGED disk /\ byHand \subseteq byHand'
<1>1. ClonersOK /\ ReposOK
  BY DEF TypeInv
<1>2. CASE UNCHANGED <<cloner, disk>> /\ byHand \subseteq byHand'
  BY <1>1, <1>2, UnchangedIsCalm
<1>3. ASSUME NEW r \in Repos, NEW s, NEW p, AddRepo(r, p, s)
      PROVE  ClonersCalm /\ UNCHANGED disk /\ byHand \subseteq byHand'
  <2>1. CASE SpawnsCloners({r})
    <3>1. \E x, y : repo' = [repo EXCEPT ![r] = NewRow(p, s, y, x)]
      BY <1>3 DEF AddRepo
    <3>2. repo'[r].state # Unborn
      BY <1>1, <3>1 DEF ReposOK, NewRow, Unborn
    <3> QED
      BY <1>1, <1>3, <2>1, <3>2, SpawnsAreCalm DEF AddRepo, auxiliary
  <2>2. CASE UNCHANGED cloner
    BY <1>2, <1>3, <2>2 DEF AddRepo, auxiliary
  <2> QED
    BY <1>3, <2>1, <2>2 DEF AddRepo
<1>4. CASE DeleteSshKey
  <2>1. ASSUME NEW c \in Cloners PROVE Calm(c)
    BY <1>4 DEF DeleteSshKey, Calm
  <2> QED
    BY <1>4, <2>1 DEF DeleteSshKey, ClonersCalm, auxiliary
<1>5. CASE Configures
  <2>1. ASSUME NEW p, NEW n, NEW v, NEW parent, CreateProfile(p, n, v, parent)
        PROVE  UNCHANGED <<cloner, disk, byHand>>
    BY <2>1 DEF CreateProfile, processes, auxiliary
  <2>2. ASSUME NEW p, NEW n, NEW v, UpdateProfile(p, n, v) PROVE UNCHANGED <<cloner, disk, byHand>>
    BY <2>2 DEF UpdateProfile, processes
  <2>3. ASSUME NEW p, NEW n, NEW v, CliAddProfile(p, n, v) PROVE UNCHANGED <<cloner, disk, byHand>>
    BY <2>3 DEF CliAddProfile, processes, auxiliary
  <2>4. ASSUME NEW p, NEW parent, SetProfileParent(p, parent) PROVE UNCHANGED <<cloner, disk, byHand>>
    BY <2>4 DEF SetProfileParent, processes, auxiliary
  <2>5. ASSUME NEW r, NEW s, NEW p, NEW path, CliAddRepo(r, p, s, path)
        PROVE  UNCHANGED <<cloner, disk, byHand>>
    BY <2>5 DEF CliAddRepo, processes, auxiliary
  <2>6. ASSUME NEW r, NEW s, NEW key, NEW path, UpdateRepo(r, s, key, path)
        PROVE  UNCHANGED <<cloner, disk>> /\ byHand \subseteq byHand'
    BY <2>6 DEF UpdateRepo, processes
  <2> QED
    BY <1>2, <1>3, <1>4, <1>5, <2>1, <2>2, <2>3, <2>4, <2>5, <2>6 DEF Configures
<1>6. CASE Deletes
  BY <1>2, <1>6, DeletesOnly DEF DeletesFrame
<1>7. CASE Starts
  <2>1. ASSUME NEW p \in Profiles, CloneAll(p)
        PROVE  ClonersCalm /\ UNCHANGED disk /\ byHand \subseteq byHand'
    <3> DEFINE open == {r \in ReposOf(p) : repo[r].clone # "cloned"}
    <3>1. open \in SUBSET Repos /\ (\A r \in open : IsRepo(r)) /\ Clones(open)
      BY <2>1 DEF CloneAll, ReposOf
    <3> HIDE DEF open
    <3> QED
      BY <3>1, ClonesAreCalm
  <2>2. ASSUME NEW r \in Repos, CliClone(r)
        PROVE  ClonersCalm /\ UNCHANGED disk /\ byHand \subseteq byHand'
    BY <2>2, ClonesAreCalm DEF CliClone
  <2>3. ASSUME NEW r, ResetEmbed(r) PROVE UNCHANGED <<cloner, disk, byHand>>
    BY <2>3 DEF ResetEmbed, auxiliary
  <2>4. ASSUME NEW r, NEW flags, IndexRepo(r, flags) PROVE UNCHANGED <<cloner, disk, byHand>>
    BY <2>4 DEF IndexRepo, auxiliary
  <2>5. ASSUME NEW flags, IndexAll(flags) PROVE UNCHANGED <<cloner, disk, byHand>>
    BY <2>5 DEF IndexAll, auxiliary
  <2> QED
    BY <1>2, <1>7, <2>1, <2>2, <2>3, <2>4, <2>5 DEF Starts
<1>8. CASE \E i \in Indexers : IndexerStep(i)
  BY <1>2, <1>8, IndexersOnly DEF IndexerFrame
<1>9. CASE UNCHANGED vars
  BY <1>2, <1>9 DEF vars
<1> QED
  BY <1>5, <1>6, <1>7, <1>8, <1>9

\* What a cloner is doing next, when its statement found the row or needs none.
Goes(c, place) == cloner' = [cloner EXCEPT ![c] = [cloner[c] EXCEPT !.at = place]]
Stops(c) == cloner' = [cloner EXCEPT ![c] = NoCloner]
Reads(c) ==
  LET r == cloner[c].repo IN
  /\ IsRepo(r)
  /\ cloner' = [cloner EXCEPT ![c] =
       [at |-> "marks", repo |-> r, source |-> repo[r].source, key |-> repo[r].key,
        dir |-> CloneDir(profile[repo[r].profile].name, repo[r].source)]]

LEMMA ClonerMoves ==
  ASSUME NEW c \in Cloners, ClonerStep(c)
  PROVE  /\ cloner[c].at # "ended"
         /\ \/ cloner[c].at = "starts" /\ Reads(c)
            \/ \E place \in {"clones", "git", "saves", "sets"} :
                 cloner[c].at \in {"marks", "clones", "git", "saves"} /\ Goes(c, place)
            \/ Stops(c)
            \/ UNCHANGED cloner
<1>1. CASE RowReads(c)
  BY <1>1 DEF RowReads, Reads, Stops
<1>2. CASE MarksPending(c) \/ StartsGit(c)
  BY <1>2 DEF MarksPending, StartsGit, Writes, Goes, Stops
<1>3. CASE GitFetches(c)
  BY <1>3 DEF GitFetches, processes
<1>4. CASE GitSucceeds(c) \/ GitFails(c)
  BY <1>4 DEF GitSucceeds, GitFails, Writes, Goes, Stops
<1>5. CASE SavesPath(c) \/ SetsCloned(c)
  BY <1>5 DEF SavesPath, SetsCloned, Writes, Goes, Stops
<1>6. CASE ClonerIsKilled(c)
  BY <1>6 DEF ClonerIsKilled, Stops
<1> QED
  BY <1>1, <1>2, <1>3, <1>4, <1>5, <1>6 DEF ClonerStep

\* A row that was ever inserted does not become unborn again.
LEMMA RowsStay ==
  ASSUME TypeInv, [Next]_vars, NEW r \in Repos, repo[r].state # Unborn
  PROVE  repo'[r].state # Unborn
<1>1. RowChange(r) /\ repo[r] \in RepoRows
  BY RowsStep DEF RowsChange, TypeInv, ReposOK
<1> QED
  BY <1>1 DEF RowChange, AdminChange, RepoRows, NewRows, InsertsRow, DeletesRow, EditsRow, NearRow,
     MarksRow, PlacesRow, StampsRow, Unborn

LEMMA ClonersStep == TypeInv /\ [Next]_vars => ClonersOK'
<1> SUFFICES ASSUME TypeInv, [Next]_vars PROVE ClonersOK'
  OBVIOUS
<1> DEFINE Fine(c) ==
      /\ cloner'[c] \in ClonerRows
      /\ cloner'[c].at # "ended" => /\ cloner'[c].repo \in Repos
                                    /\ repo'[cloner'[c].repo].state # Unborn
      /\ cloner'[c].at \notin {"ended", "starts"} => cloner'[c].source \in Sources
<1>1. ClonersOK /\ ReposOK /\ ProfilesOK
  BY DEF TypeInv
<1>2. NoCloner \in ClonerRows /\ NoCloner.at = "ended"
  <2>1. Dirs # {}
    BY ConstantsAssumption
  <2> QED
    BY <2>1 DEF NoCloner, ClonerRows
<1>3. ASSUME NEW c \in Cloners, cloner'[c] = cloner[c] PROVE Fine(c)
  BY <1>1, <1>3, RowsStay DEF ClonersOK
<1>4. CASE ClonersCalm
  <2>1. ASSUME NEW c \in Cloners, Calm(c) PROVE Fine(c)
    <3>1. cloner[c] \in ClonerRows
      BY <1>1 DEF ClonersOK
    <3>2. /\ cloner'[c] \in ClonerRows
          /\ cloner'[c].at = cloner[c].at
          /\ cloner'[c].repo = cloner[c].repo
          /\ cloner'[c].source = cloner[c].source
      BY <2>1, <3>1 DEF Calm, ClonerRows
    <3> QED
      BY <1>1, <3>2, RowsStay DEF ClonersOK
  <2>2. ASSUME NEW c \in Cloners, Starting(c) PROVE Fine(c)
    <3>1. PICK r \in Repos : repo'[r].state # Unborn /\ cloner'[c] = Spawned(r)
      BY <2>2 DEF Starting
    <3>2. /\ Spawned(r) \in ClonerRows
          /\ Spawned(r).at = "starts" /\ Spawned(r).repo = r
      BY <1>2 DEF Spawned, ClonerRows, NoCloner
    <3> QED
      BY <3>1, <3>2
  <2>3. \A c \in Cloners : Fine(c)
    BY <1>4, <2>1, <2>2 DEF ClonersCalm
  <2> QED
    BY <1>4, <2>3 DEF ClonersCalm, ClonersOK
<1>5. ASSUME NEW c \in Cloners, ClonerStep(c) PROVE ClonersOK'
  <2>1. cloner[c] \in ClonerRows /\ cloner[c].repo \in Repos /\ repo'[cloner[c].repo].state # Unborn
    BY <1>1, <1>5, ClonerMoves, RowsStay DEF ClonersOK
  <2>2. CASE Reads(c)
    <3> DEFINE r == cloner[c].repo
    <3>1. /\ repo[r].profile \in Profiles /\ repo[r].source \in Sources
          /\ repo[r].key \in BOOLEAN
      BY <1>1, <2>1, <2>2 DEF Reads, IsRepo, ReposOK, RepoRows, Unborn
    <3>2. CloneDir(profile[repo[r].profile].name, repo[r].source) \in Dirs
      BY <1>1, <3>1 DEF CloneDir, Dirs, Slugs, ProfilesOK, ProfileRows
    <3>3. PICK x : x = [at |-> "marks", repo |-> r, source |-> repo[r].source, key |-> repo[r].key,
                        dir |-> CloneDir(profile[repo[r].profile].name, repo[r].source)]
      OBVIOUS
    <3>4. x \in ClonerRows /\ x.at = "marks" /\ x.repo = r /\ x.source \in Sources
      BY <2>1, <3>1, <3>2, <3>3 DEF ClonerRows
    <3>5. cloner' = [cloner EXCEPT ![c] = x]
      BY <2>2, <3>3 DEF Reads
    <3>6. Fine(c)
      BY <1>1, <2>1, <3>4, <3>5 DEF ClonersOK
    <3>7. \A d \in Cloners : d # c => Fine(d)
      BY <1>1, <1>3, <3>5 DEF ClonersOK
    <3>8. cloner' \in [Cloners -> ClonerRows]
      BY <1>1, <3>4, <3>5 DEF ClonersOK
    <3> QED
      BY <3>6, <3>7, <3>8 DEF ClonersOK
  <2>3. ASSUME NEW place \in {"clones", "git", "saves", "sets"},
               cloner[c].at \in {"marks", "clones", "git", "saves"}, Goes(c, place)
        PROVE  ClonersOK'
    <3>1. PICK x : x = [cloner[c] EXCEPT !.at = place]
      OBVIOUS
    <3>2. x \in ClonerRows /\ x.repo = cloner[c].repo /\ x.source \in Sources
      <4>1. cloner[c].source \in Sources
        BY <1>1, <2>3 DEF ClonersOK
      <4> QED
        BY <2>1, <3>1, <4>1 DEF ClonerRows
    <3>3. cloner' = [cloner EXCEPT ![c] = x]
      BY <2>3, <3>1 DEF Goes
    <3>4. Fine(c)
      BY <1>1, <2>1, <3>2, <3>3 DEF ClonersOK
    <3>5. \A d \in Cloners : d # c => Fine(d)
      BY <1>1, <1>3, <3>3 DEF ClonersOK
    <3>6. cloner' \in [Cloners -> ClonerRows]
      BY <1>1, <3>2, <3>3 DEF ClonersOK
    <3> QED
      BY <3>4, <3>5, <3>6 DEF ClonersOK
  <2>4. CASE Stops(c)
    <3>1. \A d \in Cloners : d # c => Fine(d)
      BY <1>1, <1>3, <2>4 DEF Stops, ClonersOK
    <3>2. cloner' \in [Cloners -> ClonerRows] /\ Fine(c)
      BY <1>1, <1>2, <2>4 DEF Stops, ClonersOK
    <3> QED
      BY <3>1, <3>2 DEF ClonersOK
  <2>5. CASE UNCHANGED cloner
    BY <1>1, <1>3, <2>5 DEF ClonersOK
  <2> QED
    BY <1>5, <2>2, <2>3, <2>4, <2>5, ClonerMoves
<1> QED
  BY <1>4, <1>5, OthersAreCalm DEF Next

\* Only cloners write to the disk, and what they write is a checkout or a part of one.
LEMMA DiskWrites ==
  ASSUME NEW c \in Cloners, ClonerStep(c)
  PROVE  \/ UNCHANGED disk
         \/ /\ cloner[c].at \in {"clones", "git"}
            /\ \E tree \in {NoSource, Partial, Half(cloner[c].source), cloner[c].source, disk[cloner[c].dir]} :
                  disk' = [disk EXCEPT ![cloner[c].dir] = tree]
            /\ cloner[c].at = "clones" => disk[cloner[c].dir] = NoSource
<1>1. CASE RowReads(c) \/ MarksPending(c) \/ SavesPath(c) \/ SetsCloned(c) \/ ClonerIsKilled(c)
  BY <1>1 DEF RowReads, MarksPending, SavesPath, SetsCloned, ClonerIsKilled
<1>2. CASE StartsGit(c)
  BY <1>2 DEF StartsGit
<1>3. CASE GitFetches(c) \/ GitSucceeds(c)
  BY <1>3 DEF GitFetches, GitSucceeds
<1>4. CASE GitFails(c)
  BY <1>4 DEF GitFails
<1> QED
  BY <1>1, <1>2, <1>3, <1>4 DEF ClonerStep

LEMMA DiskStep == TypeInv /\ [Next]_vars => DiskOK'
<1> SUFFICES ASSUME TypeInv, [Next]_vars PROVE DiskOK'
  OBVIOUS
<1>1. DiskOK /\ ClonersOK
  BY DEF TypeInv
<1>2. CASE UNCHANGED disk
  BY <1>1, <1>2 DEF DiskOK
<1>3. ASSUME NEW c \in Cloners, ClonerStep(c) PROVE DiskOK'
  <2>1. CASE cloner[c].at \in {"clones", "git"}
    <3>1. cloner[c].source \in Sources
      BY <1>1, <2>1 DEF ClonersOK
    <3>2. {NoSource, Partial, Half(cloner[c].source), cloner[c].source, disk[cloner[c].dir]} \subseteq Trees
      BY <1>1, <3>1 DEF Trees, DiskOK, ClonersOK, ClonerRows
    <3> QED
      BY <1>1, <1>2, <1>3, <3>2, DiskWrites DEF DiskOK
  <2> QED
    BY <1>2, <1>3, <2>1, DiskWrites
<1> QED
  BY <1>2, <1>3, OthersAreCalm DEF Next

-----------------------------------------------------------------------------
(* The indexers, the stores, the web process.                                *)

\* A task is a row, with the version of its profile.
LEMMA RowsOfAreTasks ==
  ASSUME ReposOK, ProfilesOK, NEW n PROVE RowsOf(n) \subseteq Tasks
<1> SUFFICES ASSUME NEW r \in Repos, IsRepo(r)
             PROVE  [repo |-> r, dir |-> repo[r].path, version |-> VersionOf(r)] \in Tasks
  BY DEF RowsOf
<1>1. repo[r].profile \in Profiles /\ repo[r].path \in Dirs
  BY DEF ReposOK, RepoRows, IsRepo, Unborn
<1>2. VersionOf(r) \in Versions
  BY <1>1 DEF VersionOf, ProfilesOK, ProfileRows
<1> QED
  BY <1>1, <1>2 DEF Tasks

LEMMA PairsAreTyped ==
  ASSUME ReposOK, ProfilesOK, NEW r, IsRepo(r) PROVE PairOf(r) \in Slugs \X Versions
<1>1. repo[r].profile \in Profiles /\ repo[r].path \in Dirs
  BY DEF ReposOK, RepoRows, IsRepo, Unborn
<1>2. VersionOf(r) \in Versions
  BY <1>1 DEF VersionOf, ProfilesOK, ProfileRows
<1> QED
  BY <1>1, <1>2 DEF PairOf, Dirs

LEMMA NoIndexerTyped == NoIndexer \in IndexerRows /\ NoIndexer.at = "ended"
<1>1. Names # {}
  BY ConstantsAssumption
<1>2. [full |-> FALSE, gc |-> FALSE, embed |-> FALSE] \in CommandLines
  BY DEF CommandLines
<1>3. (CHOOSE f \in CommandLines : TRUE) \in CommandLines
  BY <1>2
<1> QED
  BY <1>1, <1>3 DEF NoIndexer, IndexerRows

\* What becomes of the record of an indexer.
IndexerChange(i, x) ==
  /\ indexer' = [indexer EXCEPT ![i] = x]
  /\ x \in IndexerRows
  /\ x.at \in {"writes", "advances"} => x.read \in Sources

LEMMA IndexersKept ==
  ASSUME IndexersOK, NEW i \in Indexers, NEW x, IndexerChange(i, x),
         lock' \in [Names -> Indexers \cup {None}]
  PROVE  IndexersOK'
BY DEF IndexersOK, IndexerChange

LEMMA SpawnedIndexer ==
  ASSUME IndexersOK, NEW names \in SUBSET Names, NEW flags \in CommandLines,
         SpawnsIndexer(names, flags), UNCHANGED lock
  PROVE  IndexersOK'
<1>1. PICK i \in Indexers : indexer' = [indexer EXCEPT ![i] =
         [NoIndexer EXCEPT !.at = "starts", !.names = names, !.flags = flags]]
  BY DEF SpawnsIndexer
<1>2. PICK x : x = [NoIndexer EXCEPT !.at = "starts", !.names = names, !.flags = flags]
  OBVIOUS
<1>3. x \in IndexerRows /\ x.at = "starts"
  BY <1>2, NoIndexerTyped DEF IndexerRows
<1> QED
  BY <1>1, <1>2, <1>3, IndexersKept DEF IndexerChange, IndexersOK

LEMMA Leaving ==
  ASSUME IndexersOK, NEW i \in Indexers, LeavesProfile(i) PROVE IndexersOK'
<1>1. PICK x : x = [NoIndexer EXCEPT !.at = "starts", !.names = indexer[i].names,
                                      !.flags = indexer[i].flags]
  OBVIOUS
<1>2. indexer[i] \in IndexerRows
  BY DEF IndexersOK
<1>3. x \in IndexerRows /\ x.at = "starts"
  BY <1>1, <1>2, NoIndexerTyped DEF IndexerRows
<1>4. lock' \in [Names -> Indexers \cup {None}]
  BY DEF LeavesProfile, IndexersOK
<1> QED
  BY <1>1, <1>3, <1>4, IndexersKept DEF IndexerChange, LeavesProfile

LEMMA EndingRepo ==
  ASSUME IndexersOK, NEW i \in Indexers, NEW t, EndsRepo(i, t) PROVE IndexersOK'
<1>1. CASE LeavesProfile(i)
  BY <1>1, Leaving
<1>2. CASE /\ indexer' = [indexer EXCEPT ![i] =
                [indexer[i] EXCEPT !.at = "next", !.todo = indexer[i].todo \ {t}, !.now = {},
                                   !.read = NoSource, !.part = {}]]
           /\ UNCHANGED lock
  <2>1. PICK x : x = [indexer[i] EXCEPT !.at = "next", !.todo = indexer[i].todo \ {t}, !.now = {},
                                         !.read = NoSource, !.part = {}]
    OBVIOUS
  <2>2. indexer[i] \in IndexerRows
    BY DEF IndexersOK
  <2>3. x \in IndexerRows /\ x.at = "next"
    BY <2>1, <2>2 DEF IndexerRows
  <2> QED
    BY <1>2, <2>1, <2>3, IndexersKept DEF IndexerChange, IndexersOK
<1> QED
  BY <1>1, <1>2 DEF EndsRepo

LEMMA IndexerSteps ==
  ASSUME TypeInv, NEW i \in Indexers, IndexerStep(i) PROVE IndexersOK'
<1>1. IndexersOK /\ DiskOK /\ ReposOK /\ ProfilesOK /\ indexer[i] \in IndexerRows
  BY DEF TypeInv, IndexersOK
<1>2. lock \in [Names -> Indexers \cup {None}]
  BY <1>1 DEF IndexersOK
<1>3. ASSUME NEW place \in {"starts", "next"},
             indexer' = [indexer EXCEPT ![i] = [indexer[i] EXCEPT !.at = place]],
             lock' \in [Names -> Indexers \cup {None}]
      PROVE  IndexersOK'
  <2>1. PICK x : x = [indexer[i] EXCEPT !.at = place]
    OBVIOUS
  <2>2. x \in IndexerRows /\ x.at = place
    BY <1>1, <2>1 DEF IndexerRows
  <2> QED
    BY <1>1, <1>3, <2>1, <2>2, IndexersKept DEF IndexerChange
<1>4. CASE NextProfile(i)
  <2>1. CASE indexer' = [indexer EXCEPT ![i] = NoIndexer]
    BY <1>1, <1>2, <1>4, <2>1, NoIndexerTyped, IndexersKept DEF IndexerChange, NextProfile
  <2>2. ASSUME NEW n \in indexer[i].names,
               indexer' = [indexer EXCEPT ![i] =
                 [indexer[i] EXCEPT !.at = "reads", !.name = n, !.names = indexer[i].names \ {n}]]
        PROVE  IndexersOK'
    <3>1. PICK x : x = [indexer[i] EXCEPT !.at = "reads", !.name = n, !.names = indexer[i].names \ {n}]
      OBVIOUS
    <3>2. x \in IndexerRows /\ x.at = "reads"
      BY <1>1, <2>2, <3>1 DEF IndexerRows
    <3> QED
      BY <1>1, <1>2, <1>4, <2>2, <3>1, <3>2, IndexersKept DEF IndexerChange, NextProfile
  <2> QED
    BY <1>4, <2>1, <2>2 DEF NextProfile
<1>5. CASE ReadsRows(i)
  <2>1. CASE indexer' = [indexer EXCEPT ![i].at = "starts"]
    BY <1>2, <1>3, <1>5, <2>1 DEF ReadsRows
  <2>2. CASE indexer' = [indexer EXCEPT ![i] =
               [indexer[i] EXCEPT !.at = "locks", !.todo = RowsOf(indexer[i].name),
                  !.chain = UNION {ChainNames(p) : p \in
                    {q \in Profiles : IsProfile(q) /\ profile[q].name = indexer[i].name}}]]
    <3> DEFINE todo == RowsOf(indexer[i].name)
               chain == UNION {ChainNames(p) : p \in
                    {q \in Profiles : IsProfile(q) /\ profile[q].name = indexer[i].name}}
    <3>1. \A p \in Profiles : ChainNames(p) \subseteq Names
      BY <1>1 DEF ChainNames, AncestorsOf, ProfilesOK, ProfileRows
    <3>2. todo \in SUBSET Tasks /\ chain \in SUBSET Names
      BY <1>1, <3>1, RowsOfAreTasks
    <3> HIDE DEF todo, chain
    <3>3. PICK x : x = [indexer[i] EXCEPT !.at = "locks", !.todo = todo, !.chain = chain]
      OBVIOUS
    <3>4. x \in IndexerRows /\ x.at = "locks"
      BY <1>1, <3>2, <3>3 DEF IndexerRows
    <3>5. indexer' = [indexer EXCEPT ![i] = x]
      BY <2>2, <3>3 DEF todo, chain
    <3> QED
      BY <1>1, <1>2, <1>5, <3>4, <3>5, IndexersKept DEF IndexerChange, ReadsRows
  <2> QED
    BY <1>5, <2>1, <2>2 DEF ReadsRows
<1>6. CASE TakesLock(i)
  <2>1. CASE /\ indexer' = [indexer EXCEPT ![i] = [indexer[i] EXCEPT !.at = "starts", !.todo = {}, !.chain = {}]]
             /\ UNCHANGED lock
    <3>1. PICK x : x = [indexer[i] EXCEPT !.at = "starts", !.todo = {}, !.chain = {}]
      OBVIOUS
    <3>2. x \in IndexerRows /\ x.at = "starts"
      BY <1>1, <3>1 DEF IndexerRows
    <3> QED
      BY <1>1, <1>2, <2>1, <3>1, <3>2, IndexersKept DEF IndexerChange
  <2>2. CASE /\ indexer' = [indexer EXCEPT ![i].at = "next"]
             /\ lock' = [lock EXCEPT ![indexer[i].name] = i]
    <3>1. lock' \in [Names -> Indexers \cup {None}]
      BY <1>2, <2>2
    <3> QED
      BY <1>3, <2>2, <3>1
  <2> QED
    BY <1>6, <2>1, <2>2 DEF TakesLock
<1>7. CASE Finishes(i)
  BY <1>1, <1>7, Leaving DEF Finishes
<1>8. ASSUME NEW t \in indexer[i].todo, OpensRepo(i, t) PROVE IndexersOK'
  <2>1. CASE EndsRepo(i, t)
    BY <1>1, <2>1, EndingRepo
  <2>2. ASSUME NEW s \in Sources, NEW part \in SUBSET Modules,
               indexer' = [indexer EXCEPT ![i] =
                  [indexer[i] EXCEPT !.at = "writes", !.todo = indexer[i].todo \ {t}, !.now = {t},
                                     !.read = s, !.part = part]],
               UNCHANGED lock
        PROVE  IndexersOK'
    <3>1. t \in Tasks
      BY <1>1, <1>8 DEF IndexerRows
    <3>2. PICK x : x = [indexer[i] EXCEPT !.at = "writes", !.todo = indexer[i].todo \ {t}, !.now = {t},
                                           !.read = s, !.part = part]
      OBVIOUS
    <3>3. x \in IndexerRows /\ x.read \in Sources
      BY <1>1, <2>2, <3>1, <3>2 DEF IndexerRows
    <3> QED
      BY <1>1, <1>2, <2>2, <3>2, <3>3, IndexersKept DEF IndexerChange
  <2> QED
    BY <1>8, <2>1, <2>2 DEF OpensRepo
<1>9. CASE WritesGraph(i)
  <2>1. PICK x : x = [indexer[i] EXCEPT !.at = "advances"]
    OBVIOUS
  <2>2. x \in IndexerRows /\ x.read \in Sources
    BY <1>1, <1>9, <2>1 DEF WritesGraph, IndexerRows, IndexersOK
  <2> QED
    BY <1>1, <1>2, <1>9, <2>1, <2>2, IndexersKept DEF IndexerChange, WritesGraph
<1>10. CASE AdvancesSha(i) \/ RepoFails(i)
  BY <1>1, <1>10, EndingRepo DEF AdvancesSha, RepoFails
<1>11. CASE IndexerIsKilled(i)
  BY <1>1, <1>2, <1>11, NoIndexerTyped, IndexersKept DEF IndexerChange, IndexerIsKilled
<1> QED
  BY <1>4, <1>5, <1>6, <1>7, <1>8, <1>9, <1>10, <1>11 DEF IndexerStep

LEMMA IndexersStep == TypeInv /\ [Next]_vars => IndexersOK'
<1> SUFFICES ASSUME TypeInv, [Next]_vars PROVE IndexersOK'
  OBVIOUS
<1>1. IndexersOK /\ ProfilesOK /\ ReposOK /\ Flags \subseteq CommandLines
  BY ConstantsAssumption DEF TypeInv
<1>2. CASE UNCHANGED <<indexer, lock>>
  BY <1>1, <1>2 DEF IndexersOK
<1>3. CASE Starts
  <2>1. ASSUME NEW r, IsRepo(r) PROVE profile[repo[r].profile].name \in Names
    BY <1>1, <2>1 DEF IsRepo, ReposOK, ProfilesOK, ProfileRows, Unborn
  <2>2. ASSUME NEW r \in Repos, NEW flags \in Flags, IndexRepo(r, flags) PROVE IndexersOK'
    BY <1>1, <2>1, <2>2, SpawnedIndexer DEF IndexRepo
  <2>3. ASSUME NEW r \in Repos, ResetEmbed(r) PROVE IndexersOK'
    <3>1. [full |-> FALSE, gc |-> FALSE, embed |-> TRUE] \in CommandLines
      BY DEF CommandLines
    <3> QED
      BY <1>1, <2>1, <2>3, <3>1, SpawnedIndexer DEF ResetEmbed
  <2>4. ASSUME NEW flags \in Flags, IndexAll(flags) PROVE IndexersOK'
    <3> DEFINE all == {p \in Profiles : IsProfile(p)}
    <3>1. {profile[p].name : p \in all} \in SUBSET Names
      BY <1>1 DEF ProfilesOK, ProfileRows
    <3>2. SpawnsIndexer({profile[p].name : p \in all}, flags) /\ UNCHANGED lock
      BY <2>4 DEF IndexAll
    <3> QED
      BY <1>1, <3>1, <3>2, SpawnedIndexer
  <2>5. ASSUME NEW R, Clones(R) PROVE UNCHANGED <<indexer, lock>>
    BY <2>5 DEF Clones
  <2> QED
    BY <1>2, <1>3, <2>2, <2>3, <2>4, <2>5 DEF Starts, CloneAll, CliClone
<1>4. CASE Configures
  BY <1>2, <1>4, ConfiguresOnly DEF ConfiguresFrame
<1>5. CASE Deletes
  BY <1>2, <1>5, DeletesOnly DEF DeletesFrame
<1>6. CASE \E c \in Cloners : ClonerStep(c)
  BY <1>2, <1>6, ClonersOnly DEF ClonerFrame
<1>7. CASE UNCHANGED vars
  BY <1>2, <1>7 DEF vars
<1> QED
  BY <1>3, <1>4, <1>5, <1>6, <1>7, IndexerSteps DEF Next

LEMMA StoresStep == TypeInv /\ [Next]_vars => StoresOK'
<1> SUFFICES ASSUME TypeInv, [Next]_vars PROVE StoresOK'
  OBVIOUS
<1>1. StoresOK
  BY DEF TypeInv
<1>2. NoNode \in NodeRows
  BY ConstantsAssumption DEF NoNode, NodeRows
<1>3. CASE UNCHANGED <<graph, vectors>>
  BY <1>1, <1>3 DEF StoresOK
<1>4. ASSUME NEW i \in Indexers, IndexerStep(i) PROVE StoresOK'
  <2>1. indexer[i] \in IndexerRows
    BY DEF TypeInv, IndexersOK
  <2>2. ASSUME NEW t \in indexer[i].todo, OpensRepo(i, t) PROVE StoresOK'
    <3>1. t \in Tasks
      BY <2>1, <2>2 DEF IndexerRows
    <3>2. CASE UNCHANGED vectors
      BY <1>3, <2>2, <3>2 DEF OpensRepo
    <3>3. ASSUME NEW part \in SUBSET Modules,
                 vectors' = IF indexer[i].flags.embed
                            THEN vectors \cup (part \X {t.version}) ELSE vectors
          PROVE  StoresOK'
      <4>1. part \X {t.version} \subseteq Keys
        BY <3>1, <3>3 DEF Keys, Tasks
      <4> QED
        BY <1>1, <2>2, <3>3, <4>1 DEF OpensRepo, StoresOK
    <3> QED
      BY <2>2, <3>2, <3>3 DEF OpensRepo
  <2>3. CASE WritesGraph(i)
    <3> DEFINE mine(t) == indexer[i].part \X {t.version}
               stale(t) == {k \in NodesOf(<<t.dir[2], t.version>>) \ mine(t) : indexer[i].flags.gc}
               swept(t) == IF mine(t) = {} THEN {} ELSE stale(t)
    <3>1. PICK t \in indexer[i].now :
            graph' = [k \in Keys |->
               IF k \in mine(t)
               THEN [there |-> TRUE, dir |-> t.dir, by |-> graph[k].by \cup indexer[i].chain]
               ELSE IF k \in swept(t) THEN NoNode ELSE graph[k]]
      BY <2>3 DEF WritesGraph
    <3> HIDE DEF mine, swept
    <3>2. t.dir \in Dirs /\ indexer[i].chain \in SUBSET Names
      BY <2>1 DEF IndexerRows, Tasks
    <3>3. ASSUME NEW k \in Keys PROVE graph'[k] \in NodeRows
      <4>1. graph[k] \in NodeRows
        BY <1>1 DEF StoresOK
      <4>2. [there |-> TRUE, dir |-> t.dir, by |-> graph[k].by \cup indexer[i].chain] \in NodeRows
        BY <3>2, <4>1 DEF NodeRows
      <4> QED
        BY <1>2, <3>1, <4>1, <4>2
    <3> QED
      BY <1>1, <2>3, <3>1, <3>3 DEF WritesGraph, StoresOK
  <2>4. CASE NextProfile(i) \/ ReadsRows(i) \/ TakesLock(i) \/ Finishes(i)
    BY <1>3, <2>4 DEF NextProfile, ReadsRows, TakesLock, Finishes, stores
  <2>5. CASE AdvancesSha(i) \/ RepoFails(i) \/ IndexerIsKilled(i)
    BY <1>3, <2>5 DEF AdvancesSha, RepoFails, IndexerIsKilled, stores
  <2> QED
    BY <1>4, <2>2, <2>3, <2>4, <2>5 DEF IndexerStep
<1>5. CASE Deletes
  <2>1. CASE DeletesNodes
    BY <1>1, <1>2, <2>1 DEF DeletesNodes, StoresOK
  <2>2. CASE DeletesVectors
    BY <1>1, <2>2 DEF DeletesVectors, StoresOK
  <2>3. CASE CollectsNames
    BY <1>3, <2>3 DEF CollectsNames, stores
  <2>4. ASSUME NEW r, DeleteRepo(r) \/ CliDeleteRepo(r) PROVE StoresOK'
    BY <1>3, <2>4 DEF DeleteRepo, CliDeleteRepo, stores
  <2>5. ASSUME NEW p, DeleteProfile(p) \/ CliDeleteProfile(p) PROVE StoresOK'
    BY <1>3, <2>5 DEF DeleteProfile, CliDeleteProfile, stores
  <2> QED
    BY <1>5, <2>1, <2>2, <2>3, <2>4, <2>5 DEF Deletes
<1>6. CASE Configures
  BY <1>3, <1>6, ConfiguresOnly DEF ConfiguresFrame
<1>7. CASE Starts
  BY <1>3, <1>7, StartsOnly DEF StartsFrame
<1>8. CASE \E c \in Cloners : ClonerStep(c)
  BY <1>3, <1>8, ClonersOnly DEF ClonerFrame
<1>9. CASE UNCHANGED vars
  BY <1>3, <1>9 DEF vars
<1> QED
  BY <1>4, <1>5, <1>6, <1>7, <1>8, <1>9 DEF Next

\* Deletions are what the web process is at; every request and fault is counted.
CountersOK == requests \in 0 .. MaxRequests /\ faults \in 0 .. MaxFaults

\* Where faults happen: in a command, a cloner, an indexer or a deletion.
LEMMA FaultsOrNot ==
  ASSUME [Next]_vars PROVE UNCHANGED faults \/ Fault
<1>1. CASE Configures
  BY <1>1, ConfiguresOnly DEF ConfiguresFrame
<1>2. CASE Starts
  BY <1>2, StartsOnly DEF StartsFrame
<1>3. CASE Deletes
  <2>1. ASSUME NEW r, DeleteRepo(r) \/ CliDeleteRepo(r) PROVE UNCHANGED faults
    BY <2>1 DEF DeleteRepo, CliDeleteRepo
  <2>2. ASSUME NEW p, DeleteProfile(p) \/ CliDeleteProfile(p) PROVE UNCHANGED faults
    BY <2>2 DEF DeleteProfile, CliDeleteProfile
  <2>3. CASE CollectsNames \/ DeletesNodes \/ DeletesVectors
    BY <2>3 DEF CollectsNames, DeletesNodes, DeletesVectors
  <2> QED
    BY <1>3, <2>1, <2>2, <2>3 DEF Deletes
<1>4. ASSUME NEW c, ClonerStep(c) PROVE UNCHANGED faults \/ Fault
  <2>1. CASE RowReads(c) \/ MarksPending(c) \/ StartsGit(c) \/ GitFetches(c)
    BY <2>1 DEF RowReads, MarksPending, StartsGit, GitFetches
  <2>2. CASE GitSucceeds(c) \/ GitFails(c) \/ SavesPath(c)
    BY <2>2 DEF GitSucceeds, GitFails, SavesPath
  <2>3. CASE SetsCloned(c) \/ ClonerIsKilled(c)
    BY <2>3 DEF SetsCloned, ClonerIsKilled
  <2> QED
    BY <1>4, <2>1, <2>2, <2>3 DEF ClonerStep
<1>5. ASSUME NEW i, IndexerStep(i) PROVE UNCHANGED faults \/ Fault
  <2>1. CASE NextProfile(i) \/ ReadsRows(i) \/ TakesLock(i) \/ Finishes(i)
    BY <2>1 DEF NextProfile, ReadsRows, TakesLock, Finishes
  <2>2. ASSUME NEW t, OpensRepo(i, t) PROVE UNCHANGED faults
    BY <2>2 DEF OpensRepo
  <2>3. CASE WritesGraph(i) \/ AdvancesSha(i) \/ RepoFails(i) \/ IndexerIsKilled(i)
    BY <2>3 DEF WritesGraph, AdvancesSha, RepoFails, IndexerIsKilled
  <2> QED
    BY <1>5, <2>1, <2>2, <2>3 DEF IndexerStep
<1>6. CASE UNCHANGED vars
  BY <1>6 DEF vars
<1> QED
  BY <1>1, <1>2, <1>3, <1>4, <1>5, <1>6 DEF Next

LEMMA RequestsOrNot ==
  ASSUME [Next]_vars PROVE UNCHANGED requests \/ Command
<1>1. CASE Configures
  BY <1>1, ConfiguresOnly DEF ConfiguresFrame
<1>2. CASE Starts
  BY <1>2, StartsOnly DEF StartsFrame
<1>3. CASE Deletes
  <2>1. ASSUME NEW r, DeleteRepo(r) \/ CliDeleteRepo(r) PROVE Command
    BY <2>1 DEF DeleteRepo, CliDeleteRepo, Request
  <2>2. ASSUME NEW p, DeleteProfile(p) \/ CliDeleteProfile(p) PROVE Command
    BY <2>2 DEF DeleteProfile, CliDeleteProfile, Request
  <2>3. CASE CollectsNames \/ DeletesNodes \/ DeletesVectors
    BY <2>3 DEF CollectsNames, DeletesNodes, DeletesVectors
  <2> QED
    BY <1>3, <2>1, <2>2, <2>3 DEF Deletes
<1>4. ASSUME NEW c, ClonerStep(c) PROVE UNCHANGED requests
  BY <1>4, ClonersOnly DEF ClonerFrame
<1>5. ASSUME NEW i, IndexerStep(i) PROVE UNCHANGED requests
  BY <1>5, IndexersOnly DEF IndexerFrame
<1>6. CASE UNCHANGED vars
  BY <1>6 DEF vars
<1> QED
  BY <1>1, <1>2, <1>3, <1>4, <1>5, <1>6 DEF Next

LEMMA CountersStep == TypeInv /\ [Next]_vars => CountersOK'
<1> SUFFICES ASSUME TypeInv, [Next]_vars PROVE CountersOK'
  OBVIOUS
<1>1. CountersOK
  BY DEF TypeInv, WebOK, CountersOK
<1>2. UNCHANGED faults \/ Fault
  BY FaultsOrNot
<1>3. UNCHANGED requests \/ Command
  BY RequestsOrNot
<1> QED
  BY <1>1, <1>2, <1>3, ConstantsAssumption DEF CountersOK, Command, Fault

\* A failure is counted for good.
LEMMA FaultsGrow == ASSUME TypeInv, [Next]_vars PROVE UNCHANGED faults \/ faults' > 0
<1>1. faults \in Nat
  BY ConstantsAssumption DEF TypeInv, WebOK
<1> QED
  BY <1>1, FaultsOrNot DEF Fault

\* What the auxiliary variables say of is not forgotten.
Grows(old, new, all) == old \subseteq new /\ (old \subseteq all => new \subseteq all)
AllButOverrun ==
  /\ Grows(abandoned, abandoned', Repos) /\ Grows(known, known', Repos)
  /\ Grows(moved, moved', Repos) /\ Grows(left, left', Slugs \X Versions)
  /\ byHand \subseteq Repos => byHand' \subseteq Repos
Remembers == AllButOverrun /\ Grows(overrun, overrun', Repos)

LEMMA Moving ==
  ASSUME ReposOK, ProfilesOK, NEW R \in SUBSET Repos, \A r \in R : IsRepo(r), Moves(R)
  PROVE  Grows(moved, moved', Repos) /\ Grows(left, left', Slugs \X Versions)
<1>1. \A r \in R : PairOf(r) \in Slugs \X Versions
  BY PairsAreTyped
<1> QED
  BY <1>1 DEF Moves, Grows

LEMMA AuxiliarySteps ==
  ASSUME TypeInv, [Next]_vars PROVE Remembers
<1>1. ReposOK /\ ProfilesOK /\ WebOK
  BY DEF TypeInv
<1>2. ASSUME UNCHANGED <<abandoned, known, left, moved, byHand>> PROVE AllButOverrun
  BY <1>2 DEF AllButOverrun, Grows
<1>3. ASSUME NEW R \in SUBSET Repos, \A r \in R : IsRepo(r), Moves(R), UNCHANGED <<abandoned, known>>,
             byHand \subseteq Repos => byHand' \subseteq Repos
      PROVE  AllButOverrun
  BY <1>1, <1>3, Moving DEF AllButOverrun, Grows
<1>4. ASSUME NEW R \in SUBSET Repos, \A r \in R : IsRepo(r), left' = left \cup {PairOf(r) : r \in R},
             UNCHANGED <<abandoned, known, moved, byHand>>
      PROVE  AllButOverrun
  <2>1. \A r \in R : PairOf(r) \in Slugs \X Versions
    BY <1>1, <1>4, PairsAreTyped
  <2> QED
    BY <1>4, <2>1 DEF AllButOverrun, Grows
<1>5. ASSUME left' = left \/ left' = left \cup web.pairs, UNCHANGED <<abandoned, known, moved, byHand>>
      PROVE  AllButOverrun
  BY <1>1, <1>5 DEF WebOK, AllButOverrun, Grows
<1>6. ASSUME Configures PROVE AllButOverrun
  <2>1. ASSUME NEW p, NEW n, NEW v, NEW parent, CreateProfile(p, n, v, parent) PROVE AllButOverrun
    BY <1>2, <2>1 DEF CreateProfile, auxiliary
  <2>2. ASSUME NEW p, NEW n, NEW v, UpdateProfile(p, n, v) PROVE AllButOverrun
    <3>1. ReposOf(p) \in SUBSET Repos /\ \A r \in ReposOf(p) : IsRepo(r)
      BY DEF ReposOf
    <3> QED
      BY <1>3, <2>2, <3>1 DEF UpdateProfile
  <2>3. ASSUME NEW p, NEW n, NEW v, CliAddProfile(p, n, v) PROVE AllButOverrun
    BY <1>2, <2>3 DEF CliAddProfile, auxiliary
  <2>4. ASSUME NEW p, NEW parent, SetProfileParent(p, parent) PROVE AllButOverrun
    BY <1>2, <2>4 DEF SetProfileParent, auxiliary
  <2>5. ASSUME NEW r, NEW s, NEW p, AddRepo(r, p, s) PROVE AllButOverrun
    BY <1>2, <2>5 DEF AddRepo, auxiliary
  <2>6. ASSUME NEW r, NEW s, NEW p, NEW path, CliAddRepo(r, p, s, path) PROVE AllButOverrun
    BY <1>2, <2>6 DEF CliAddRepo, auxiliary
  <2>7. ASSUME NEW r \in Repos, NEW s, NEW key, NEW path, UpdateRepo(r, s, key, path) PROVE AllButOverrun
    <3> DEFINE R == IF path = repo[r].path THEN {} ELSE {r}
    <3>1. R \in SUBSET Repos /\ \A q \in R : IsRepo(q)
      BY <2>7 DEF UpdateRepo
    <3>2. Moves(R) /\ byHand' = byHand \cup R /\ UNCHANGED <<abandoned, known>>
      BY <2>7 DEF UpdateRepo
    <3> HIDE DEF R
    <3> QED
      BY <1>3, <3>1, <3>2
  <2>8. CASE DeleteSshKey
    BY <1>2, <2>8 DEF DeleteSshKey, auxiliary
  <2> QED
    BY <1>6, <2>1, <2>2, <2>3, <2>4, <2>5, <2>6, <2>7, <2>8 DEF Configures
<1>7. ASSUME Deletes PROVE AllButOverrun
  <2>1. ASSUME NEW R \in SUBSET Repos PROVE Awaited(R) \in SUBSET R
    BY DEF Awaited
  <2>2. ASSUME NEW r \in Repos, DeleteRepo(r) PROVE AllButOverrun
    BY <1>4, <2>1, <2>2 DEF DeleteRepo, StartsCleanup
  <2>3. ASSUME NEW r \in Repos, CliDeleteRepo(r) PROVE AllButOverrun
    <3>1. left' = left \cup {PairOf(q) : q \in {r}} /\ \A q \in {r} : IsRepo(q)
      BY <2>3 DEF CliDeleteRepo
    <3> QED
      BY <1>4, <2>3, <3>1 DEF CliDeleteRepo
  <2>4. ASSUME NEW p PROVE ReposOf(p) \in SUBSET Repos /\ \A r \in ReposOf(p) : IsRepo(r)
    BY DEF ReposOf
  <2>5. ASSUME NEW p, DeleteProfile(p) PROVE AllButOverrun
    BY <1>4, <2>1, <2>4, <2>5 DEF DeleteProfile, StartsCleanup
  <2>6. ASSUME NEW p, CliDeleteProfile(p) PROVE AllButOverrun
    BY <1>4, <2>4, <2>6 DEF CliDeleteProfile
  <2>7. CASE CollectsNames
    BY <1>5, <2>7 DEF CollectsNames
  <2>8. CASE DeletesNodes
    BY <1>5, <2>8 DEF DeletesNodes
  <2>9. CASE DeletesVectors
    BY <1>5, <2>9 DEF DeletesVectors
  <2> QED
    BY <1>7, <2>2, <2>3, <2>5, <2>6, <2>7, <2>8, <2>9 DEF Deletes
<1>8. ASSUME Starts PROVE AllButOverrun
  <2>1. ASSUME NEW R \in SUBSET Repos, \A r \in R : IsRepo(r), Clones(R) PROVE AllButOverrun
    <3>1. PICK near \in SUBSET {r \in R : Kind[repo[r].source] = "file"} :
            /\ Moves({r \in near : repo[r].path # Home[repo[r].source]})
            /\ byHand' = byHand \cup near
      BY <2>1 DEF Clones
    <3> DEFINE Q == {r \in near : repo[r].path # Home[repo[r].source]}
    <3>2. Q \in SUBSET Repos /\ (\A r \in Q : IsRepo(r)) /\ Moves(Q)
      BY <2>1, <3>1
    <3> HIDE DEF Q
    <3>3. UNCHANGED <<abandoned, known>>
      BY <2>1 DEF Clones
    <3> QED
      BY <1>3, <3>1, <3>2, <3>3
  <2>2. ASSUME NEW p, CloneAll(p) PROVE AllButOverrun
    <3> DEFINE open == {r \in ReposOf(p) : repo[r].clone # "cloned"}
    <3>1. open \in SUBSET Repos /\ (\A r \in open : IsRepo(r)) /\ Clones(open)
      BY <2>2 DEF CloneAll, ReposOf
    <3> HIDE DEF open
    <3> QED
      BY <2>1, <3>1
  <2>3. ASSUME NEW r \in Repos, CliClone(r) PROVE AllButOverrun
    BY <2>1, <2>3 DEF CliClone
  <2>4. ASSUME NEW r, ResetEmbed(r) PROVE AllButOverrun
    BY <1>2, <2>4 DEF ResetEmbed, auxiliary
  <2>5. ASSUME NEW r, NEW flags, IndexRepo(r, flags) PROVE AllButOverrun
    BY <1>2, <2>5 DEF IndexRepo, auxiliary
  <2>6. ASSUME NEW flags, IndexAll(flags) PROVE AllButOverrun
    BY <1>2, <2>6 DEF IndexAll, auxiliary
  <2> QED
    BY <1>8, <2>2, <2>3, <2>4, <2>5, <2>6 DEF Starts
<1>9. ASSUME NEW c \in Cloners, ClonerStep(c) PROVE AllButOverrun
  <2>1. CASE UNCHANGED auxiliary
    BY <1>2, <2>1 DEF auxiliary
  <2>2. CASE RowReads(c) \/ MarksPending(c) \/ StartsGit(c) \/ GitFetches(c)
    BY <2>1, <2>2 DEF RowReads, MarksPending, StartsGit, GitFetches
  <2>3. CASE GitSucceeds(c) \/ GitFails(c) \/ SetsCloned(c)
    BY <2>1, <2>3 DEF GitSucceeds, GitFails, SetsCloned
  <2>4. CASE SavesPath(c)
    <3> DEFINE r == cloner[c].repo
               R == IF repo[r].path = cloner[c].dir THEN {} ELSE {r}
    <3>1. CASE IsRepo(r)
      <4>1. Moves(R) /\ byHand' = byHand \ {r} /\ UNCHANGED <<abandoned, known>>
        BY <2>4, <3>1 DEF SavesPath
      <4>2. R \in SUBSET Repos /\ \A q \in R : IsRepo(q)
        BY <3>1 DEF IsRepo
      <4> HIDE DEF R, r
      <4> QED
        BY <1>3, <4>1, <4>2
    <3>2. CASE ~ IsRepo(r)
      BY <1>2, <2>4, <3>2 DEF SavesPath
    <3> QED
      BY <3>1, <3>2
  <2>5. CASE ClonerIsKilled(c)
    <3>1. cloner[c].repo \in Repos
      BY <2>5 DEF ClonerIsKilled, TypeInv, ClonersOK
    <3> QED
      BY <2>5, <3>1 DEF ClonerIsKilled, AllButOverrun, Grows
  <2> QED
    BY <1>9, <2>2, <2>3, <2>4, <2>5 DEF ClonerStep
<1>10. ASSUME NEW i \in Indexers, IndexerStep(i) PROVE AllButOverrun
  <2>1. CASE UNCHANGED auxiliary
    BY <1>2, <2>1 DEF auxiliary
  <2>2. CASE NextProfile(i) \/ TakesLock(i) \/ Finishes(i)
    BY <2>1, <2>2 DEF NextProfile, TakesLock, Finishes
  <2>3. CASE ReadsRows(i)
    <3>1. known' = known \/ known' = known \cup {t.repo : t \in RowsOf(indexer[i].name)}
      BY <2>3 DEF ReadsRows
    <3>2. {t.repo : t \in RowsOf(indexer[i].name)} \subseteq Repos
      BY <1>1, RowsOfAreTasks DEF Tasks
    <3> QED
      BY <2>3, <3>1, <3>2 DEF ReadsRows, AllButOverrun, Grows
  <2>4. ASSUME NEW t, OpensRepo(i, t) PROVE AllButOverrun
    BY <2>1, <2>4 DEF OpensRepo
  <2>5. CASE WritesGraph(i)
    <3>1. PICK t \in indexer[i].now : left' = left \/ left' = left \cup {<<t.dir[2], t.version>>}
      BY <2>5 DEF WritesGraph
    <3>2. t \in Tasks
      BY DEF TypeInv, IndexersOK, IndexerRows
    <3>3. <<t.dir[2], t.version>> \in Slugs \X Versions
      BY <3>2 DEF Tasks, Dirs
    <3> QED
      BY <2>5, <3>1, <3>3 DEF WritesGraph, AllButOverrun, Grows
  <2>6. CASE AdvancesSha(i) \/ RepoFails(i) \/ IndexerIsKilled(i)
    BY <2>1, <2>6 DEF AdvancesSha, RepoFails, IndexerIsKilled
  <2> QED
    BY <1>10, <2>2, <2>3, <2>4, <2>5, <2>6 DEF IndexerStep
<1>11. ASSUME UNCHANGED vars PROVE AllButOverrun
  BY <1>2, <1>11 DEF vars
<1>12. AllButOverrun
  BY <1>6, <1>7, <1>8, <1>9, <1>10, <1>11 DEF Next
<1>13. Grows(overrun, overrun', Repos)
  <2>1. CASE UNCHANGED vars
    BY <2>1 DEF vars, Grows
  <2>2. CASE Next
    <3>1. overrun' = overrun \cup Overrun' /\ Overrun' \subseteq Repos
      BY <2>2 DEF Next, Overrun
    <3> QED
      BY <3>1 DEF Grows
  <2> QED
    BY <2>1, <2>2
<1> QED
  BY <1>12, <1>13 DEF Remembers

\* A deletion is begun by a request and goes through its three steps.
WebRows == [at : {"idle", "collects", "graph", "vectors"},
            pairs : SUBSET (Slugs \X Versions), keys : SUBSET Keys]

LEMMA WebRowsStep == TypeInv /\ [Next]_vars => web' \in WebRows
<1> SUFFICES ASSUME TypeInv, [Next]_vars PROVE web' \in WebRows
  OBVIOUS
<1>1. web \in WebRows /\ ReposOK /\ ProfilesOK
  BY DEF TypeInv, WebOK, WebRows
<1>2. CASE UNCHANGED web
  BY <1>1, <1>2
<1>3. CASE Deletes
  <2>1. ASSUME NEW R \in SUBSET Repos, \A r \in R : IsRepo(r), StartsCleanup(R) PROVE web' \in WebRows
    BY <1>1, <2>1, PairsAreTyped DEF StartsCleanup, WebRows
  <2>2. ASSUME NEW r \in Repos, DeleteRepo(r) \/ CliDeleteRepo(r) PROVE web' \in WebRows
    BY <1>2, <2>1, <2>2 DEF DeleteRepo, CliDeleteRepo
  <2>3. ASSUME NEW p PROVE ReposOf(p) \in SUBSET Repos /\ \A r \in ReposOf(p) : IsRepo(r)
    BY DEF ReposOf
  <2>4. ASSUME NEW p, DeleteProfile(p) \/ CliDeleteProfile(p) PROVE web' \in WebRows
    BY <1>2, <2>1, <2>3, <2>4 DEF DeleteProfile, CliDeleteProfile
  <2>5. CASE CollectsNames
    <3>1. UNION {NodesOf(x) : x \in web.pairs} \in SUBSET Keys
      BY DEF NodesOf
    <3>2. \/ web' = [web EXCEPT !.at = "graph", !.keys = UNION {NodesOf(x) : x \in web.pairs}]
          \/ web' = [web EXCEPT !.at = "graph"]
      BY <2>5 DEF CollectsNames
    <3> QED
      BY <1>1, <3>1, <3>2 DEF WebRows
  <2>6. CASE DeletesNodes
    BY <1>1, <2>6 DEF DeletesNodes, WebRows
  <2>7. CASE DeletesVectors
    BY <2>7 DEF DeletesVectors, Idle, WebRows
  <2> QED
    BY <1>3, <2>2, <2>4, <2>5, <2>6, <2>7 DEF Deletes
<1>4. CASE Configures
  BY <1>2, <1>4, ConfiguresOnly DEF ConfiguresFrame
<1>5. CASE Starts
  BY <1>2, <1>5, StartsOnly DEF StartsFrame
<1>6. CASE \E c \in Cloners : ClonerStep(c)
  BY <1>2, <1>6, ClonersOnly DEF ClonerFrame
<1>7. CASE \E i \in Indexers : IndexerStep(i)
  BY <1>2, <1>7, IndexersOnly DEF IndexerFrame
<1>8. CASE UNCHANGED vars
  BY <1>2, <1>8 DEF vars
<1> QED
  BY <1>3, <1>4, <1>5, <1>6, <1>7, <1>8 DEF Next

LEMMA WebStep == TypeInv /\ [Next]_vars => WebOK'
<1> SUFFICES ASSUME TypeInv, [Next]_vars PROVE WebOK'
  OBVIOUS
<1>1. Remembers /\ CountersOK' /\ web' \in WebRows
  BY AuxiliarySteps, CountersStep, WebRowsStep
<1> QED
  BY <1>1 DEF Remembers, AllButOverrun, Grows, CountersOK, WebRows, TypeInv, WebOK

-----------------------------------------------------------------------------
(* Clones. A directory that git is at work in is a part of a checkout and    *)
(* belongs to one cloner; what a cloner has still to write into its row, and *)
(* what a cloned row names, is a complete checkout.                          *)

Whole(d) == disk[d] \in Sources

GitIsAlone ==
  \A c \in Cloners : cloner[c].at = "git" =>
    /\ disk[cloner[c].dir] \in {Partial, Half(cloner[c].source)}
    /\ \A e \in Cloners : e # c /\ cloner[e].at = "git" => cloner[e].dir # cloner[c].dir

WrittenIsWhole ==
  \A c \in Cloners :
    /\ cloner[c].at = "saves" => Whole(cloner[c].dir)
    /\ cloner[c].at = "sets" /\ IsRepo(cloner[c].repo) /\ cloner[c].repo \notin byHand =>
         Whole(repo[cloner[c].repo].path)

CloneInv == GitIsAlone /\ WrittenIsWhole /\ ClonedIsThere /\ PendingIsAttended

AdminInv == TypeInv /\ HierarchyInv /\ CloneInv

LEMMA InitTypeInv == Init => TypeInv
<1> SUFFICES ASSUME Init PROVE TypeInv
  OBVIOUS
<1>1. /\ Names # {} /\ Versions # {} /\ Dirs # {}
      /\ MaxRequests \in Nat /\ MaxFaults \in Nat
  BY ConstantsAssumption
<1>2. ProfilesOK
  BY InitHierarchy DEF HierarchyInv
<1>3. NoRepo \in RepoRows /\ NoRepo.state = Unborn
  BY <1>1 DEF NoRepo, RepoRows, CloneStatuses
<1>4. NoCloner \in ClonerRows /\ NoCloner.at = "ended"
  BY <1>1 DEF NoCloner, ClonerRows
<1>5. NoNode \in NodeRows
  BY <1>1 DEF NoNode, NodeRows
<1>6. ASSUME NEW r \in Repos
      PROVE  /\ repo[r] \in RepoRows
             /\ repo[r].state # Unborn => repo[r].profile \in Profiles /\ repo[r].source \in Sources
  <2>1. \/ repo[r] = NoRepo
        \/ repo[r] \in [state : {"row"}, profile : {p \in Profiles : profile[p].state = "row"},
                       source : Sources, key : {FALSE}, path : Dirs, clone : {"manual"}, sha : {NoSource}]
    BY InitRows
  <2> QED
    BY <1>3, <2>1 DEF RepoRows, CloneStatuses
<1>7. ReposOK
  BY <1>6, InitRows DEF ReposOK
<1>8. ClonersOK /\ StoresOK
  BY <1>4, <1>5 DEF Init, ClonersOK, StoresOK
<1>9. IndexersOK
  BY NoIndexerTyped DEF Init, IndexersOK
<1>10. DiskOK
  BY InitRows DEF DiskOK, Trees
<1>11. WebOK
  BY <1>1 DEF Init, WebOK, Idle
<1> QED
  BY <1>2, <1>7, <1>8, <1>9, <1>10, <1>11 DEF TypeInv

LEMMA InitCloneInv == Init => CloneInv
<1> SUFFICES ASSUME Init PROVE CloneInv
  OBVIOUS
<1>1. \A c \in Cloners : cloner[c].at = "ended"
  BY DEF Init, NoCloner
<1>2. ASSUME NEW r \in Repos PROVE repo[r].clone = "manual"
  <2>1. \/ repo[r] = NoRepo
        \/ repo[r] \in [state : {"row"}, profile : {p \in Profiles : profile[p].state = "row"},
                       source : Sources, key : {FALSE}, path : Dirs, clone : {"manual"}, sha : {NoSource}]
    BY InitRows
  <2>2. CASE repo[r] = NoRepo
    BY <2>2 DEF NoRepo
  <2>3. CASE repo[r] # NoRepo
    BY <2>1, <2>3
  <2> QED
    BY <2>2, <2>3
<1> QED
  BY <1>1, <1>2 DEF CloneInv, GitIsAlone, WrittenIsWhole, ClonedIsThere, PendingIsAttended

LEMMA TypeInvStep == TypeInv /\ HierarchyInv /\ [Next]_vars => TypeInv' /\ HierarchyInv'
<1>1. HierarchyInv /\ [Next]_vars => HierarchyInv' /\ ProfilesOK'
  BY HierarchyStep DEF HierarchyInv
<1> QED
  BY <1>1, ReposStep, DiskStep, ClonersStep, IndexersStep, StoresStep, WebStep DEF TypeInv

\* A cloner writes where it has begun to, or into an empty directory.
LEMMA WholeStays ==
  ASSUME TypeInv, GitIsAlone, [Next]_vars, NEW d \in Dirs, Whole(d)
  PROVE  disk'[d] = disk[d]
<1>1. /\ disk \in [Dirs -> Trees] /\ NoSource \notin Sources /\ Partial \notin Sources
      /\ \A s \in Sources : Half(s) \notin Sources
  BY ConstantsAssumption DEF TypeInv, DiskOK
<1>2. ASSUME NEW c \in Cloners, ClonerStep(c) PROVE disk'[d] = disk[d]
  <2>1. CASE UNCHANGED disk
    BY <2>1
  <2>2. ASSUME NEW tree, cloner[c].at \in {"clones", "git"},
               disk' = [disk EXCEPT ![cloner[c].dir] = tree],
               cloner[c].at = "clones" => disk[cloner[c].dir] = NoSource
        PROVE  disk'[d] = disk[d]
    <3>1. cloner[c].source \in Sources
      BY <2>2 DEF TypeInv, ClonersOK
    <3>2. disk[cloner[c].dir] \notin Sources
      BY <1>1, <2>2, <3>1 DEF GitIsAlone
    <3> QED
      BY <1>1, <2>2, <3>2 DEF Whole
  <2> QED
    BY <1>2, <2>1, <2>2, DiskWrites
<1> QED
  BY <1>2, OthersAreCalm DEF Next

LEMMA GitStep == ASSUME AdminInv, [Next]_vars PROVE GitIsAlone'
<1>1. /\ TypeInv /\ GitIsAlone
      /\ cloner \in [Cloners -> ClonerRows]
      /\ disk \in [Dirs -> Trees]
      /\ NoSource # Partial
      /\ \A s \in Sources : Half(s) # NoSource
  BY ConstantsAssumption DEF AdminInv, CloneInv, TypeInv, ClonersOK, DiskOK
<1>0. \A c \in Cloners : cloner[c].at = "git" => cloner[c].source \in Sources
  BY <1>1 DEF TypeInv, ClonersOK
<1>2. CASE ClonersCalm /\ UNCHANGED disk
  <2>1. ASSUME NEW c \in Cloners, cloner'[c].at = "git"
        PROVE  cloner[c].at = "git" /\ cloner'[c].dir = cloner[c].dir /\ cloner'[c].source = cloner[c].source
    <3>1. CASE Calm(c)
      <4>1. cloner[c] \in ClonerRows
        BY <1>1
      <4> QED
        BY <2>1, <3>1, <4>1 DEF Calm, ClonerRows
    <3>2. CASE Starting(c)
      BY <2>1, <3>2 DEF Starting, Spawned, NoCloner
    <3> QED
      BY <1>2, <3>1, <3>2 DEF ClonersCalm
  <2> QED
    BY <1>1, <1>2, <2>1 DEF GitIsAlone
<1>3. ASSUME NEW c \in Cloners, ClonerStep(c) PROVE GitIsAlone'
  <2>0. cloner[c] \in ClonerRows
    BY <1>1
  <2>1. \A e \in Cloners : e # c => cloner'[e] = cloner[e]
    BY <1>1, <1>3, ClonerMoves DEF Reads, Goes, Stops
  <2>2. CASE StartsGit(c) /\ cloner' = [cloner EXCEPT ![c].at = "git"]
    <3>1. cloner'[c].dir = cloner[c].dir /\ disk[cloner[c].dir] = NoSource /\ disk' = [disk EXCEPT ![cloner[c].dir] = Partial]
      BY <1>1, <2>0, <2>2 DEF StartsGit, Writes, ClonerRows, NoCloner
    <3>2. ASSUME NEW e \in Cloners, e # c, cloner[e].at = "git"
          PROVE  cloner[e].dir # cloner[c].dir
      BY <1>0, <1>1, <3>1, <3>2 DEF GitIsAlone
    <3> QED
      BY <1>1, <2>0, <2>1, <3>1, <3>2 DEF GitIsAlone, ClonerRows
  <2>3. CASE GitFetches(c)
    <3>1. /\ UNCHANGED cloner /\ cloner[c].at = "git"
          /\ disk' = [disk EXCEPT ![cloner[c].dir] = Half(cloner[c].source)]
      BY <2>3 DEF GitFetches, processes
    <3>2. cloner[c].dir \in Dirs
      BY <2>0 DEF ClonerRows
    <3>3. \A e \in Cloners : e # c /\ cloner[e].at = "git" => cloner[e].dir # cloner[c].dir
      BY <1>1, <3>1 DEF GitIsAlone
    <3> QED
      BY <1>1, <3>1, <3>2, <3>3 DEF GitIsAlone
  <2>4. CASE GitSucceeds(c) \/ GitFails(c)
    <3>1. cloner[c].at = "git" /\ \E x : disk' = [disk EXCEPT ![cloner[c].dir] = x]
      BY <2>4 DEF GitSucceeds, GitFails
    <3>2. cloner'[c].at # "git"
      BY <1>1, <2>0, <2>4 DEF GitSucceeds, GitFails, Writes, NoCloner, ClonerRows
    <3> QED
      BY <1>1, <2>1, <3>1, <3>2 DEF GitIsAlone
  <2>5. CASE UNCHANGED disk /\ cloner'[c].at # "git"
    BY <1>1, <2>1, <2>5 DEF GitIsAlone
  <2>6. CASE RowReads(c) \/ MarksPending(c) \/ SavesPath(c) \/ SetsCloned(c) \/ ClonerIsKilled(c)
    <3>1. cloner'[c].at # "git"
      BY <1>1, <2>0, <2>6 DEF RowReads, MarksPending, SavesPath, SetsCloned, ClonerIsKilled, Writes,
         NoCloner, ClonerRows
    <3>2. UNCHANGED disk
      BY <2>6 DEF RowReads, MarksPending, SavesPath, SetsCloned, ClonerIsKilled
    <3> QED
      BY <2>5, <3>1, <3>2
  <2>7. CASE StartsGit(c) /\ UNCHANGED disk /\ Writes(c, "error", "ended")
    <3>1. cloner'[c].at # "git"
      BY <1>1, <2>7 DEF Writes, NoCloner
    <3> QED
      BY <2>5, <2>7, <3>1
  <2> QED
    BY <1>3, <2>2, <2>3, <2>4, <2>6, <2>7 DEF ClonerStep, StartsGit
<1> QED
  BY <1>1, <1>2, <1>3, OthersAreCalm DEF Next

\* A repository that is killed for is not forgotten.
LEMMA AbandonedGrows == ASSUME TypeInv, [Next]_vars PROVE abandoned \subseteq abandoned'
BY AuxiliarySteps DEF Remembers, AllButOverrun, Grows

(* The path and the status of a row, after a step that no cloner takes.      *)
Steady(r) == IsRepo(r) /\ repo'[r].path = repo[r].path /\ repo'[r].clone = repo[r].clone
Fresh(r)  == repo[r].state = Unborn /\ repo'[r].clone = "manual"
Handed(r) == IsRepo(r) /\ r \in byHand' /\ repo'[r].clone \in {repo[r].clone, "cloned"}

LEMMA AdminsLeaveClones ==
  ASSUME TypeInv, NEW r \in Repos, AdminChange(r), repo'[r].state = "row"
  PROVE  Steady(r) \/ Fresh(r) \/ Handed(r)
<1>1. /\ repo[r] \in RepoRows
      /\ IsRepo(r) <=> repo[r].state = "row"
  BY DEF TypeInv, ReposOK, IsRepo
<1>2. CASE repo'[r] = repo[r]
  BY <1>1, <1>2 DEF Steady
<1>3. CASE repo[r].state = Unborn /\ InsertsRow(r)
  BY <1>3 DEF Fresh, InsertsRow, NewRows
<1>4. CASE repo'[r] = [repo[r] EXCEPT !.key = FALSE]
  BY <1>1, <1>4 DEF Steady, RepoRows
<1>5. CASE DeletesRow(r)
  BY <1>1, <1>5 DEF DeletesRow, RepoRows
<1>6. CASE /\ repo[r].state = "row"
           /\ StampsRow(r) \/ repo'[r] = [repo[r] EXCEPT !.sha = NoSource]
  BY <1>1, <1>6 DEF Steady, StampsRow, RepoRows
<1>7. CASE repo[r].state = "row" /\ NearRow(r)
  BY <1>1, <1>7 DEF NearRow, RepoRows, Handed
<1>8. CASE repo[r].state = "row" /\ EditsRow(r)
  <2>1. PICK s \in Sources, key \in BOOLEAN, path \in Dirs :
          /\ repo'[r] = [repo[r] EXCEPT !.source = s, !.key = key, !.path = path]
          /\ path # repo[r].path => r \in byHand'
    BY <1>8 DEF EditsRow
  <2> QED
    BY <1>1, <1>8, <2>1 DEF Handed, Steady, RepoRows
<1> QED
  BY <1>2, <1>3, <1>4, <1>5, <1>6, <1>7, <1>8 DEF AdminChange

Marked == WrittenIsWhole /\ ClonedIsThere /\ PendingIsAttended

LEMMA OthersKeepMarks ==
  ASSUME AdminInv, [Next]_vars, AdminsRows, ClonersCalm, byHand \subseteq byHand'
  PROVE  Marked'
<1>1. /\ TypeInv /\ CloneInv /\ Marked
      /\ \A d \in Dirs : disk[d] \in Sources => disk'[d] \in Sources
  BY WholeStays DEF AdminInv, CloneInv, Marked, Whole
<1>2. \A r \in Repos : repo[r].path \in Dirs /\ repo'[r].path \in Dirs
  BY <1>1, ReposStep DEF TypeInv, ReposOK, RepoRows
<1>3. ASSUME NEW r \in Repos, repo'[r].state = "row"
      PROVE  Steady(r) \/ Fresh(r) \/ Handed(r)
  BY <1>1, <1>3, AdminsLeaveClones DEF AdminsRows
<1>4. ASSUME NEW c \in Cloners, cloner'[c].at \notin {"ended", "starts"}
      PROVE  /\ cloner'[c].at = cloner[c].at /\ cloner'[c].repo = cloner[c].repo
             /\ cloner'[c].dir = cloner[c].dir /\ cloner[c].dir \in Dirs
             /\ repo[cloner[c].repo].state # Unborn
  <2>1. cloner[c] \in ClonerRows /\ (cloner[c].at # "ended" => repo[cloner[c].repo].state # Unborn)
    BY <1>1 DEF TypeInv, ClonersOK
  <2>2. CASE Calm(c)
    BY <1>4, <2>1, <2>2 DEF Calm, ClonerRows
  <2>3. CASE Starting(c)
    BY <1>4, <2>3 DEF Starting, Spawned, NoCloner
  <2> QED
    BY <2>2, <2>3 DEF ClonersCalm
<1>5. WrittenIsWhole'
  <2>1. ASSUME NEW c \in Cloners, cloner'[c].at = "saves"
        PROVE  disk'[cloner'[c].dir] \in Sources
    BY <1>1, <1>4, <2>1 DEF Marked, WrittenIsWhole, Whole
  <2>2. ASSUME NEW c \in Cloners, cloner'[c].at = "sets", NEW r \in Repos, r = cloner'[c].repo,
               repo'[r].state = "row", r \notin byHand'
        PROVE  disk'[repo'[r].path] \in Sources
    <3>1. cloner[c].at = "sets" /\ cloner[c].repo = r /\ repo[r].state # Unborn
      BY <1>4, <2>2
    <3>2. Steady(r)
      BY <1>3, <2>2, <3>1 DEF Fresh, Handed
    <3>3. disk[repo[r].path] \in Sources
      BY <1>1, <2>2, <3>1, <3>2 DEF Marked, WrittenIsWhole, Steady, Whole
    <3> QED
      BY <1>1, <1>2, <3>2, <3>3 DEF Steady
  <2> QED
    <3>1. \A c \in Cloners : cloner'[c].at = "saves" => disk'[cloner'[c].dir] \in Sources
      BY <2>1
    <3>2. \A c \in Cloners : cloner'[c].at = "sets" /\ cloner'[c].repo \in Repos \ byHand'
                              /\ repo'[cloner'[c].repo].state = "row"
                            => disk'[repo'[cloner'[c].repo].path] \in Sources
      BY <2>2
    <3> QED
      BY <3>1, <3>2 DEF WrittenIsWhole, Whole, IsRepo
<1>6. ClonedIsThere'
  <2>1. ASSUME NEW r \in Repos \ byHand', repo'[r].state = "row", repo'[r].clone = "cloned"
        PROVE  disk'[repo'[r].path] \in Sources
    <3>1. Steady(r)
      BY <1>3, <2>1 DEF Fresh, Handed
    <3> QED
      BY <1>1, <1>2, <2>1, <3>1 DEF Marked, ClonedIsThere, Steady
  <2> QED
    BY <2>1 DEF ClonedIsThere, IsRepo
<1>7. PendingIsAttended'
  <2>1. ASSUME NEW r \in Repos, repo'[r].state = "row", repo'[r].clone = "pending"
        PROVE  r \in abandoned' \/ \E c \in Cloners : cloner'[c].repo = r /\ cloner'[c].at # "ended"
    <3>1. IsRepo(r) /\ repo[r].clone = "pending"
      BY <1>3, <2>1 DEF Steady, Fresh, Handed
    <3>2. CASE r \in abandoned
      BY <1>1, <3>2, AbandonedGrows
    <3>3. ASSUME NEW c \in Cloners, cloner[c].repo = r, cloner[c].at # "ended"
          PROVE  cloner'[c].repo = r /\ cloner'[c].at # "ended"
      <4>1. cloner[c] \in ClonerRows /\ Calm(c)
        BY <1>1, <3>3 DEF TypeInv, ClonersOK, ClonersCalm, Starting
      <4> QED
        BY <3>3, <4>1 DEF Calm, ClonerRows
    <3> QED
      BY <1>1, <3>1, <3>2, <3>3 DEF Marked, PendingIsAttended
  <2> QED
    BY <2>1 DEF PendingIsAttended, IsRepo
<1> QED
  BY <1>5, <1>6, <1>7 DEF Marked

(* What a step of cloner c leaves of the repository r it works for.          *)
Placed(r)      == disk'[repo'[r].path] \in Sources
LeavesPath(r)  == (repo'[r].path = repo[r].path /\ byHand \subseteq byHand') \/ Placed(r)
Attends(c, r)  == r \in abandoned' \/ (cloner'[c].repo = r /\ cloner'[c].at # "ended")

LEMMA ClonerKeepsMarks ==
  ASSUME AdminInv, [Next]_vars, NEW c \in Cloners, NEW r \in Repos, r = cloner[c].repo,
         SameRows, \A q \in Repos : q # r => repo'[q] = repo[q],
         repo'[r].state = repo[r].state, LeavesPath(r), byHand \subseteq byHand' \cup {r},
         \A e \in Cloners : e # c => cloner'[e] = cloner[e],
         cloner'[c].at \in {"saves", "sets"} => cloner'[c].repo = r,
         cloner'[c].at = "saves" => disk'[cloner'[c].dir] \in Sources,
         cloner'[c].at = "sets" /\ IsRepo(r) => Placed(r),
         IsRepo(r) => \/ repo'[r].clone = repo[r].clone /\ Attends(c, r)
                      \/ repo'[r].clone = "cloned" /\ (Placed(r) \/ r \in byHand')
                      \/ repo'[r].clone = "error"
                      \/ repo'[r].clone = "pending" /\ Attends(c, r)
  PROVE  Marked'
<1>1. /\ TypeInv /\ CloneInv /\ Marked
      /\ \A d \in Dirs : disk[d] \in Sources => disk'[d] \in Sources
  BY WholeStays DEF AdminInv, CloneInv, Marked, Whole
<1>2. \A q \in Repos : repo[q].path \in Dirs
  BY <1>1 DEF TypeInv, ReposOK, RepoRows
<1>3. \A q \in Repos : repo'[q].state = "row" <=> IsRepo(q)
  BY DEF IsRepo
<1>4. WrittenIsWhole'
  <2>1. ASSUME NEW e \in Cloners, e # c, cloner[e].at = "saves"
        PROVE  disk'[cloner[e].dir] \in Sources
    <3>1. cloner[e].dir \in Dirs
      BY <1>1 DEF TypeInv, ClonersOK, ClonerRows
    <3> QED
      BY <1>1, <2>1, <3>1 DEF Marked, WrittenIsWhole, Whole
  <2>2. ASSUME NEW e \in Cloners, e # c, cloner[e].at = "sets", NEW q \in Repos, q = cloner[e].repo,
               IsRepo(q), q \notin byHand'
        PROVE  disk'[repo'[q].path] \in Sources
    <3>1. CASE q \in byHand
      BY <2>2, <3>1 DEF LeavesPath, Placed
    <3>2. CASE q \notin byHand
      <4>1. disk[repo[q].path] \in Sources
        BY <1>1, <2>2, <3>2 DEF Marked, WrittenIsWhole, Whole
      <4> QED
        BY <1>1, <1>2, <2>2, <4>1 DEF LeavesPath, Placed
    <3> QED
      BY <3>1, <3>2
  <2> QED
    <3>1. \A e \in Cloners : cloner'[e].at = "saves" => disk'[cloner'[e].dir] \in Sources
      BY <2>1
    <3>2. \A e \in Cloners : cloner'[e].at = "sets" /\ cloner'[e].repo \in Repos \ byHand'
                              /\ repo'[cloner'[e].repo].state = "row"
                            => disk'[repo'[cloner'[e].repo].path] \in Sources
      BY <1>3, <2>2 DEF Placed
    <3> QED
      BY <3>1, <3>2 DEF WrittenIsWhole, Whole, IsRepo
<1>5. ClonedIsThere'
  <2>1. ASSUME NEW q \in Repos \ byHand', IsRepo(q), repo'[q].clone = "cloned"
        PROVE  disk'[repo'[q].path] \in Sources
    <3>1. CASE repo'[q].clone = repo[q].clone
      <4>1. CASE q \in byHand
        BY <2>1, <4>1 DEF LeavesPath, Placed
      <4>2. CASE q \notin byHand
        <5>1. disk[repo[q].path] \in Sources
          BY <1>1, <2>1, <3>1, <4>2 DEF Marked, ClonedIsThere
        <5> QED
          BY <1>1, <1>2, <2>1, <5>1 DEF LeavesPath, Placed
      <4> QED
        BY <4>1, <4>2
    <3>2. CASE q = r /\ Placed(r)
      BY <3>2 DEF Placed
    <3> QED
      BY <2>1, <3>1, <3>2
  <2> QED
    BY <1>3, <2>1 DEF ClonedIsThere, IsRepo
<1>6. PendingIsAttended'
  <2>1. ASSUME NEW q \in Repos, IsRepo(q), repo'[q].clone = "pending"
        PROVE  q \in abandoned' \/ \E e \in Cloners : cloner'[e].repo = q /\ cloner'[e].at # "ended"
    <3>1. CASE q = r
      BY <2>1, <3>1 DEF Attends
    <3>2. CASE q # r
      BY <1>1, <2>1, <3>2, AbandonedGrows DEF Marked, PendingIsAttended
    <3> QED
      BY <3>1, <3>2
  <2> QED
    BY <1>3, <2>1 DEF PendingIsAttended, IsRepo
<1> QED
  BY <1>4, <1>5, <1>6 DEF Marked

\* What a step of cloner c does to the row of its repository.
LEMMA ClonerRow ==
  ASSUME TypeInv, NEW c \in Cloners, NEW r \in Repos, r = cloner[c].repo,
         NEW x \in RepoRows, repo' = [repo EXCEPT ![r] = x]
  PROVE  SameRows /\ repo'[r] = x /\ \A q \in Repos : q # r => repo'[q] = repo[q]
<1>1. repo = [q \in Repos |-> repo[q]]
  BY DEF TypeInv, ReposOK
<1>2. repo' = [q \in Repos |-> IF q = r THEN x ELSE repo[q]]
  BY <1>1
<1> QED
  BY <1>2 DEF SameRows

LEMMA ClonerMarks ==
  ASSUME AdminInv, [Next]_vars, NEW c \in Cloners, ClonerStep(c) PROVE Marked'
<1> DEFINE r == cloner[c].repo
<1>1. /\ TypeInv /\ CloneInv /\ WrittenIsWhole /\ cloner[c] \in ClonerRows
      /\ cloner \in [Cloners -> ClonerRows]
      /\ repo = [q \in Repos |-> repo[q]]
  BY DEF AdminInv, CloneInv, TypeInv, ClonersOK, ReposOK
<1>2. r \in Repos /\ repo[r] \in RepoRows /\ (IsRepo(r) <=> repo[r].state = "row")
  <2>1. r \in Repos
    BY <1>1, ClonerMoves DEF TypeInv, ClonersOK
  <2> QED
    BY <1>1, <2>1 DEF TypeInv, ReposOK, IsRepo
<1>3. \A e \in Cloners : e # c => cloner'[e] = cloner[e]
  BY <1>1, ClonerMoves DEF Reads, Goes, Stops
<1> HIDE DEF r
(* The four kinds of steps: without a word to the database, with a statement *)
(* on the status, with one on the path, and the end of the process.          *)
<1>4. ASSUME UNCHANGED <<repo, byHand>>, cloner'[c].repo = r, cloner'[c].at \notin {"ended", "sets"},
             cloner'[c].at = "saves" => disk'[cloner'[c].dir] \in Sources
      PROVE  Marked'
  <2>1. /\ SameRows /\ repo'[r] = repo[r] /\ LeavesPath(r) /\ Attends(c, r)
        /\ \A q \in Repos : q # r => repo'[q] = repo[q]
    BY <1>1, <1>2, <1>4 DEF SameRows, LeavesPath, Attends
  <2> QED
    BY <1>1, <1>2, <1>3, <1>4, <2>1, ClonerKeepsMarks DEF r
<1>5. ASSUME NEW status \in {"pending", "cloned", "error"}, NEW then \in {"clones", "ended"},
             Writes(c, status, then), UNCHANGED byHand,
             status = "pending" => then # "ended",
             status = "cloned" => cloner[c].at = "sets"
      PROVE  Marked'
  <2>1. CASE ~ IsRepo(r)
    <3>1. UNCHANGED repo /\ cloner'[c].at = "ended"
      BY <1>1, <1>5, <2>1 DEF Writes, NoCloner, r
    <3>2. /\ SameRows /\ repo'[r] = repo[r] /\ LeavesPath(r)
          /\ \A q \in Repos : q # r => repo'[q] = repo[q]
      BY <1>1, <1>2, <1>5, <3>1 DEF SameRows, LeavesPath
    <3> QED
      BY <1>1, <1>2, <1>3, <1>5, <2>1, <3>1, <3>2, ClonerKeepsMarks DEF r
  <2>2. CASE IsRepo(r)
    <3>1. PICK x : x = [repo[r] EXCEPT !.clone = status]
      OBVIOUS
    <3>2. x \in RepoRows /\ x.clone = status /\ x.state = repo[r].state /\ x.path = repo[r].path
      BY <1>2, <3>1 DEF RepoRows, CloneStatuses
    <3>3. repo' = [repo EXCEPT ![r] = x]
      BY <1>5, <2>2, <3>1 DEF Writes, r
    <3>4. SameRows /\ repo'[r] = x /\ \A q \in Repos : q # r => repo'[q] = repo[q]
      BY <1>1, <1>2, <3>2, <3>3, ClonerRow DEF r
    <3>5. LeavesPath(r) /\ repo'[r].state = repo[r].state /\ repo'[r].clone = status
      BY <1>5, <3>2, <3>4 DEF LeavesPath
    <3>6. /\ cloner'[c].at \notin {"saves", "sets"}
          /\ status = "pending" => Attends(c, r)
      BY <1>1, <1>5, <2>2 DEF Writes, NoCloner, ClonerRows, Attends, r
    <3>7. status = "cloned" => Placed(r) \/ r \in byHand'
      <4>1. SUFFICES ASSUME status = "cloned", r \notin byHand PROVE Placed(r)
        BY <1>5
      <4>2. Whole(repo[r].path) /\ repo[r].path \in Dirs
        BY <1>1, <1>2, <1>5, <2>2, <4>1 DEF WrittenIsWhole, RepoRows, r
      <4>3. disk'[repo[r].path] = disk[repo[r].path]
        BY <1>1, <4>2, WholeStays DEF CloneInv
      <4> QED
        BY <3>2, <3>4, <4>2, <4>3 DEF Placed, Whole
    <3> QED
      BY <1>1, <1>2, <1>3, <1>5, <3>4, <3>5, <3>6, <3>7, ClonerKeepsMarks DEF r
  <2> QED
    BY <2>1, <2>2
<1>6. CASE RowReads(c)
  <2>0. UNCHANGED byHand
    BY <1>6 DEF RowReads, auxiliary
  <2>1. CASE UNCHANGED repo /\ Reads(c)
    <3>1. cloner'[c].repo = r /\ cloner'[c].at = "marks"
      BY <1>1, <2>1 DEF Reads, r
    <3> QED
      BY <1>4, <2>0, <2>1, <3>1
  <2>2. CASE ~ IsRepo(r) /\ cloner' = [cloner EXCEPT ![c] = NoCloner] /\ UNCHANGED repo
    BY <1>5, <2>0, <2>2 DEF Writes, r
  <2>3. CASE /\ IsRepo(r) /\ cloner' = [cloner EXCEPT ![c] = NoCloner]
             /\ repo' = [repo EXCEPT ![r].clone = "error"]
    BY <1>5, <2>0, <2>3 DEF Writes, r
  <2> QED
    BY <1>6, <2>1, <2>2, <2>3 DEF RowReads, Reads, r
<1>7. CASE MarksPending(c)
  BY <1>5, <1>7 DEF MarksPending, auxiliary
<1>8. CASE StartsGit(c)
  <2>0. UNCHANGED byHand
    BY <1>8 DEF StartsGit, auxiliary
  <2>1. CASE Writes(c, "error", "ended")
    BY <1>5, <2>0, <2>1
  <2>2. CASE UNCHANGED repo /\ cloner' = [cloner EXCEPT ![c].at = "git"]
    <3>1. cloner'[c].repo = r /\ cloner'[c].at = "git"
      BY <1>1, <2>2 DEF ClonerRows, r
    <3> QED
      BY <1>4, <2>0, <2>2, <3>1
  <2> QED
    BY <1>8, <2>1, <2>2 DEF StartsGit
<1>9. CASE GitFetches(c)
  <2>1. UNCHANGED <<repo, cloner, byHand>> /\ cloner[c].at = "git"
    BY <1>9 DEF GitFetches, rows, processes, auxiliary
  <2> QED
    BY <1>4, <2>1 DEF r
<1>10. CASE GitSucceeds(c)
  <2>1. /\ UNCHANGED <<repo, byHand>> /\ cloner' = [cloner EXCEPT ![c].at = "saves"]
        /\ disk' = [disk EXCEPT ![cloner[c].dir] = cloner[c].source]
        /\ cloner[c].at = "git"
    BY <1>10 DEF GitSucceeds, rows, auxiliary
  <2>2. cloner'[c].repo = r /\ cloner'[c].at = "saves" /\ cloner'[c].dir = cloner[c].dir
    BY <1>1, <2>1 DEF ClonerRows, r
  <2>3. disk'[cloner[c].dir] \in Sources
    <3>1. cloner[c].source \in Sources /\ cloner[c].dir \in Dirs
      BY <1>1, <2>1 DEF TypeInv, ClonersOK, ClonerRows
    <3> QED
      BY <1>1, <2>1, <3>1 DEF TypeInv, DiskOK
  <2> QED
    BY <1>4, <2>1, <2>2, <2>3
<1>11. CASE GitFails(c)
  BY <1>5, <1>11 DEF GitFails, auxiliary
<1>12. CASE SavesPath(c)
  <2>1. CASE ~ IsRepo(r)
    BY <1>5, <1>12, <2>1 DEF SavesPath, Writes, r
  <2>2. CASE IsRepo(r)
    <3>1. PICK x : x = [repo[r] EXCEPT !.path = cloner[c].dir]
      OBVIOUS
    <3>2. /\ x \in RepoRows /\ x.clone = repo[r].clone /\ x.state = repo[r].state
          /\ x.path = cloner[c].dir
      BY <1>1, <1>2, <3>1 DEF RepoRows, ClonerRows
    <3>3. repo' = [repo EXCEPT ![r] = x] /\ UNCHANGED disk /\ cloner[c].at = "saves"
      BY <1>12, <2>2, <3>1 DEF SavesPath, r
    <3>4. SameRows /\ repo'[r] = x /\ \A q \in Repos : q # r => repo'[q] = repo[q]
      BY <1>1, <1>2, <3>2, <3>3, ClonerRow DEF r
    <3>5. cloner'[c].repo = r /\ cloner'[c].at = "sets"
      BY <1>1, <1>12, <2>2 DEF SavesPath, ClonerRows, r
    <3>6. Placed(r)
      BY <1>1, <3>2, <3>3, <3>4 DEF Placed, WrittenIsWhole, Whole
    <3>7. byHand \subseteq byHand' \cup {r}
      BY <1>12, <2>2 DEF SavesPath, r
    <3>8. LeavesPath(r) /\ Attends(c, r) /\ repo'[r].state = repo[r].state /\ repo'[r].clone = repo[r].clone
      BY <3>2, <3>4, <3>5, <3>6 DEF LeavesPath, Attends
    <3> QED
      BY <1>1, <1>2, <1>3, <3>4, <3>5, <3>6, <3>7, <3>8, ClonerKeepsMarks DEF r
  <2> QED
    BY <2>1, <2>2
<1>13. CASE SetsCloned(c)
  BY <1>5, <1>13 DEF SetsCloned, auxiliary
<1>14. CASE ClonerIsKilled(c)
  <2>1. UNCHANGED <<repo, byHand>> /\ cloner'[c].at = "ended" /\ r \in abandoned'
    BY <1>1, <1>14 DEF ClonerIsKilled, rows, NoCloner, r
  <2>2. /\ SameRows /\ repo'[r] = repo[r] /\ LeavesPath(r) /\ Attends(c, r)
        /\ \A q \in Repos : q # r => repo'[q] = repo[q]
    BY <1>1, <1>2, <2>1 DEF SameRows, LeavesPath, Attends
  <2> QED
    BY <1>1, <1>2, <1>3, <2>1, <2>2, ClonerKeepsMarks DEF r
<1> QED
  BY <1>6, <1>7, <1>8, <1>9, <1>10, <1>11, <1>12, <1>13, <1>14 DEF ClonerStep

LEMMA AdminInvariance == Spec => []AdminInv
<1>1. Init => AdminInv
  BY InitTypeInv, InitHierarchy, InitCloneInv DEF AdminInv
<1>2. AdminInv /\ [Next]_vars => AdminInv'
  <2> SUFFICES ASSUME AdminInv, [Next]_vars PROVE AdminInv'
    OBVIOUS
  <2>1. Marked'
    BY OthersKeepMarks, OthersAreCalm, OthersRows, ClonerMarks DEF AdminInv, Next
  <2> QED
    BY <2>1, TypeInvStep, GitStep DEF AdminInv, CloneInv, Marked
<1> QED
  BY <1>1, <1>2, PTL DEF Spec

\* Every reachable state is type-correct: a row that was inserted keeps a profile
\* and a URL, a cloner at work has its row (repo_registry.py, cloner/__main__.py).
THEOREM TypeCorrect == Spec => []TypeOK
<1>1. AdminInv => TypeOK
  BY DEF AdminInv, TypeInv, TypeOK, ProfilesOK, ProfileRows, ReposOK, RepoRows, CloneStatuses,
     DiskOK, Trees, ClonersOK, ClonerRows, IndexersOK, IndexerRows, StoresOK, NodeRows, WebOK
<1> QED
  BY AdminInvariance, <1>1, PTL

\* A repository marked cloned has a complete checkout where its row says, however
\* cloners, edits of the URL, clone-all and kills interleave, unless an administrator
\* has named its directory since a cloner did (clone_repo, cloner/__main__.py,
\* clone-all, update_repo).
THEOREM ClonedRepositoriesAreThere == Spec => []ClonedIsThere
<1>1. AdminInv => ClonedIsThere
  BY DEF AdminInv, CloneInv
<1> QED
  BY AdminInvariance, <1>1, PTL

\* A repository is left pending only by a cloner that was killed: every other way
\* out of cloner/__main__.py writes a status, or finds that the row is gone.
THEOREM PendingRepositoriesAreAttended == Spec => []PendingIsAttended
<1>1. AdminInv => PendingIsAttended
  BY DEF AdminInv, CloneInv
<1> QED
  BY AdminInvariance, <1>1, PTL

\* A finished checkout is never written again, and no two cloners write into one
\* directory: clone_repo refuses a directory that is not empty.
THEOREM CheckoutsAreNeverOverwritten == Spec => CheckoutsAreKept
<1> DEFINE A == \A d \in Dirs : disk[d] \in Sources => disk'[d] = disk[d]
<1>1. AdminInv /\ [Next]_vars => [A]_vars
  BY WholeStays DEF AdminInv, CloneInv, Whole
<1> QED
  BY AdminInvariance, <1>1, PTL DEF Spec, CheckoutsAreKept

-----------------------------------------------------------------------------
(* Ownership of what is in the stores: what an indexer has read of a row is   *)
(* still so when it writes, or what it writes is accounted for.               *)

Pair(t) == <<t.dir[2], t.version>>
NameOf(r) == profile[repo[r].profile].name

\* A row has a profile, and what an indexer has read of is a row, or was one.
RowsOK ==
  /\ \A r \in Repos : IsRepo(r) => IsProfile(repo[r].profile)
  /\ \A r \in known : repo[r].state # Unborn
CleanupOK ==
  /\ web.at = "idle" => web.pairs = {}
  /\ web.at \in {"idle", "collects"} => web.keys = {}

\* Of a task, x being the indexer that has it: its row is where it was, or what is
\* written where it was is left behind.
InPlace(x, t) ==
  /\ t.dir = repo[t.repo].path /\ t.version = VersionOf(t.repo)
  /\ x.name = NameOf(t.repo) /\ x.name \in x.chain
Accounted(x, t) ==
  \/ Pair(t) \in left
  \/ IsRepo(t.repo) /\ Pair(t) = PairOf(t.repo) /\ x.name = NameOf(t.repo)
TaskOK(x, t) ==
  /\ t.repo \in known /\ Accounted(x, t)
  /\ IsRepo(t.repo) /\ t.repo \notin moved => InPlace(x, t)
Holding == {"next", "writes", "advances"}
Working == {"writes", "advances"}
IndexerOK(i, x) ==
  /\ x.at \notin Holding \cup {"locks"} => x.todo = {}
  /\ x.at \notin Working => x.now = {}
  /\ x.at \in Holding => lock[x.name] = i
  /\ \A t \in x.todo \cup x.now : TaskOK(x, t)
  /\ \A t, u \in x.now : t = u
TasksOK == \A i \in Indexers : IndexerOK(i, indexer[i])

OrderInv == RowsOK /\ CleanupOK /\ TasksOK /\ Overrun \subseteq overrun

-----------------------------------------------------------------------------
(* What a step does to rows and profiles.                                     *)

\* Only an edit changes the name or the version of a profile.
SameProfile(p) ==
  profile'[p].name = profile[p].name /\ profile'[p].version = profile[p].version
Dissolves(p) == \A r \in ReposOf(p) : ~ IsRepo(r)'
Remains(p)   == profile'[p].state = "row" /\ (SameProfile(p) \/ Moves(ReposOf(p)))
Removed(p)   == SameProfile(p) /\ Dissolves(p)

LEMMA ProfileChanges ==
  ASSUME TypeInv, [Next]_vars, NEW p \in Profiles, profile[p].state = "row"
  PROVE  Remains(p) \/ Removed(p)
<1>1. ProfilesOK /\ profile[p] \in ProfileRows /\ ReposOK
  BY DEF TypeInv, ProfilesOK
<1>2. ASSUME profile'[p] = profile[p] PROVE Remains(p)
  BY <1>2 DEF SameProfile, Remains
<1>3. ASSUME NEW q \in Profiles, NEW n, NEW v, NEW parent, NewProfile(q, n, v, parent)
      PROVE  Remains(p)
  BY <1>1, <1>2, <1>3 DEF NewProfile, ProfilesOK, Unborn
<1>4. ASSUME NEW q \in Profiles, NEW n \in Names, NEW v \in Versions, UpdateProfile(q, n, v)
      PROVE  Remains(p)
  <2>1. CASE q = p
    <3>1. Moves(ReposOf(p)) /\ profile' = [profile EXCEPT ![p] = [profile[p] EXCEPT !.name = n, !.version = v]]
      BY <1>4, <2>1 DEF UpdateProfile
    <3>2. profile'[p].state = "row"
      BY <1>1, <3>1 DEF ProfilesOK, ProfileRows
    <3> QED
      BY <3>1, <3>2 DEF Remains
  <2>2. CASE q # p
    BY <1>1, <1>2, <1>4, <2>2 DEF UpdateProfile, ProfilesOK
  <2> QED
    BY <2>1, <2>2
<1>5. ASSUME NEW q \in Profiles, NEW parent \in Profiles \cup {None}, SetProfileParent(q, parent)
      PROVE  Remains(p)
  <2>1. profile' = [profile EXCEPT ![q] = [profile[q] EXCEPT !.parent = parent]]
    BY <1>5 DEF SetProfileParent
  <2> QED
    BY <1>1, <2>1 DEF ProfilesOK, ProfileRows, SameProfile, Remains
<1>6. ASSUME NEW q \in Profiles, DeleteProfile(q) \/ CliDeleteProfile(q)
      PROVE  Remains(p) \/ Removed(p)
  <2>1. profile' = [profile EXCEPT ![q] = [profile[q] EXCEPT !.state = "gone"]]
        /\ repo' = Gone(ReposOf(q))
    BY <1>6 DEF DeleteProfile, CliDeleteProfile
  <2>2. CASE q = p
    <3>1. \A r \in ReposOf(p) : repo'[r].state = "gone"
      BY <1>1, <2>1, <2>2 DEF Gone, ReposOf, ReposOK, RepoRows
    <3>2. Dissolves(p)
      BY <3>1 DEF Dissolves, IsRepo
    <3>3. SameProfile(p)
      BY <1>1, <2>1, <2>2 DEF SameProfile, ProfilesOK, ProfileRows
    <3> QED
      BY <3>2, <3>3 DEF Removed
  <2>3. CASE q # p
    BY <1>1, <1>2, <2>1, <2>3 DEF ProfilesOK
  <2> QED
    BY <2>2, <2>3
<1>7. CASE Configures
  <2>1. ASSUME NEW q \in Profiles, NEW n, NEW v, NEW parent, CreateProfile(q, n, v, parent)
        PROVE  Remains(p)
    BY <1>3, <2>1 DEF CreateProfile
  <2>2. ASSUME NEW q \in Profiles, NEW n, NEW v, CliAddProfile(q, n, v) PROVE Remains(p)
    BY <1>3, <2>2 DEF CliAddProfile
  <2>3. ASSUME NEW r, NEW s, NEW q, AddRepo(r, q, s) PROVE Remains(p)
    BY <1>2, <2>3 DEF AddRepo
  <2>4. ASSUME NEW r, NEW s, NEW q, NEW path, CliAddRepo(r, q, s, path) PROVE Remains(p)
    BY <1>2, <2>4 DEF CliAddRepo
  <2>5. ASSUME NEW r, NEW s, NEW key, NEW path, UpdateRepo(r, s, key, path) PROVE Remains(p)
    BY <1>2, <2>5 DEF UpdateRepo
  <2>6. CASE DeleteSshKey
    BY <1>2, <2>6 DEF DeleteSshKey
  <2> QED
    BY <1>4, <1>5, <1>7, <2>1, <2>2, <2>3, <2>4, <2>5, <2>6 DEF Configures
<1>8. CASE Deletes
  <2>1. ASSUME NEW r \in Repos, DeleteRepo(r) \/ CliDeleteRepo(r) PROVE Remains(p)
    BY <1>2, <2>1 DEF DeleteRepo, CliDeleteRepo
  <2>2. CASE CollectsNames \/ DeletesNodes \/ DeletesVectors
    BY <1>2, <2>2 DEF CollectsNames, DeletesNodes, DeletesVectors, rows
  <2> QED
    BY <1>6, <1>8, <2>1, <2>2 DEF Deletes
<1>9. CASE Starts \/ (\E c \in Cloners : ClonerStep(c)) \/ \E i \in Indexers : IndexerStep(i)
  BY <1>2, <1>9, StartsOnly, ClonersOnly, IndexersOnly DEF StartsFrame, ClonerFrame, IndexerFrame
<1>10. CASE UNCHANGED vars
  BY <1>2, <1>10 DEF vars
<1> QED
  BY <1>7, <1>8, <1>9, <1>10 DEF Next

\* A row after a step is one there was, or a new one.
Stays(r) == repo[r].state = "row" /\ repo'[r].state = "row"

LEMMA RowKept ==
  ASSUME TypeInv, [Next]_vars, NEW r \in Repos, repo'[r].state = "row"
  PROVE  Stays(r) \/ (repo[r].state = Unborn /\ InsertsRow(r))
<1>1. RowChange(r) /\ repo[r] \in RepoRows
  BY RowsStep DEF RowsChange, TypeInv, ReposOK
<1>2. CASE repo'[r] = repo[r] \/ repo'[r] = [repo[r] EXCEPT !.key = FALSE]
  BY <1>1, <1>2 DEF Stays, RepoRows
<1> QED
  BY <1>1, <1>2 DEF RowChange, AdminChange, Stays

\* Such a row keeps its profile, and its directory unless it was moved.
LEMMA RowPlaced ==
  ASSUME TypeInv, [Next]_vars, NEW r \in Repos, Stays(r)
  PROVE  /\ repo'[r].profile = repo[r].profile
         /\ repo'[r].path = repo[r].path \/ LeavesPlace(r)
         /\ repo'[r].sha \in {repo[r].sha, NoSource} \/ StampsRow(r)
<1>1. RowChange(r) /\ repo[r] \in RepoRows
  BY RowsStep DEF RowsChange, TypeInv, ReposOK
<1>2. CASE repo'[r] = repo[r] \/ repo'[r] = [repo[r] EXCEPT !.key = FALSE]
  BY <1>1, <1>2 DEF RepoRows
<1>3. CASE repo[r].state = Unborn \/ DeletesRow(r)
  BY <1>1, <1>3 DEF Stays, DeletesRow, RepoRows, Unborn
<1>4. CASE repo'[r] = [repo[r] EXCEPT !.sha = NoSource] \/ MarksRow(r)
  BY <1>1, <1>4 DEF RepoRows, MarksRow
<1>5. CASE EditsRow(r)
  BY <1>1, <1>5 DEF RepoRows, EditsRow
<1>6. CASE NearRow(r)
  BY <1>1, <1>6 DEF RepoRows, NearRow
<1>7. CASE PlacesRow(r)
  BY <1>1, <1>7 DEF RepoRows, PlacesRow
<1>8. CASE StampsRow(r)
  BY <1>1, <1>8 DEF RepoRows, StampsRow
<1> QED
  BY <1>1, <1>2, <1>3, <1>4, <1>5, <1>6, <1>7, <1>8 DEF RowChange, AdminChange

\* It keeps the name and version of its profile too, or leaves its place.
SamePlace(r) ==
  /\ repo'[r].path = repo[r].path /\ VersionOf(r)' = VersionOf(r) /\ NameOf(r)' = NameOf(r)

LEMMA PlaceKept ==
  ASSUME TypeInv, RowsOK, [Next]_vars, NEW r \in Repos, Stays(r)
  PROVE  SamePlace(r) \/ LeavesPlace(r)
<1>1. /\ repo'[r].profile = repo[r].profile
      /\ repo'[r].path = repo[r].path \/ LeavesPlace(r)
  BY RowPlaced
<1>2. PICK p \in Profiles : p = repo[r].profile /\ profile[p].state = "row"
  BY DEF RowsOK, Stays, IsRepo, IsProfile
<1>3. r \in ReposOf(p) /\ IsRepo(r)'
  BY <1>2 DEF Stays, ReposOf, IsRepo
<1>4. SameProfile(p) \/ Moves(ReposOf(p))
  BY <1>2, ProfileChanges DEF Remains, Removed
<1>5. CASE SameProfile(p)
  BY <1>1, <1>2, <1>5 DEF SameProfile, SamePlace, VersionOf, NameOf
<1>6. CASE Moves(ReposOf(p))
  BY <1>3, <1>6 DEF Moves, LeavesPlace
<1> QED
  BY <1>4, <1>5, <1>6

\* A row that goes is left behind, or belongs to no indexer.
LEMMA RowGoes ==
  ASSUME TypeInv, [Next]_vars, NEW r \in Repos, repo[r].state = "row", repo'[r].state # "row"
  PROVE  Abandons(r)
<1>1. RowChange(r) /\ repo[r] \in RepoRows
  BY RowsStep DEF RowsChange, TypeInv, ReposOK
<1>2. CASE repo'[r] = repo[r] \/ repo'[r] = [repo[r] EXCEPT !.key = FALSE]
  BY <1>1, <1>2 DEF RepoRows
<1>3. CASE DeletesRow(r)
  BY <1>3 DEF DeletesRow
<1>4. CASE repo'[r] = [repo[r] EXCEPT !.sha = NoSource] \/ EditsRow(r) \/ MarksRow(r)
  BY <1>1, <1>4 DEF RepoRows, EditsRow, MarksRow
<1>5. CASE NearRow(r) \/ PlacesRow(r) \/ StampsRow(r)
  BY <1>1, <1>5 DEF RepoRows, NearRow, PlacesRow, StampsRow
<1> QED
  BY <1>1, <1>2, <1>3, <1>4, <1>5 DEF RowChange, AdminChange, Unborn

\* What an indexer has read is a row, or was one, after every step.
LEMMA KnownRowsStep ==
  ASSUME TypeInv, RowsOK, [Next]_vars PROVE \A r \in known' : repo'[r].state # Unborn
<1>1. \A r \in known : r \in Repos /\ repo'[r].state # Unborn
  BY RowsStay DEF RowsOK, TypeInv, WebOK
<1>2. ASSUME UNCHANGED known PROVE \A r \in known' : repo'[r].state # Unborn
  BY <1>1, <1>2
<1>3. CASE Configures \/ Deletes \/ Starts \/ (\E c \in Cloners : ClonerStep(c)) \/ UNCHANGED vars
  BY <1>2, <1>3, ConfiguresOnly, DeletesOnly, StartsOnly, ClonersOnly
  DEF ConfiguresFrame, DeletesFrame, StartsFrame, ClonerFrame, vars
<1>4. ASSUME NEW i, IndexerStep(i) PROVE \A r \in known' : repo'[r].state # Unborn
  <2>1. CASE ReadsRows(i)
    <3>1. known' = known \/ (known' = known \cup {t.repo : t \in RowsOf(indexer[i].name)} /\ UNCHANGED repo)
      BY <2>1 DEF ReadsRows, rows
    <3> QED
      BY <1>1, <3>1 DEF RowsOf, IsRepo, Unborn
  <2>2. CASE NextProfile(i) \/ TakesLock(i) \/ Finishes(i) \/ WritesGraph(i)
    BY <1>2, <2>2 DEF NextProfile, TakesLock, Finishes, WritesGraph, auxiliary
  <2>3. CASE AdvancesSha(i) \/ RepoFails(i) \/ IndexerIsKilled(i)
    BY <1>2, <2>3 DEF AdvancesSha, RepoFails, IndexerIsKilled, auxiliary
  <2>4. ASSUME NEW t, OpensRepo(i, t) PROVE UNCHANGED known
    BY <2>4 DEF OpensRepo, auxiliary
  <2> QED
    BY <1>2, <1>4, <2>1, <2>2, <2>3, <2>4 DEF IndexerStep
<1> QED
  BY <1>3, <1>4 DEF Next

LEMMA RowsOKStep == ASSUME TypeInv, RowsOK, [Next]_vars PROVE RowsOK'
<1>1. ASSUME NEW r \in Repos, repo'[r].state = "row"
      PROVE  repo'[r].profile \in Profiles /\ profile'[repo'[r].profile].state = "row"
  <2>1. CASE Stays(r)
    <3>1. PICK p \in Profiles : p = repo[r].profile /\ profile[p].state = "row"
      BY <2>1 DEF RowsOK, Stays, IsRepo, IsProfile
    <3>2. r \in ReposOf(p) /\ IsRepo(r)'
      BY <2>1, <3>1 DEF Stays, ReposOf, IsRepo
    <3>3. profile'[p].state = "row"
      BY <3>1, <3>2, ProfileChanges DEF Remains, Removed, Dissolves
    <3> QED
      BY <2>1, <3>1, <3>3, RowPlaced
  <2>2. CASE InsertsRow(r)
    BY <2>2 DEF InsertsRow, NewRows
  <2> QED
    BY <1>1, <2>1, <2>2, RowKept
<1>2. \A r \in known' : repo'[r].state # Unborn
  BY KnownRowsStep
<1> QED
  BY <1>1, <1>2 DEF RowsOK, IsRepo, IsProfile

-----------------------------------------------------------------------------
(* The deletion in progress.                                                  *)

StartsDeletion ==
  /\ web.at = "idle"
  /\ \E R \in SUBSET Repos : web' = [at |-> "collects", pairs |-> {PairOf(r) : r \in R}, keys |-> {}]

LEMMA WebMoves ==
  ASSUME TypeInv, [Next]_vars
  PROVE  \/ UNCHANGED web \/ StartsDeletion \/ CollectsNames \/ DeletesNodes \/ DeletesVectors
<1>1. CASE Deletes
  <2>1. ASSUME NEW r \in Repos, DeleteRepo(r) PROVE StartsDeletion
    BY <2>1 DEF DeleteRepo, Request, StartsCleanup, StartsDeletion
  <2>2. ASSUME NEW p \in Profiles, DeleteProfile(p) PROVE StartsDeletion
    <3>1. ReposOf(p) \in SUBSET Repos
      BY DEF ReposOf
    <3> QED
      BY <2>2, <3>1 DEF DeleteProfile, Request, StartsCleanup, StartsDeletion
  <2>3. ASSUME NEW r, CliDeleteRepo(r) PROVE UNCHANGED web
    BY <2>3 DEF CliDeleteRepo
  <2>4. ASSUME NEW p, CliDeleteProfile(p) PROVE UNCHANGED web
    BY <2>4 DEF CliDeleteProfile
  <2> QED
    BY <1>1, <2>1, <2>2, <2>3, <2>4 DEF Deletes
<1> QED
  BY <1>1, ConfiguresOnly, StartsOnly, ClonersOnly, IndexersOnly
  DEF Next, ConfiguresFrame, StartsFrame, ClonerFrame, IndexerFrame, vars

LEMMA CleanupStep ==
  ASSUME TypeInv, CleanupOK, [Next]_vars PROVE CleanupOK'
<1>1. web \in WebRows
  BY DEF TypeInv, WebOK, WebRows
<1>2. CASE UNCHANGED web
  BY <1>2 DEF CleanupOK
<1>3. CASE StartsDeletion
  BY <1>3 DEF StartsDeletion, CleanupOK
<1>4. CASE CollectsNames
  BY <1>1, <1>4 DEF CollectsNames, CleanupOK, WebRows
<1>5. CASE DeletesNodes
  BY <1>1, <1>5 DEF DeletesNodes, CleanupOK, WebRows
<1>6. CASE DeletesVectors
  BY <1>6 DEF DeletesVectors, Idle, CleanupOK
<1> QED
  BY <1>2, <1>3, <1>4, <1>5, <1>6, WebMoves

-----------------------------------------------------------------------------
(* What a step does to an indexer.                                            *)

\* It has no profile in hand; or it goes on with some of the tasks it has; or it
\* takes the lock, or reads the rows, of its profile.
Rests(i) ==
  /\ indexer'[i].at \notin Holding \cup {"locks"}
  /\ indexer'[i].todo = {} /\ indexer'[i].now = {}
GoesOn(i) ==
  /\ indexer[i].at \in Holding /\ indexer'[i].at \in Holding
  /\ indexer'[i].name = indexer[i].name /\ indexer'[i].chain = indexer[i].chain
  /\ indexer'[i].todo \cup indexer'[i].now \subseteq indexer[i].todo \cup indexer[i].now
  /\ indexer'[i].at = "next" => indexer'[i].now = {}
  /\ indexer'[i].now \in {{}, indexer[i].now} \/ \E t \in Tasks : indexer'[i].now = {t}
LocksProfile(i) ==
  /\ indexer[i].at = "locks" /\ indexer'[i].at = "next"
  /\ indexer'[i].name = indexer[i].name /\ indexer'[i].chain = indexer[i].chain
  /\ indexer'[i].todo = indexer[i].todo /\ indexer'[i].now = indexer[i].now
ReadsProfile(i) ==
  /\ indexer[i].at = "reads" /\ indexer'[i].at = "locks"
  /\ indexer'[i].name = indexer[i].name
  /\ indexer'[i].chain = UNION {ChainNames(p) : p \in
                           {q \in Profiles : IsProfile(q) /\ profile[q].name = indexer[i].name}}
  /\ indexer'[i].todo = RowsOf(indexer[i].name) /\ indexer'[i].now = {}
  /\ known' = known \cup {t.repo : t \in RowsOf(indexer[i].name)}
  /\ UNCHANGED <<profile, repo>>

\* An indexer keeps its lock, whatever the others do.
OthersStay(i) ==
  /\ \A e \in Indexers : e # i => indexer'[e] = indexer[e]
  /\ \A n \in Names : lock[n] \in Indexers /\ lock[n] # i => lock'[n] = lock[n]
Locked(i) == indexer'[i].at \in Holding => lock'[indexer'[i].name] = i

\* What an indexer does to itself and its lock, action by action.
LEMMA LeavingMoves ==
  ASSUME IndexersOK, NEW i \in Indexers, lock[indexer[i].name] = i, LeavesProfile(i)
  PROVE  Rests(i) /\ OthersStay(i) /\ Locked(i)
<1>1. PICK x : x = [NoIndexer EXCEPT !.at = "starts", !.names = indexer[i].names,
                                      !.flags = indexer[i].flags]
  OBVIOUS
<1>2. x.at = "starts" /\ x.todo = {} /\ x.now = {}
  BY <1>1 DEF NoIndexer
<1>3. indexer' = [indexer EXCEPT ![i] = x] /\ lock' = [lock EXCEPT ![indexer[i].name] = None]
  BY <1>1 DEF LeavesProfile
<1> QED
  BY <1>2, <1>3 DEF IndexersOK, Rests, OthersStay, Locked, Holding

LEMMA EndingMoves ==
  ASSUME IndexersOK, NEW i \in Indexers, IndexerOK(i, indexer[i]), indexer[i].at \in Holding,
         NEW t, EndsRepo(i, t)
  PROVE  (Rests(i) \/ GoesOn(i)) /\ OthersStay(i) /\ Locked(i)
<1>1. lock[indexer[i].name] = i /\ indexer[i] \in IndexerRows
  BY DEF IndexerOK, IndexersOK
<1>2. CASE LeavesProfile(i)
  BY <1>1, <1>2, LeavingMoves
<1>3. CASE /\ indexer' = [indexer EXCEPT ![i] =
                [indexer[i] EXCEPT !.at = "next", !.todo = indexer[i].todo \ {t}, !.now = {},
                                  !.read = NoSource, !.part = {}]]
           /\ UNCHANGED lock
  <2>1. PICK x : x = [indexer[i] EXCEPT !.at = "next", !.todo = indexer[i].todo \ {t}, !.now = {},
                                  !.read = NoSource, !.part = {}]
    OBVIOUS
  <2>2. /\ x.at = "next" /\ x.name = indexer[i].name /\ x.chain = indexer[i].chain
        /\ x.todo \subseteq indexer[i].todo /\ x.now = {}
    BY <1>1, <2>1 DEF IndexerRows
  <2>3. indexer'[i] = x /\ \A e \in Indexers : e # i => indexer'[e] = indexer[e]
    BY <1>3, <2>1 DEF IndexersOK
  <2> QED
    BY <1>1, <1>3, <2>2, <2>3 DEF GoesOn, OthersStay, Locked, Holding
<1> QED
  BY <1>2, <1>3 DEF EndsRepo

LEMMA OwnMoves ==
  ASSUME TypeInv, NEW i \in Indexers, IndexerOK(i, indexer[i]), IndexerStep(i)
  PROVE  (Rests(i) \/ GoesOn(i) \/ LocksProfile(i) \/ ReadsProfile(i)) /\ OthersStay(i) /\ Locked(i)
<1> DEFINE Goal == (Rests(i) \/ GoesOn(i) \/ LocksProfile(i) \/ ReadsProfile(i)) /\ OthersStay(i) /\ Locked(i)
<1>1. /\ IndexersOK /\ indexer[i] \in IndexerRows /\ lock \in [Names -> Indexers \cup {None}]
      /\ indexer[i].name \in Names /\ None \notin Indexers
      /\ indexer = [e \in Indexers |-> indexer[e]]
  BY ConstantsAssumption DEF TypeInv, IndexersOK, IndexerRows
<1>2. /\ indexer[i].at \notin Holding \cup {"locks"} => indexer[i].todo = {}
      /\ indexer[i].at \notin {"writes", "advances"} => indexer[i].now = {}
      /\ indexer[i].at \in Holding => lock[indexer[i].name] = i
  BY DEF IndexerOK, Working
<1>3. NoIndexer.at = "ended" /\ NoIndexer.todo = {} /\ NoIndexer.now = {}
  BY DEF NoIndexer
<1>4. ASSUME NEW x, indexer' = [indexer EXCEPT ![i] = x]
      PROVE  indexer'[i] = x /\ \A e \in Indexers : e # i => indexer'[e] = indexer[e]
  BY <1>1, <1>4
<1>5. CASE NextProfile(i)
  <2>1. CASE indexer' = [indexer EXCEPT ![i] = NoIndexer]
    BY <1>1, <1>3, <1>4, <1>5, <2>1 DEF NextProfile, Rests, OthersStay, Locked, Holding
  <2>2. ASSUME NEW n \in indexer[i].names,
               indexer' = [indexer EXCEPT ![i] =
                 [indexer[i] EXCEPT !.at = "reads", !.name = n, !.names = indexer[i].names \ {n}]]
        PROVE  Goal
    <3>1. PICK x : x = [indexer[i] EXCEPT !.at = "reads", !.name = n, !.names = indexer[i].names \ {n}]
      OBVIOUS
    <3>2. x.at = "reads" /\ x.todo = {} /\ x.now = {}
      BY <1>1, <1>2, <1>5, <3>1 DEF IndexerRows, NextProfile, Holding
    <3> QED
      BY <1>4, <1>5, <2>2, <3>1, <3>2 DEF NextProfile, Rests, OthersStay, Locked, Holding
  <2> QED
    BY <1>5, <2>1, <2>2 DEF NextProfile
<1>6. CASE ReadsRows(i)
  <2>1. CASE indexer' = [indexer EXCEPT ![i] = [indexer[i] EXCEPT !.at = "starts"]]
    <3>1. PICK x : x = [indexer[i] EXCEPT !.at = "starts"]
      OBVIOUS
    <3>2. x.at = "starts" /\ x.todo = {} /\ x.now = {}
      BY <1>1, <1>2, <1>6, <3>1 DEF IndexerRows, ReadsRows, Holding
    <3> QED
      BY <1>4, <1>6, <2>1, <3>1, <3>2 DEF ReadsRows, Rests, OthersStay, Locked, Holding
  <2>2. CASE /\ indexer' = [indexer EXCEPT ![i] =
                 [indexer[i] EXCEPT !.at = "locks", !.todo = RowsOf(indexer[i].name),
                  !.chain = UNION {ChainNames(p) : p \in
                    {q \in Profiles : IsProfile(q) /\ profile[q].name = indexer[i].name}}]]
             /\ known' = known \cup {t.repo : t \in RowsOf(indexer[i].name)}
    <3> DEFINE todo == RowsOf(indexer[i].name)
               chain == UNION {ChainNames(p) : p \in
                    {q \in Profiles : IsProfile(q) /\ profile[q].name = indexer[i].name}}
    <3>5. indexer' = [indexer EXCEPT ![i] = [indexer[i] EXCEPT !.at = "locks", !.todo = todo, !.chain = chain]]
      BY <2>2
    <3>6. known' = known \cup {t.repo : t \in todo}
      BY <2>2
    <3> HIDE DEF todo, chain
    <3>3. PICK x : x = [indexer[i] EXCEPT !.at = "locks", !.todo = todo, !.chain = chain]
      OBVIOUS
    <3>4. x.at = "locks" /\ x.todo = todo /\ x.chain = chain /\ x.now = {} /\ x.name = indexer[i].name
      BY <1>1, <1>2, <1>6, <3>3 DEF IndexerRows, ReadsRows
    <3>7. indexer'[i] = x /\ \A e \in Indexers : e # i => indexer'[e] = indexer[e]
      BY <1>4, <3>3, <3>5
    <3>8. UNCHANGED <<profile, repo, lock>> /\ indexer[i].at = "reads"
      BY <1>6 DEF ReadsRows, rows
    <3>9. ReadsProfile(i)
      BY <3>4, <3>6, <3>7, <3>8 DEF todo, chain, ReadsProfile
    <3> QED
      BY <3>4, <3>7, <3>8, <3>9 DEF OthersStay, Locked, Holding
  <2> QED
    BY <1>6, <2>1, <2>2 DEF ReadsRows
<1>7. CASE TakesLock(i)
  <2>1. CASE /\ indexer' = [indexer EXCEPT ![i] = [indexer[i] EXCEPT !.at = "starts", !.todo = {}, !.chain = {}]]
             /\ UNCHANGED lock
    <3>1. PICK x : x = [indexer[i] EXCEPT !.at = "starts", !.todo = {}, !.chain = {}]
      OBVIOUS
    <3>2. x.at = "starts" /\ x.todo = {} /\ x.now = {}
      BY <1>1, <1>2, <1>7, <3>1 DEF IndexerRows, TakesLock
    <3> QED
      BY <1>4, <2>1, <3>1, <3>2 DEF Rests, OthersStay, Locked, Holding
  <2>2. CASE /\ indexer' = [indexer EXCEPT ![i] = [indexer[i] EXCEPT !.at = "next"]]
             /\ ~ IsRunning(indexer[i].name)
             /\ lock' = [lock EXCEPT ![indexer[i].name] = i]
    <3>1. PICK x : x = [indexer[i] EXCEPT !.at = "next"]
      OBVIOUS
    <3>2. /\ x.at = "next" /\ x.todo = indexer[i].todo /\ x.now = indexer[i].now
          /\ x.name = indexer[i].name /\ x.chain = indexer[i].chain
      BY <1>1, <3>1 DEF IndexerRows
    <3>3. indexer'[i] = x /\ \A e \in Indexers : e # i => indexer'[e] = indexer[e]
      BY <1>4, <2>2, <3>1
    <3>4. LocksProfile(i)
      BY <1>7, <3>2, <3>3 DEF LocksProfile, TakesLock
    <3>5. \A n \in Names : lock'[n] = IF n = indexer[i].name THEN i ELSE lock[n]
      BY <1>1, <2>2
    <3> QED
      BY <1>1, <2>2, <3>2, <3>3, <3>4, <3>5 DEF OthersStay, Locked, IsRunning
  <2> QED
    BY <1>7, <2>1, <2>2 DEF TakesLock
<1>8. CASE Finishes(i)
  BY <1>1, <1>2, <1>8, LeavingMoves DEF Finishes, Holding
<1>9. ASSUME NEW t \in indexer[i].todo, OpensRepo(i, t) PROVE Goal
  <2>1. indexer[i].at = "next"
    BY <1>9 DEF OpensRepo
  <2>2. CASE EndsRepo(i, t)
    BY <1>1, <2>1, <2>2, EndingMoves DEF Holding
  <2>3. ASSUME NEW s \in Sources, NEW part,
               indexer' = [indexer EXCEPT ![i] =
                  [indexer[i] EXCEPT !.at = "writes", !.todo = indexer[i].todo \ {t}, !.now = {t},
                                     !.read = s, !.part = part]],
               UNCHANGED lock
        PROVE  Goal
    <3>1. t \in Tasks
      BY <1>1, <1>9 DEF IndexerRows
    <3>2. PICK x : x = [indexer[i] EXCEPT !.at = "writes", !.todo = indexer[i].todo \ {t}, !.now = {t},
                                           !.read = s, !.part = part]
      OBVIOUS
    <3>3. /\ x.at = "writes" /\ x.todo \cup x.now \subseteq indexer[i].todo /\ x.now = {t}
          /\ x.name = indexer[i].name /\ x.chain = indexer[i].chain
      BY <1>1, <1>9, <3>2 DEF IndexerRows
    <3>4. indexer'[i] = x /\ \A e \in Indexers : e # i => indexer'[e] = indexer[e]
      BY <1>4, <2>3, <3>2
    <3> QED
      BY <1>2, <2>1, <2>3, <3>1, <3>3, <3>4 DEF GoesOn, OthersStay, Locked, Holding
  <2> QED
    BY <1>9, <2>2, <2>3 DEF OpensRepo
<1>10. CASE WritesGraph(i)
  <2>1. PICK x : x = [indexer[i] EXCEPT !.at = "advances"]
    OBVIOUS
  <2>2. /\ x.at = "advances" /\ x.todo = indexer[i].todo /\ x.now = indexer[i].now
        /\ x.name = indexer[i].name /\ x.chain = indexer[i].chain
    BY <1>1, <2>1 DEF IndexerRows
  <2>3. indexer' = [indexer EXCEPT ![i] = x] /\ UNCHANGED lock /\ indexer[i].at = "writes"
    BY <1>10, <2>1 DEF WritesGraph
  <2>4. indexer'[i] = x /\ \A e \in Indexers : e # i => indexer'[e] = indexer[e]
    BY <1>4, <2>3
  <2> QED
    BY <1>2, <2>2, <2>3, <2>4 DEF GoesOn, OthersStay, Locked, Holding
<1>11. CASE AdvancesSha(i) \/ RepoFails(i)
  <2>1. indexer[i].at \in Holding /\ \E t \in indexer[i].now : EndsRepo(i, t)
    BY <1>11 DEF AdvancesSha, RepoFails, Holding
  <2> QED
    BY <1>1, <2>1, EndingMoves
<1>12. CASE IndexerIsKilled(i)
  <2>1. indexer' = [indexer EXCEPT ![i] = NoIndexer] /\ \A n \in Names : lock[n] # i => lock'[n] = lock[n]
    BY <1>12 DEF IndexerIsKilled
  <2>2. indexer'[i] = NoIndexer /\ \A e \in Indexers : e # i => indexer'[e] = indexer[e]
    BY <1>4, <2>1
  <2> QED
    BY <1>3, <2>1, <2>2 DEF Rests, OthersStay, Locked, Holding
<1> QED
  BY <1>5, <1>6, <1>7, <1>8, <1>9, <1>10, <1>11, <1>12 DEF IndexerStep

\* Other steps start an indexer, if anything, and take nothing from one at work.
LEMMA StrangersMove ==
  ASSUME TypeInv, Configures \/ Deletes \/ Starts \/ (\E c \in Cloners : ClonerStep(c)) \/ UNCHANGED vars,
         NEW i \in Indexers
  PROVE  (indexer'[i] = indexer[i] \/ (indexer[i].at = "ended" /\ Rests(i))) /\ UNCHANGED lock
<1>1. IndexersOK
  BY DEF TypeInv
<1> DEFINE Goal == indexer'[i] = indexer[i] \/ (indexer[i].at = "ended" /\ Rests(i))
<1>2. ASSUME NEW names, NEW flags, SpawnsIndexer(names, flags) PROVE Goal
  <2>1. PICK e \in Indexers : indexer[e].at = "ended" /\ indexer' = [indexer EXCEPT ![e] =
           [NoIndexer EXCEPT !.at = "starts", !.names = names, !.flags = flags]]
    BY <1>2 DEF SpawnsIndexer
  <2>2. PICK x : x = [NoIndexer EXCEPT !.at = "starts", !.names = names, !.flags = flags]
    OBVIOUS
  <2>3. x.at = "starts" /\ x.todo = {} /\ x.now = {}
    BY <2>2 DEF NoIndexer
  <2>4. indexer' = [indexer EXCEPT ![e] = x]
    BY <2>1, <2>2
  <2> QED
    BY <1>1, <2>1, <2>3, <2>4 DEF IndexersOK, Rests, Holding
<1>3. CASE Starts
  <2>1. ASSUME NEW p, CloneAll(p) PROVE Goal
    BY <2>1 DEF CloneAll, Clones
  <2>2. ASSUME NEW r, CliClone(r) PROVE Goal
    BY <2>2 DEF CliClone, Clones
  <2>3. ASSUME NEW r, ResetEmbed(r) PROVE Goal
    BY <1>2, <2>3 DEF ResetEmbed
  <2>4. ASSUME NEW r, NEW flags, IndexRepo(r, flags) PROVE Goal
    BY <1>2, <2>4 DEF IndexRepo
  <2>5. ASSUME NEW flags, IndexAll(flags) PROVE Goal
    BY <1>2, <2>5 DEF IndexAll
  <2>6. UNCHANGED lock
    BY <1>3, StartsOnly DEF StartsFrame
  <2> QED
    BY <1>3, <2>1, <2>2, <2>3, <2>4, <2>5, <2>6 DEF Starts
<1> QED
  BY <1>3, ConfiguresOnly, DeletesOnly, ClonersOnly DEF ConfiguresFrame, DeletesFrame, ClonerFrame, vars

\* What any step does to an indexer.
LEMMA IndexerMoves ==
  ASSUME TypeInv, OrderInv, [Next]_vars, NEW i \in Indexers
  PROVE  /\ indexer'[i] = indexer[i] \/ Rests(i) \/ GoesOn(i) \/ LocksProfile(i) \/ ReadsProfile(i)
         /\ Locked(i)
<1>1. /\ IndexerOK(i, indexer[i]) /\ indexer[i].name \in Names
      /\ \A e \in Indexers : IndexerOK(e, indexer[e])
  BY DEF OrderInv, TasksOK, TypeInv, IndexersOK, IndexerRows
<1>2. indexer[i].at \in Holding => lock[indexer[i].name] = i
  BY <1>1 DEF IndexerOK
<1>3. CASE Configures \/ Deletes \/ Starts \/ (\E c \in Cloners : ClonerStep(c)) \/ UNCHANGED vars
  <2>1. (indexer'[i] = indexer[i] \/ Rests(i)) /\ UNCHANGED lock
    BY <1>3, StrangersMove
  <2> QED
    BY <1>2, <2>1 DEF Rests, Locked
<1>4. ASSUME NEW e \in Indexers, IndexerStep(e)
      PROVE  /\ indexer'[i] = indexer[i] \/ Rests(i) \/ GoesOn(i) \/ LocksProfile(i) \/ ReadsProfile(i)
             /\ Locked(i)
  <2>1. CASE e = i
    BY <1>1, <1>4, <2>1, OwnMoves
  <2>2. CASE e # i
    <3>1. OthersStay(e)
      BY <1>1, <1>4, OwnMoves
    <3> QED
      BY <1>1, <1>2, <2>2, <3>1 DEF OthersStay, Locked
  <2> QED
    BY <2>1, <2>2
<1> QED
  BY <1>3, <1>4 DEF Next

\* What was read of a row stays true of it, or what it was is left behind.
LEMMA TaskKept ==
  ASSUME TypeInv, OrderInv, [Next]_vars, NEW i \in Indexers, NEW x, x = indexer[i],
         x.at \in Holding \cup {"locks"}, NEW t \in x.todo \cup x.now
  PROVE  TaskOK(x, t)'
<1>1. IndexerOK(i, x) /\ x.name \in Names /\ None \notin Indexers /\ known \subseteq Repos
  BY ConstantsAssumption DEF OrderInv, TasksOK, TypeInv, IndexersOK, IndexerRows, WebOK
<1>2. /\ TaskOK(x, t) /\ (x.at \in Holding => lock[x.name] = i)
      /\ x.at = "locks" => t \in x.todo
  BY <1>1 DEF IndexerOK, Working
<1>3. PICK r \in Repos : r = t.repo /\ r \in known /\ repo[r].state # Unborn
  BY <1>1, <1>2 DEF TaskOK, OrderInv, RowsOK
<1>4. known \subseteq known' /\ left \subseteq left' /\ moved \subseteq moved'
  BY AuxiliarySteps DEF Remembers, AllButOverrun, Grows
<1>5. Accounted(x, t)
  BY <1>2 DEF TaskOK
<1>6. CASE repo'[r].state = "row"
  <2>1. Stays(r)
    BY <1>3, <1>6, RowKept
  <2>2. SamePlace(r) \/ (r \in moved' /\ PairOf(r) \in left')
    BY <1>3, <2>1, PlaceKept DEF OrderInv, LeavesPlace
  <2>3. IsRepo(r) /\ IsRepo(r)'
    BY <2>1 DEF Stays, IsRepo
  <2>4. Accounted(x, t)'
    <3>1. CASE Pair(t) \in left
      BY <1>4, <3>1 DEF Accounted, Pair
    <3>2. CASE Pair(t) = PairOf(r) /\ x.name = NameOf(r) /\ SamePlace(r)
      <4>1. Pair(t) = PairOf(r)' /\ x.name = NameOf(r)'
        BY <3>2 DEF SamePlace, PairOf
      <4> QED
        BY <1>3, <2>3, <4>1 DEF Accounted, Pair
    <3>3. CASE Pair(t) = PairOf(r) /\ PairOf(r) \in left'
      BY <3>3 DEF Accounted, Pair
    <3> QED
      BY <1>3, <1>5, <2>2, <3>1, <3>2, <3>3 DEF Accounted
  <2>5. ASSUME r \notin moved' PROVE InPlace(x, t)'
    <3>1. SamePlace(r) /\ r \notin moved
      BY <1>4, <2>2, <2>5
    <3>2. InPlace(x, t)
      BY <1>2, <1>3, <2>3, <3>1 DEF TaskOK
    <3> QED
      BY <1>3, <3>1, <3>2 DEF InPlace, SamePlace
  <2> QED
    BY <1>3, <1>4, <2>4, <2>5 DEF TaskOK
<1>7. CASE repo'[r].state # "row"
  <2>1. Pair(t) \in left'
    <3>1. CASE Pair(t) \in left
      BY <1>4, <3>1
    <3>2. CASE IsRepo(r) /\ Pair(t) = PairOf(r) /\ x.name = NameOf(r)
      <4>1. Abandons(r)
        BY <1>7, <3>2, RowGoes DEF IsRepo
      <4>2. CASE x.at = "locks"
        <5>1. r \in Awaited({r})
          BY <1>2, <1>3, <4>2 DEF Awaited
        <5> QED
          BY <3>2, <4>1, <5>1 DEF Abandons
      <4>3. CASE x.at \in Holding
        <5>1. IsRunning(profile[repo[r].profile].name)
          BY <1>1, <1>2, <3>2, <4>3 DEF IsRunning, NameOf
        <5> QED
          BY <3>2, <4>1, <5>1 DEF Abandons
      <4> QED
        BY <4>2, <4>3
    <3> QED
      BY <1>3, <1>5, <3>1, <3>2 DEF Accounted
  <2>2. ~ IsRepo(r)' /\ r \in known'
    BY <1>3, <1>4, <1>7 DEF IsRepo
  <2> QED
    BY <1>3, <2>1, <2>2 DEF TaskOK, Accounted, Pair
<1> QED
  BY <1>6, <1>7

\* The tasks of an indexer that has just read the rows of its profile.
LEMMA TasksAreRows ==
  ASSUME TypeInv, RowsOK, NEW n, NEW x, x.name = n,
         x.chain = UNION {ChainNames(p) : p \in {q \in Profiles : IsProfile(q) /\ profile[q].name = n}},
         NEW t \in RowsOf(n)
  PROVE  IsRepo(t.repo) /\ InPlace(x, t)
<1>1. PICK r \in Repos : /\ IsRepo(r) /\ profile[repo[r].profile].name = n
                         /\ t = [repo |-> r, dir |-> repo[r].path, version |-> VersionOf(r)]
  BY DEF RowsOf
<1>2. t.repo = r /\ t.dir = repo[r].path /\ t.version = VersionOf(r)
  BY <1>1
<1>3. PICK p \in Profiles : p = repo[r].profile /\ IsProfile(p)
  BY <1>1 DEF RowsOK, IsProfile
<1>4. p \in AncestorsOf(p)
  BY <1>3, SelfIsAncestor
<1>5. profile[p].name \in ChainNames(p)
  BY <1>4 DEF ChainNames
<1>6. n \in ChainNames(p) /\ p \in {q \in Profiles : IsProfile(q) /\ profile[q].name = n}
  BY <1>1, <1>3, <1>5
<1>7. x.name \in x.chain
  BY <1>6
<1> QED
  BY <1>1, <1>2, <1>7 DEF InPlace, NameOf

\* Indexers have read what is so, hold their locks and work on one task.
LEMMA TasksStep ==
  ASSUME TypeInv, OrderInv, [Next]_vars PROVE TasksOK'
<1>1. ASSUME NEW i \in Indexers, NEW y, y = indexer'[i]
      PROVE  IndexerOK(i, y)'
  <2>1. PICK x : x = indexer[i]
    OBVIOUS
  <2>2. IndexerOK(i, x) /\ Locked(i) /\ x \in IndexerRows
    BY <2>1, IndexerMoves DEF OrderInv, TasksOK, TypeInv, IndexersOK
  <2>3. y.at \in Holding => lock'[y.name] = i
    BY <1>1, <2>2 DEF Locked
  <2>4. x.at \in Holding \cup {"locks"} => \A t \in x.todo \cup x.now : TaskOK(x, t)'
    BY <2>1, TaskKept
  <2>5. CASE y = x
    <3>1. \A t \in x.todo \cup x.now : TaskOK(x, t)'
      BY <2>2, <2>4 DEF IndexerOK, Holding, Working
    <3> QED
      BY <2>2, <2>3, <2>5, <3>1 DEF IndexerOK
  <2>6. CASE Rests(i)
    BY <1>1, <2>6 DEF Rests, IndexerOK, Holding, Working
  <2>7. CASE GoesOn(i)
    <3>1. /\ x.at \in Holding /\ y.at \in Holding /\ y.name = x.name /\ y.chain = x.chain
          /\ y.todo \cup y.now \subseteq x.todo \cup x.now
          /\ y.at = "next" => y.now = {}
          /\ y.now \in {{}, x.now} \/ \E t \in Tasks : y.now = {t}
      BY <1>1, <2>1, <2>7 DEF GoesOn
    <3>2. \A t \in y.todo \cup y.now : TaskOK(y, t)'
      BY <2>4, <3>1 DEF TaskOK, Accounted, InPlace
    <3>3. \A t, u \in y.now : t = u
      BY <2>2, <3>1 DEF IndexerOK
    <3> QED
      BY <2>3, <3>1, <3>2, <3>3 DEF IndexerOK, Holding, Working
  <2>8. CASE LocksProfile(i)
    <3>1. /\ x.at = "locks" /\ y.at = "next" /\ y.name = x.name /\ y.chain = x.chain
          /\ y.todo = x.todo /\ y.now = x.now
      BY <1>1, <2>1, <2>8 DEF LocksProfile
    <3>2. \A t \in y.todo \cup y.now : TaskOK(y, t)'
      BY <2>4, <3>1 DEF TaskOK, Accounted, InPlace
    <3>3. y.now = {}
      BY <2>2, <3>1 DEF IndexerOK, Working
    <3> QED
      BY <2>3, <3>1, <3>2, <3>3 DEF IndexerOK, Holding, Working
  <2>9. CASE ReadsProfile(i)
    <3>1. /\ y.at = "locks" /\ y.now = {}
          /\ y.name = x.name /\ y.todo = RowsOf(y.name)
          /\ y.chain = UNION {ChainNames(p) : p \in {q \in Profiles : IsProfile(q) /\ profile[q].name = y.name}}
          /\ known' = known \cup {t.repo : t \in y.todo}
          /\ UNCHANGED <<profile, repo>>
      BY <1>1, <2>1, <2>9 DEF ReadsProfile
    <3>2. ASSUME NEW t \in y.todo PROVE TaskOK(y, t)'
      <4>1. IsRepo(t.repo) /\ InPlace(y, t)
        BY <3>1, <3>2, TasksAreRows DEF OrderInv
      <4>2. /\ IsRepo(t.repo)' /\ InPlace(y, t)' /\ t.repo \in known'
            /\ Pair(t) = PairOf(t.repo)' /\ y.name = NameOf(t.repo)'
        BY <3>1, <3>2, <4>1 DEF IsRepo, InPlace, VersionOf, NameOf, PairOf, Pair
      <4> QED
        BY <4>2 DEF TaskOK, Accounted, Pair
    <3> QED
      BY <3>1, <3>2 DEF IndexerOK, Holding, Working
  <2> QED
    BY <1>1, <2>1, <2>5, <2>6, <2>7, <2>8, <2>9, IndexerMoves
<1>2. ASSUME NEW i \in Indexers PROVE IndexerOK(i, indexer[i])'
  <2>1. PICK y : y = indexer'[i]
    OBVIOUS
  <2>2. IndexerOK(i, y)'
    BY <1>1, <2>1
  <2> QED
    BY <2>1, <2>2 DEF IndexerOK, TaskOK, Accounted, InPlace, Pair, IsRepo, PairOf, VersionOf, NameOf
<1> QED
  BY <1>2 DEF TasksOK

\* What may be taken of a repository is remembered.
LEMMA OverrunStep ==
  ASSUME Overrun \subseteq overrun, [Next]_vars PROVE Overrun' \subseteq overrun'
<1>1. CASE UNCHANGED vars
  BY <1>1 DEF vars, Overrun, Takes, ModulesIn, PairOf, VersionOf, IsRepo
<1>2. CASE Next
  BY <1>2 DEF Next
<1> QED
  BY <1>1, <1>2

LEMMA OrderStep == ASSUME TypeInv, OrderInv, [Next]_vars PROVE OrderInv'
BY RowsOKStep, CleanupStep, TasksStep, OverrunStep DEF OrderInv

LEMMA InitOrder == Init => OrderInv
<1> SUFFICES ASSUME Init PROVE OrderInv
  OBVIOUS
<1>1. RowsOK
  <2>1. ASSUME NEW r \in Repos, repo[r].state = "row"
        PROVE  repo[r].profile \in Profiles /\ profile[repo[r].profile].state = "row"
    <3>1. repo[r] = NoRepo \/
          repo[r] \in [state : {"row"}, profile : {p \in Profiles : profile[p].state = "row"},
                      source : Sources, key : {FALSE}, path : Dirs, clone : {"manual"}, sha : {NoSource}]
      BY InitRows
    <3>2. NoRepo.state # "row"
      BY DEF NoRepo, Unborn
    <3> QED
      BY <2>1, <3>1, <3>2
  <2>2. known = {}
    BY DEF Init
  <2> QED
    BY <2>1, <2>2 DEF RowsOK, IsRepo, IsProfile
<1>2. CleanupOK
  BY DEF Init, CleanupOK, Idle
<1>3. \A i \in Indexers : indexer[i].at = "ended" /\ indexer[i].todo = {} /\ indexer[i].now = {}
  BY DEF Init, NoIndexer
<1>4. TasksOK
  BY <1>3 DEF TasksOK, IndexerOK, Holding, Working
<1>5. web.pairs = {}
  BY DEF Init, Idle
<1>6. Overrun = {}
  BY <1>3, <1>5 DEF Overrun
<1> QED
  BY <1>1, <1>2, <1>4, <1>6 DEF OrderInv

-----------------------------------------------------------------------------
(* What a step does to the stores, and an indexer at work to itself.          *)

Mine(i, t) == indexer[i].part \X {t.version}
Opening(i) ==
  /\ indexer[i].at = "next" /\ indexer'[i].at = "writes"
  /\ \E t \in Tasks :
       /\ indexer'[i].now = {t}
       /\ disk[t.dir] = indexer'[i].read => indexer'[i].part = Holds[indexer'[i].read]
       /\ vectors' \subseteq vectors \cup (indexer'[i].part \X {t.version})
  /\ UNCHANGED <<graph, disk>>
Idles(i) == indexer'[i].at \notin Working /\ (indexer[i].at = "writes" => faults' > 0)

\* Ending with a repository, one way or the other, is not working.
LEMMA EndingRests ==
  ASSUME IndexersOK, NEW i \in Indexers, NEW t, EndsRepo(i, t)
  PROVE  indexer'[i].at \notin Working
<1>1. indexer[i] \in IndexerRows
  BY DEF IndexersOK
<1>2. CASE LeavesProfile(i)
  <2>1. PICK x : x = [NoIndexer EXCEPT !.at = "starts", !.names = indexer[i].names,
                                        !.flags = indexer[i].flags]
    OBVIOUS
  <2>2. x.at = "starts"
    BY <2>1 DEF NoIndexer
  <2>3. indexer' = [indexer EXCEPT ![i] = x]
    BY <1>2, <2>1 DEF LeavesProfile
  <2> QED
    BY <2>2, <2>3 DEF IndexersOK, Working
<1>3. CASE indexer' = [indexer EXCEPT ![i] =
                [indexer[i] EXCEPT !.at = "next", !.todo = indexer[i].todo \ {t}, !.now = {},
                                   !.read = NoSource, !.part = {}]]
  <2>1. PICK x : x = [indexer[i] EXCEPT !.at = "next", !.todo = indexer[i].todo \ {t}, !.now = {},
                                         !.read = NoSource, !.part = {}]
    OBVIOUS
  <2>2. x.at = "next"
    BY <1>1, <2>1 DEF IndexerRows
  <2>3. indexer' = [indexer EXCEPT ![i] = x]
    BY <1>3, <2>1
  <2> QED
    BY <2>2, <2>3 DEF IndexersOK, Working
<1> QED
  BY <1>2, <1>3 DEF EndsRepo

\* To open a repository is to skip it, or to start to work on it.
LEMMA OpenMoves ==
  ASSUME TypeInv, NEW i \in Indexers, NEW t \in indexer[i].todo, OpensRepo(i, t)
  PROVE  \/ indexer'[i].at \notin Working /\ UNCHANGED <<graph, vectors>>
         \/ Opening(i)
<1>1. IndexersOK /\ indexer[i] \in IndexerRows /\ t \in Tasks
  BY DEF TypeInv, IndexersOK, IndexerRows
<1>2. indexer[i].at = "next" /\ UNCHANGED <<graph, disk>>
  BY DEF OpensRepo
<1>3. CASE EndsRepo(i, t) /\ UNCHANGED vectors
  BY <1>1, <1>2, <1>3, EndingRests
<1>4. ASSUME NEW s, NEW part, disk[t.dir] = s => part = Holds[s],
             indexer' = [indexer EXCEPT ![i] =
                  [indexer[i] EXCEPT !.at = "writes", !.todo = indexer[i].todo \ {t}, !.now = {t},
                                     !.read = s, !.part = part]],
             vectors' = IF indexer[i].flags.embed
                        THEN vectors \cup (part \X {t.version}) ELSE vectors
      PROVE  Opening(i)
  <2>1. PICK x : x = [indexer[i] EXCEPT !.at = "writes", !.todo = indexer[i].todo \ {t}, !.now = {t},
                                         !.read = s, !.part = part]
    OBVIOUS
  <2>2. x.at = "writes" /\ x.now = {t} /\ x.read = s /\ x.part = part
    BY <1>1, <2>1 DEF IndexerRows
  <2>3. indexer'[i] = x
    BY <1>1, <1>4, <2>1 DEF IndexersOK
  <2>4. vectors' \subseteq vectors \cup (part \X {t.version})
    BY <1>4
  <2> QED
    BY <1>1, <1>2, <1>4, <2>2, <2>3, <2>4 DEF Opening
<1> QED
  BY <1>3, <1>4 DEF OpensRepo

LEMMA WriteMoves ==
  ASSUME TypeInv, NEW i \in Indexers, WritesGraph(i)
  PROVE  /\ indexer[i].at = "writes" /\ indexer'[i].at = "advances"
         /\ indexer'[i].now = indexer[i].now /\ indexer'[i].read = indexer[i].read
         /\ indexer'[i].part = indexer[i].part
<1>1. IndexersOK /\ indexer[i] \in IndexerRows
  BY DEF TypeInv, IndexersOK
<1>2. PICK x : x = [indexer[i] EXCEPT !.at = "advances"]
  OBVIOUS
<1>3. x.at = "advances" /\ x.now = indexer[i].now /\ x.read = indexer[i].read /\ x.part = indexer[i].part
  BY <1>1, <1>2 DEF IndexerRows
<1>4. indexer'[i] = x /\ indexer[i].at = "writes"
  BY <1>1, <1>2 DEF WritesGraph, IndexersOK
<1> QED
  BY <1>3, <1>4

\* An indexer that is not at work opens a repository, or stays at rest.
LEMMA RestersMove ==
  ASSUME TypeInv, NEW i \in Indexers, IndexerOK(i, indexer[i]), IndexerStep(i), indexer[i].at \notin Working
  PROVE  Idles(i) \/ Opening(i)
<1>1. /\ IndexersOK /\ NoIndexer.at = "ended" /\ indexer[i] \in IndexerRows
      /\ indexer[i].at # "writes"
  BY DEF TypeInv, IndexersOK, NoIndexer, Working
<1>2. ASSUME Rests(i) \/ indexer'[i].at \notin Working PROVE Idles(i)
  BY <1>1, <1>2 DEF Rests, Holding, Working, Idles
<1>3. ASSUME NEW t \in indexer[i].todo, OpensRepo(i, t) PROVE Idles(i) \/ Opening(i)
  BY <1>2, <1>3, OpenMoves
<1>4. CASE NextProfile(i) \/ ReadsRows(i) \/ TakesLock(i) \/ IndexerIsKilled(i)
  <2>1. (Rests(i) \/ GoesOn(i) \/ LocksProfile(i) \/ ReadsProfile(i))
    BY OwnMoves
  <2>2. CASE LocksProfile(i) \/ ReadsProfile(i)
    BY <1>2, <2>2 DEF LocksProfile, ReadsProfile, Working
  <2>3. CASE IndexerIsKilled(i)
    BY <1>1, <1>2, <2>3 DEF IndexerIsKilled, IndexersOK, Working
  <2>4. CASE GoesOn(i) /\ ~ IndexerIsKilled(i)
    BY <1>4, <2>4 DEF NextProfile, ReadsRows, TakesLock, GoesOn, Holding
  <2> QED
    BY <1>2, <2>1, <2>2, <2>3, <2>4
<1>5. CASE Finishes(i)
  <2>1. Rests(i)
    BY <1>1, <1>5, LeavingMoves DEF Finishes, IndexerOK, Holding
  <2> QED
    BY <1>2, <2>1
<1>6. CASE WritesGraph(i) \/ AdvancesSha(i) \/ RepoFails(i)
  BY <1>6 DEF WritesGraph, AdvancesSha, RepoFails, Working
<1> QED
  BY <1>3, <1>4, <1>5, <1>6 DEF IndexerStep

\* An indexer at work writes its graph, or stops, early only by a fault.
LEMMA WorkersMove ==
  ASSUME TypeInv, NEW i \in Indexers, IndexerStep(i), indexer[i].at \in Working
  PROVE  Idles(i) \/ WritesGraph(i)
<1>1. /\ IndexersOK /\ NoIndexer.at = "ended" /\ faults \in Nat /\ indexer[i] \in IndexerRows
  BY ConstantsAssumption DEF TypeInv, WebOK, IndexersOK, NoIndexer
<1>2. CASE AdvancesSha(i)
  BY <1>1, <1>2, EndingRests DEF AdvancesSha, Idles
<1>3. CASE RepoFails(i)
  BY <1>1, <1>3, EndingRests DEF RepoFails, Fault, Idles
<1>4. CASE IndexerIsKilled(i)
  BY <1>1, <1>4 DEF IndexerIsKilled, IndexersOK, Fault, Working, Idles
<1>5. CASE NextProfile(i) \/ ReadsRows(i) \/ TakesLock(i) \/ Finishes(i)
  BY <1>5 DEF NextProfile, ReadsRows, TakesLock, Finishes, Working
<1>6. ASSUME NEW t, OpensRepo(i, t) PROVE FALSE
  BY <1>6 DEF OpensRepo, Working
<1> QED
  BY <1>2, <1>3, <1>4, <1>5, <1>6 DEF IndexerStep

LEMMA WorkerMoves ==
  ASSUME TypeInv, OrderInv, [Next]_vars, NEW i \in Indexers
  PROVE  indexer'[i] = indexer[i] \/ Idles(i) \/ Opening(i) \/ WritesGraph(i)
<1>1. /\ IndexerOK(i, indexer[i]) /\ \A e \in Indexers : IndexerOK(e, indexer[e])
  BY DEF OrderInv, TasksOK
<1>2. CASE Configures \/ Deletes \/ Starts \/ (\E c \in Cloners : ClonerStep(c)) \/ UNCHANGED vars
  <2>1. indexer'[i] = indexer[i] \/ (indexer[i].at = "ended" /\ Rests(i))
    BY <1>2, StrangersMove
  <2> QED
    BY <2>1 DEF Rests, Holding, Working, Idles
<1>3. ASSUME NEW e \in Indexers, IndexerStep(e)
      PROVE  indexer'[i] = indexer[i] \/ Idles(i) \/ Opening(i) \/ WritesGraph(i)
  <2>1. CASE e # i
    BY <1>1, <1>3, <2>1, OwnMoves DEF OthersStay
  <2>2. CASE e = i
    BY <1>1, <1>3, <2>2, RestersMove, WorkersMove
  <2> QED
    BY <2>1, <2>2
<1> QED
  BY <1>2, <1>3 DEF Next

\* The stores are written by indexers and cleaned up by deletions.
LEMMA StoreMoves ==
  ASSUME TypeInv, [Next]_vars
  PROVE  \/ UNCHANGED <<graph, vectors>>
         \/ (\E i \in Indexers : Opening(i) \/ WritesGraph(i)) \/ DeletesNodes \/ DeletesVectors
<1>1. CASE Deletes
  <2>1. ASSUME NEW r, DeleteRepo(r) \/ CliDeleteRepo(r) PROVE UNCHANGED stores
    BY <2>1 DEF DeleteRepo, CliDeleteRepo
  <2>2. ASSUME NEW p, DeleteProfile(p) \/ CliDeleteProfile(p) PROVE UNCHANGED stores
    BY <2>2 DEF DeleteProfile, CliDeleteProfile
  <2>3. CASE CollectsNames
    BY <2>3 DEF CollectsNames, stores
  <2> QED
    BY <1>1, <2>1, <2>2, <2>3 DEF Deletes, stores
<1>2. ASSUME NEW i \in Indexers, IndexerStep(i)
      PROVE  UNCHANGED <<graph, vectors>> \/ Opening(i) \/ WritesGraph(i)
  <2>1. CASE NextProfile(i) \/ ReadsRows(i) \/ TakesLock(i) \/ Finishes(i)
    BY <2>1 DEF NextProfile, ReadsRows, TakesLock, Finishes, stores
  <2>2. CASE AdvancesSha(i) \/ RepoFails(i) \/ IndexerIsKilled(i)
    BY <2>2 DEF AdvancesSha, RepoFails, IndexerIsKilled, stores
  <2> QED
    BY <1>2, <2>1, <2>2, OpenMoves DEF IndexerStep
<1>3. CASE Configures \/ Starts \/ (\E c \in Cloners : ClonerStep(c)) \/ UNCHANGED vars
  BY <1>3, ConfiguresOnly, StartsOnly, ClonersOnly DEF ConfiguresFrame, StartsFrame, ClonerFrame, vars
<1> QED
  BY <1>1, <1>2, <1>3 DEF Next

\* One write: the modules found are there, in this directory and under the names of
\* the chain; GC may take others of the directory name and version.
Swept(i, t, k) ==
  /\ graph'[k] = NoNode /\ indexer[i].flags.gc /\ k \in NodesOf(Pair(t)) /\ Pair(t) \in left'
Writing(i, t) ==
  /\ Pair(t) \in web.pairs => Pair(t) \in left'
  /\ \A k \in Keys :
       /\ k \notin Mine(i, t) => graph'[k] = graph[k] \/ Swept(i, t, k)
       /\ k \in Mine(i, t) => /\ graph'[k].there /\ graph'[k].dir = t.dir
                              /\ graph'[k].by = graph[k].by \cup indexer[i].chain

LEMMA WriteEffect ==
  ASSUME NEW i \in Indexers, WritesGraph(i)
  PROVE  \E t \in indexer[i].now : Writing(i, t)
<1> DEFINE stale(t) == {k \in NodesOf(Pair(t)) \ Mine(i, t) : indexer[i].flags.gc}
           swept(t) == IF Mine(i, t) = {} THEN {} ELSE stale(t)
<1>1. PICK t \in indexer[i].now :
        /\ graph' = [k \in Keys |->
             IF k \in Mine(i, t)
             THEN [there |-> TRUE, dir |-> t.dir, by |-> graph[k].by \cup indexer[i].chain]
             ELSE IF k \in swept(t) THEN NoNode ELSE graph[k]]
        /\ left' = IF swept(t) # {} \/ Pair(t) \in web.pairs THEN left \cup {Pair(t)} ELSE left
  BY DEF WritesGraph, Mine, Pair
<1>2. \A k \in swept(t) : indexer[i].flags.gc /\ k \in NodesOf(Pair(t)) /\ Pair(t) \in left'
  BY <1>1
<1>3. Pair(t) \in web.pairs => Pair(t) \in left'
  BY <1>1
<1> HIDE DEF stale, swept
<1>4. ASSUME NEW k \in Keys
      PROVE  /\ k \notin Mine(i, t) => graph'[k] = graph[k] \/ Swept(i, t, k)
             /\ k \in Mine(i, t) => /\ graph'[k].there /\ graph'[k].dir = t.dir
                                    /\ graph'[k].by = graph[k].by \cup indexer[i].chain
  <2>1. PICK n : n = [there |-> TRUE, dir |-> t.dir, by |-> graph[k].by \cup indexer[i].chain]
    OBVIOUS
  <2>2. graph'[k] = IF k \in Mine(i, t) THEN n ELSE IF k \in swept(t) THEN NoNode ELSE graph[k]
    BY <1>1, <2>1
  <2>3. n.there /\ n.dir = t.dir /\ n.by = graph[k].by \cup indexer[i].chain
    BY <2>1
  <2> QED
    BY <1>2, <2>2, <2>3 DEF Swept
<1> QED
  BY <1>3, <1>4 DEF Writing

-----------------------------------------------------------------------------
(* What a repository has in the graph is that of the checkout in its directory, *)
(* unless it is one of those whose nodes others may have taken.                 *)

Bears(k, d, n) == graph[k].there /\ graph[k].dir[2] = d[2] /\ n \in graph[k].by
Stored(r, s) ==
  /\ r \in known /\ disk[repo[r].path] = s
  /\ \A m \in Holds[s] : Bears(<<m, VersionOf(r)>>, repo[r].path, NameOf(r))
Settled(r) == r \in Repos /\ r \notin moved /\ r \notin overrun /\ repo[r].state = "row"

\* A repository with a head_sha has it, and one whose head_sha an indexer is about
\* to write; who is to write the nodes has found all the modules.
IndexedIsStored == \A r \in Repos : Settled(r) /\ repo[r].sha # NoSource => Stored(r, repo[r].sha)
WrittenIsStored ==
  \A i \in Indexers : indexer[i].at \in Working =>
    \A t \in indexer[i].now : Settled(t.repo) =>
      /\ indexer[i].part = Holds[indexer[i].read]
      /\ indexer[i].at = "advances" => Stored(t.repo, indexer[i].read)

LEMMA RowsAreTyped ==
  ASSUME TypeInv, RowsOK, NEW r \in Repos, repo[r].state = "row"
  PROVE  VersionOf(r) \in Versions /\ NameOf(r) \in Names /\ repo[r].path \in Dirs
<1>1. PICK p \in Profiles : p = repo[r].profile
  BY DEF RowsOK, IsRepo, IsProfile
<1>2. profile[p] \in ProfileRows /\ repo[r] \in RepoRows
  BY DEF TypeInv, ProfilesOK, ReposOK
<1> QED
  BY <1>1, <1>2 DEF ProfileRows, RepoRows, VersionOf, NameOf

\* What is nobody else's to take stays, and is written again as it was.
LEMMA BearsStays ==
  ASSUME TypeInv, OrderInv, WrittenIsStored, [Next]_vars, NEW r, Settled(r),
         NEW s \in Sources, Stored(r, s), NEW m \in Holds[s], NEW k \in Keys, k = <<m, VersionOf(r)>>
  PROVE  graph'[k].there /\ graph'[k].dir[2] = repo[r].path[2] /\ NameOf(r) \in graph'[k].by
<1> DEFINE Goal == graph'[k].there /\ graph'[k].dir[2] = repo[r].path[2] /\ NameOf(r) \in graph'[k].by
<1>1. /\ graph[k].there /\ graph[k].dir[2] = repo[r].path[2] /\ NameOf(r) \in graph[k].by
      /\ k[1] = m /\ k[2] = VersionOf(r) /\ disk[repo[r].path] = s
  BY DEF Stored, Bears
<1>2. r \in Repos /\ IsRepo(r) /\ r \notin Overrun /\ r \notin moved
  BY DEF Settled, OrderInv, IsRepo
<1>3. CASE graph'[k] = graph[k]
  BY <1>1, <1>3
<1>4. ASSUME NEW i \in Indexers, WritesGraph(i) PROVE Goal
  <2>1. PICK t \in indexer[i].now : Writing(i, t)
    BY <1>4, WriteEffect
  <2>2. ~ Takes(i, t, r) /\ (t.repo = r => disk[t.dir] = indexer[i].read)
    BY <1>2 DEF Overrun
  <2>3. IndexerOK(i, indexer[i]) /\ indexer[i].at = "writes"
    BY <1>4 DEF OrderInv, TasksOK, WritesGraph
  <2>4. CASE t.repo = r
    <3>1. InPlace(indexer[i], t)
      BY <1>2, <2>3, <2>4 DEF IndexerOK, TaskOK
    <3>2. indexer[i].part = Holds[indexer[i].read]
      BY <2>3, <2>4 DEF WrittenIsStored, Working
    <3>3. indexer[i].read = s
      BY <1>1, <2>2, <2>4, <3>1 DEF InPlace
    <3>4. k \in Mine(i, t)
      BY <2>4, <3>1, <3>2, <3>3 DEF Mine, InPlace
    <3>5. graph'[k].there /\ graph'[k].dir = t.dir /\ graph'[k].by = graph[k].by \cup indexer[i].chain
      BY <2>1, <3>4 DEF Writing
    <3> QED
      BY <1>1, <2>4, <3>1, <3>5 DEF InPlace
  <2>5. CASE t.repo # r
    <3>1. m \in ModulesIn(repo[r].path)
      BY <1>1 DEF ModulesIn
    <3>2. k \notin Mine(i, t)
      BY <1>1, <2>2, <2>5, <3>1 DEF Mine, Takes
    <3>3. ~ Swept(i, t, k)
      BY <1>1, <2>2, <2>5 DEF Swept, NodesOf, Pair, Takes
    <3> QED
      BY <1>3, <2>1, <3>2, <3>3 DEF Writing
  <2> QED
    BY <2>4, <2>5
<1>5. CASE DeletesNodes
  <2>1. ASSUME Doomed(k) PROVE FALSE
    <3>1. PICK x \in web.pairs : <<graph[k].dir[2], k[2]>> = x
      BY <2>1 DEF Doomed, NodesOf
    <3>2. PairOf(r) \in web.pairs
      BY <1>1, <3>1 DEF PairOf
    <3> QED
      BY <1>2, <3>2 DEF Overrun
  <2> QED
    BY <1>3, <1>5, <2>1 DEF DeletesNodes
<1> QED
  BY <1>3, <1>4, <1>5, StoreMoves DEF Opening, DeletesVectors

\* What was settled before a step, of what is settled after it.
LEMMA SettledBefore ==
  ASSUME TypeInv, OrderInv, [Next]_vars, NEW r \in Repos, Settled(r)',
         repo[r].state # Unborn \/ repo'[r].sha # NoSource
  PROVE  Settled(r) /\ Stays(r) /\ (r \in known => SamePlace(r))
<1>1. moved \subseteq moved' /\ overrun \subseteq overrun'
  BY AuxiliarySteps DEF Remembers, AllButOverrun, Grows
<1>2. Stays(r)
  BY RowKept DEF Settled, InsertsRow, NewRows
<1>3. r \in known => SamePlace(r)
  BY <1>2, PlaceKept DEF OrderInv, LeavesPlace, Settled
<1> QED
  BY <1>1, <1>2, <1>3 DEF Settled, Stays

LEMMA StoredStays ==
  ASSUME TypeInv, GitIsAlone, OrderInv, WrittenIsStored, [Next]_vars,
         NEW r \in Repos, Settled(r)', repo[r].state # Unborn, NEW s \in Sources, Stored(r, s)
  PROVE  Stored(r, s)'
<1>1. Settled(r) /\ SamePlace(r) /\ repo[r].state = "row"
  BY SettledBefore DEF Stored, Stays
<1>2. VersionOf(r) \in Versions /\ repo[r].path \in Dirs /\ Holds[s] \subseteq Modules
  BY <1>1, RowsAreTyped, ConstantsAssumption DEF OrderInv
<1>3. r \in known'
  BY AuxiliarySteps DEF Remembers, AllButOverrun, Grows, Stored
<1>4. disk'[repo'[r].path] = s
  BY <1>1, <1>2, WholeStays DEF Stored, SamePlace, Whole
<1>5. ASSUME NEW m \in Holds[s] PROVE Bears(<<m, VersionOf(r)>>, repo[r].path, NameOf(r))'
  <2>1. PICK k \in Keys : k = <<m, VersionOf(r)>>
    BY <1>2 DEF Keys
  <2>2. graph'[k].there /\ graph'[k].dir[2] = repo[r].path[2] /\ NameOf(r) \in graph'[k].by
    BY <1>1, <2>1, BearsStays
  <2> QED
    BY <1>1, <2>1, <2>2 DEF Bears, SamePlace
<1> QED
  BY <1>3, <1>4, <1>5 DEF Stored

\* A head_sha is written when all it stands for is in the graph.
LEMMA IndexedStep ==
  ASSUME TypeInv, GitIsAlone, OrderInv, IndexedIsStored, WrittenIsStored, [Next]_vars
  PROVE  IndexedIsStored'
<1> SUFFICES ASSUME NEW r \in Repos, Settled(r)', repo'[r].sha # NoSource,
                    NEW s, s = repo'[r].sha
             PROVE  Stored(r, s)'
  BY DEF IndexedIsStored, Stored, Bears
<1>1. Settled(r) /\ Stays(r)
  BY SettledBefore
<1>2. ReposOK /\ ReposOK' /\ repo[r].state # Unborn /\ repo[r] \in RepoRows
  BY <1>1, ReposStep DEF TypeInv, ReposOK, Stays, Unborn
<1>3. repo'[r].sha \in {repo[r].sha, NoSource} \/ StampsRow(r)
  BY <1>1, RowPlaced
<1>4. s \in Sources
  BY <1>2 DEF ReposOK, RepoRows
<1>5. Stored(r, s)
  <2>1. CASE repo'[r].sha = repo[r].sha
    BY <1>1, <1>4, <2>1 DEF IndexedIsStored
  <2>2. CASE StampsRow(r)
    <3>1. PICK i \in Indexers : \E t \in indexer[i].now :
                  /\ indexer[i].at = "advances" /\ t.repo = r
                  /\ repo'[r] = [repo[r] EXCEPT !.sha = indexer[i].read]
      BY <2>2 DEF StampsRow
    <3>2. s = indexer[i].read
      BY <1>2, <1>4, <3>1 DEF RepoRows
    <3> QED
      BY <1>1, <3>1, <3>2 DEF WrittenIsStored, Working
  <2> QED
    BY <1>3, <2>1, <2>2
<1> QED
  BY <1>2, <1>4, <1>5, StoredStays

\* An indexer reads a whole checkout, or one whose row counts no longer.
LEMMA WrittenStep ==
  ASSUME TypeInv, GitIsAlone, OrderInv, WrittenIsStored, [Next]_vars
  PROVE  WrittenIsStored'
<1> SUFFICES ASSUME NEW i \in Indexers, indexer'[i].at \in Working,
                    NEW t \in indexer'[i].now, NEW r, r = t.repo, Settled(r)',
                    NEW s, s = indexer'[i].read
             PROVE  /\ indexer'[i].part = Holds[s]
                    /\ indexer'[i].at = "advances" => Stored(r, s)'
  BY DEF WrittenIsStored, Stored, Bears, Settled
<1>1. r \in Repos
  BY DEF Settled
<1>2. r \notin Overrun' /\ IsRepo(r)'
  BY <1>1, OverrunStep DEF OrderInv, Settled, IsRepo
<1>3. CASE Opening(i)
  <2>1. PICK u \in Tasks : /\ indexer'[i].now = {u}
             /\ disk[u.dir] = indexer'[i].read => indexer'[i].part = Holds[indexer'[i].read]
    BY <1>3 DEF Opening
  <2>2. disk'[t.dir] = indexer'[i].read
    BY <1>1, <1>2 DEF Overrun
  <2> QED
    BY <1>3, <2>1, <2>2 DEF Opening
<1>4. CASE indexer'[i] = indexer[i] \/ WritesGraph(i)
  <2>1. /\ t \in indexer[i].now /\ indexer'[i].read = indexer[i].read /\ indexer'[i].part = indexer[i].part
        /\ indexer[i].at \in Working
    BY <1>4, WriteMoves DEF Working
  <2>2. TaskOK(indexer[i], t) /\ \A u \in indexer[i].now : u = t
    BY <2>1 DEF OrderInv, TasksOK, IndexerOK
  <2>3. r \in known /\ repo[r].state # Unborn
    BY <1>1, <2>2 DEF TaskOK, OrderInv, RowsOK
  <2>4. Settled(r) /\ SamePlace(r)
    BY <1>1, <2>3, SettledBefore
  <2>5. indexer[i].part = Holds[s] /\ s = indexer[i].read /\ s \in Sources
    BY <2>1, <2>4 DEF WrittenIsStored, TypeInv, IndexersOK, Working
  <2>7. ASSUME indexer[i].at = "advances" PROVE Stored(r, s)'
    <3>1. Stored(r, s)
      BY <2>1, <2>4, <2>5, <2>7 DEF WrittenIsStored
    <3> QED
      BY <1>1, <2>3, <2>5, <3>1, StoredStays
  <2>8. ASSUME WritesGraph(i) PROVE Stored(r, s)'
    <3>1. PICK u \in indexer[i].now : Writing(i, u)
      BY <2>8, WriteEffect
    <3>2. UNCHANGED <<profile, repo, disk, known>>
      BY <2>8 DEF WritesGraph, rows
    <3>3. InPlace(indexer[i], t)
      BY <1>1, <2>2, <2>4 DEF TaskOK, Settled, IsRepo
    <3>4. disk[t.dir] = s
      BY <1>1, <2>1, <2>4, <2>5 DEF OrderInv, Overrun, Settled, IsRepo
    <3>5. VersionOf(r) \in Versions /\ Holds[s] \subseteq Modules
      BY <2>4, <2>5, RowsAreTyped, ConstantsAssumption DEF OrderInv, Settled
    <3>6. ASSUME NEW m \in Holds[s] PROVE Bears(<<m, VersionOf(r)>>, repo[r].path, NameOf(r))'
      <4>1. PICK k \in Keys : k = <<m, VersionOf(r)>>
        BY <3>5 DEF Keys
      <4>2. k \in Mine(i, t)
        BY <1>1, <2>5, <3>3, <4>1 DEF Mine, InPlace
      <4>3. graph'[k].there /\ graph'[k].dir = t.dir /\ graph'[k].by = graph[k].by \cup indexer[i].chain
        BY <2>2, <3>1, <4>2 DEF Writing
      <4>4. /\ graph'[k].there /\ graph'[k].dir[2] = repo[r].path[2] /\ NameOf(r) \in graph'[k].by
        BY <1>1, <3>3, <4>3 DEF InPlace
      <4> QED
        BY <2>4, <4>1, <4>4 DEF Bears, SamePlace
    <3>7. disk'[repo'[r].path] = s
      BY <1>1, <3>2, <3>3, <3>4 DEF InPlace
    <3> QED
      BY <2>3, <3>2, <3>6, <3>7 DEF Stored
  <2> QED
    BY <1>4, <2>1, <2>5, <2>7, <2>8
<1> QED
  BY <1>3, <1>4, WorkerMoves DEF Idles

LEMMA IndexedIsEnough == ASSUME IndexedIsStored PROVE IndexedIsInGraph
<1> SUFFICES ASSUME NEW r \in Repos \ (moved \cup overrun), IsRepo(r), repo[r].sha # NoSource,
                    NEW m \in Holds[repo[r].sha]
             PROVE  LET node == graph[<<m, VersionOf(r)>>]
                    IN  node.there /\ profile[repo[r].profile].name \in node.by
  BY DEF IndexedIsInGraph
<1>1. Stored(r, repo[r].sha)
  BY DEF IndexedIsStored, Settled, IsRepo
<1> QED
  BY <1>1 DEF Stored, Bears, NameOf

-----------------------------------------------------------------------------
(* Whose the nodes and the embeddings are.                                    *)

\* A node belongs to a row that an indexer has read, to what was left behind or to
\* the deletion in progress.
Owned ==
  {PairOf(r) : r \in {q \in known : IsRepo(q)}} \cup left
    \cup (IF web.at \in {"collects", "graph"} THEN web.pairs ELSE {})
NodesOwned == \A k \in Keys : graph[k].there => <<graph[k].dir[2], k[2]>> \in Owned

\* An embedding without a node is to be deleted, or left behind, or of a module
\* that is about to be written; what is to be deleted has been collected.
Fading(k) == k \in web.keys \/ (\E x \in left : x[2] = k[2]) \/ faults > 0
Coming(k) == \E i \in Indexers : indexer[i].at = "writes" /\ \E t \in indexer[i].now : k \in Mine(i, t)
VectorsOwned == \A k \in vectors : graph[k].there \/ Fading(k) \/ Coming(k)
DoomedFade == web.at = "graph" => \A k \in Keys : Doomed(k) => Fading(k)

SweptGraph == [k \in Keys |-> IF Doomed(k) THEN NoNode ELSE graph[k]]

\* What is owned stays so, but for what has been deleted.
LEMMA OwnedStays ==
  ASSUME TypeInv, OrderInv, [Next]_vars, NEW x \in Owned
  PROVE  x \in Owned' \/ (DeletesNodes /\ x \in web.pairs /\ graph' = SweptGraph)
<1>1. known \subseteq known' /\ left \subseteq left' /\ known \subseteq Repos
  BY AuxiliarySteps DEF Remembers, AllButOverrun, Grows, TypeInv, WebOK
<1>2. CASE x \in left
  BY <1>1, <1>2 DEF Owned
<1>3. ASSUME NEW r \in known, IsRepo(r), x = PairOf(r) PROVE x \in Owned'
  <2>1. r \in Repos /\ repo[r].state = "row" /\ r \in known'
    BY <1>1, <1>3 DEF IsRepo
  <2>2. CASE repo'[r].state = "row"
    <3>1. Stays(r) /\ IsRepo(r)'
      BY <2>1, <2>2 DEF Stays, IsRepo
    <3>2. CASE SamePlace(r)
      <4>1. PairOf(r)' = x
        BY <1>3, <3>2 DEF SamePlace, PairOf
      <4> QED
        BY <2>1, <3>1, <4>1 DEF Owned
    <3>3. CASE LeavesPlace(r)
      BY <1>3, <3>3 DEF LeavesPlace, Owned
    <3> QED
      BY <2>1, <3>1, <3>2, <3>3, PlaceKept DEF OrderInv
  <2>3. CASE repo'[r].state # "row"
    <3>1. Abandons(r)
      BY <2>1, <2>3, RowGoes
    <3> QED
      BY <1>3, <3>1 DEF Abandons, Owned
  <2> QED
    BY <2>2, <2>3
<1>4. CASE web.at \in {"collects", "graph"} /\ x \in web.pairs
  <2>0. web \in WebRows
    BY DEF TypeInv, WebOK, WebRows
  <2>1. CASE UNCHANGED web
    BY <1>4, <2>1 DEF Owned
  <2>2. CASE CollectsNames
    <3>1. web'.at = "graph" /\ web'.pairs = web.pairs
      BY <2>0, <2>2 DEF CollectsNames, WebRows
    <3> QED
      BY <1>4, <3>1 DEF Owned
  <2>3. CASE DeletesNodes
    <3>1. CASE left' = left \cup web.pairs
      BY <1>4, <3>1 DEF Owned
    <3> QED
      BY <1>4, <2>3, <3>1 DEF DeletesNodes, SweptGraph
  <2>4. CASE StartsDeletion \/ DeletesVectors
    BY <1>4, <2>4 DEF StartsDeletion, DeletesVectors
  <2> QED
    BY <2>1, <2>2, <2>3, <2>4, WebMoves
<1> QED
  BY <1>2, <1>3, <1>4 DEF Owned

\* An indexer writes what belongs to a row, or what was left behind.
LEMMA WriterOwns ==
  ASSUME OrderInv, NEW i \in Indexers, NEW t \in indexer[i].now
  PROVE  Pair(t) \in Owned
<1>1. TaskOK(indexer[i], t)
  BY DEF OrderInv, TasksOK, IndexerOK
<1>2. t.repo \in known /\ (Pair(t) \in left \/ (IsRepo(t.repo) /\ Pair(t) = PairOf(t.repo)))
  BY <1>1 DEF TaskOK, Accounted
<1> QED
  BY <1>2 DEF Owned

\* A node belongs to somebody after every step.
LEMMA NodesOwnedStep ==
  ASSUME TypeInv, OrderInv, NodesOwned, [Next]_vars
  PROVE  NodesOwned'
<1> SUFFICES ASSUME NEW k \in Keys, graph'[k].there
             PROVE  <<graph'[k].dir[2], k[2]>> \in Owned'
  BY DEF NodesOwned
<1>1. NoNode.there = FALSE
  BY DEF NoNode
<1>2. ASSUME graph'[k] = graph[k], ~ DeletesNodes \/ ~ Doomed(k) \/ graph' # SweptGraph
      PROVE  <<graph'[k].dir[2], k[2]>> \in Owned'
  <2>1. PICK x \in Owned : x = <<graph[k].dir[2], k[2]>>
    BY <1>2 DEF NodesOwned
  <2>2. x \in web.pairs => Doomed(k)
    BY <1>2, <2>1 DEF Doomed, NodesOf
  <2>3. x \in Owned'
    BY <1>2, <2>2, OwnedStays
  <2> QED
    BY <1>2, <2>1, <2>3
<1>3. ASSUME NEW i \in Indexers, WritesGraph(i)
      PROVE  <<graph'[k].dir[2], k[2]>> \in Owned'
  <2>1. PICK t \in indexer[i].now : Writing(i, t)
    BY <1>3, WriteEffect
  <2>2. UNCHANGED web
    BY <1>3 DEF WritesGraph
  <2>3. ~ DeletesNodes
    BY <2>2 DEF DeletesNodes, TypeInv, WebOK
  <2>4. CASE k \notin Mine(i, t)
    BY <1>1, <1>2, <2>1, <2>3, <2>4 DEF Writing, Swept
  <2>5. CASE k \in Mine(i, t)
    <3>1. graph'[k].dir = t.dir
      BY <2>1, <2>5 DEF Writing
    <3>2. k[2] = t.version
      BY <2>5 DEF Mine
    <3>3. PICK x \in Owned : x = Pair(t)
      BY WriterOwns
    <3>4. x \in Owned'
      BY <2>3, OwnedStays
    <3>5. x = <<graph'[k].dir[2], k[2]>>
      BY <3>1, <3>2, <3>3 DEF Pair
    <3> QED
      BY <3>4, <3>5
  <2> QED
    BY <2>4, <2>5
<1>4. CASE DeletesNodes
  <2>1. CASE graph' = SweptGraph
    <3>1. ~ Doomed(k) /\ graph'[k] = graph[k]
      BY <1>1, <2>1 DEF SweptGraph
    <3> QED
      BY <1>2, <3>1
  <2>2. CASE UNCHANGED graph /\ graph' # SweptGraph
    BY <1>2, <2>2
  <2> QED
    BY <1>4, <2>1, <2>2 DEF DeletesNodes, SweptGraph
<1>5. CASE UNCHANGED graph /\ ~ DeletesNodes
  BY <1>2, <1>5
<1> QED
  BY <1>3, <1>4, <1>5, StoreMoves DEF Opening, DeletesVectors

LEMMA FaultCounts == ASSUME TypeInv, Fault PROVE faults' > 0
BY ConstantsAssumption DEF TypeInv, WebOK, Fault

\* What is fading does so until it is deleted.
LEMMA FadingStays ==
  ASSUME TypeInv, OrderInv, [Next]_vars, NEW k, Fading(k),
         k \notin web.keys \/ ~ DeletesVectors \/ vectors' # vectors \ web.keys
  PROVE  Fading(k)'
<1>1. /\ left \subseteq left' /\ (faults' = faults \/ faults' > 0)
      /\ web \in WebRows
      /\ web.at \in {"idle", "collects"} => web.keys = {}
  BY AuxiliarySteps, FaultsGrow
  DEF Remembers, AllButOverrun, Grows, TypeInv, WebOK, WebRows, OrderInv, CleanupOK
<1>2. CASE faults > 0 \/ \E x \in left : x[2] = k[2]
  BY <1>1, <1>2 DEF Fading
<1>3. CASE k \in web.keys
  <2>1. CASE UNCHANGED web
    BY <1>3, <2>1 DEF Fading
  <2>2. CASE StartsDeletion \/ CollectsNames
    BY <1>1, <1>3, <2>2 DEF StartsDeletion, CollectsNames
  <2>3. CASE DeletesNodes
    <3>1. web' = [web EXCEPT !.at = "vectors"]
      BY <2>3 DEF DeletesNodes
    <3>2. web'.keys = web.keys
      BY <1>1, <3>1 DEF WebRows
    <3> QED
      BY <1>3, <3>2 DEF Fading
  <2>4. CASE DeletesVectors
    <3>1. Fault
      BY <1>3, <2>4 DEF DeletesVectors
    <3> QED
      BY <3>1, FaultCounts DEF Fading
  <2> QED
    BY <2>1, <2>2, <2>3, <2>4, WebMoves
<1> QED
  BY <1>2, <1>3 DEF Fading

\* A deletion that has collected its names misses only what was left behind.
LEMMA DoomedFadeStep ==
  ASSUME TypeInv, OrderInv, DoomedFade, [Next]_vars
  PROVE  DoomedFade'
<1> SUFFICES ASSUME web'.at = "graph", NEW k \in Keys, NEW x \in web'.pairs,
                    graph'[k].there, <<graph'[k].dir[2], k[2]>> = x
             PROVE  Fading(k)'
  BY DEF DoomedFade, Doomed, NodesOf
<1>1. web \in WebRows /\ left \subseteq left'
  BY AuxiliarySteps DEF Remembers, AllButOverrun, Grows, TypeInv, WebOK, WebRows
<1>2. CASE CollectsNames
  <2>1. UNCHANGED graph
    BY <1>2 DEF CollectsNames, stores
  <2>2. CASE web' = [web EXCEPT !.at = "graph", !.keys = UNION {NodesOf(y) : y \in web.pairs}]
    <3>1. x \in web.pairs /\ web'.keys = UNION {NodesOf(y) : y \in web.pairs}
      BY <1>1, <2>2 DEF WebRows
    <3>2. k \in NodesOf(x)
      BY <2>1 DEF NodesOf
    <3> QED
      BY <3>1, <3>2 DEF Fading
  <2>3. CASE Fault
    BY <2>3, FaultCounts DEF Fading
  <2> QED
    BY <1>2, <2>2, <2>3 DEF CollectsNames
<1>3. CASE UNCHANGED web
  <2>1. web.at = "graph" /\ x \in web.pairs
    BY <1>3
  <2>2. ~ DeletesNodes /\ ~ DeletesVectors
    BY <1>1, <1>3, <2>1 DEF DeletesNodes, DeletesVectors, Idle, WebRows
  <2>3. ASSUME graph'[k] = graph[k] PROVE Fading(k)'
    <3>1. Doomed(k)
      BY <2>1, <2>3 DEF Doomed, NodesOf
    <3>2. Fading(k)
      BY <2>1, <3>1 DEF DoomedFade
    <3> QED
      BY <2>2, <3>2, FadingStays
  <2>4. ASSUME NEW i \in Indexers, WritesGraph(i) PROVE Fading(k)'
    <3>1. PICK t \in indexer[i].now : Writing(i, t)
      BY <2>4, WriteEffect
    <3>2. CASE k \notin Mine(i, t)
      <4>1. NoNode.there = FALSE
        BY DEF NoNode
      <4> QED
        BY <2>3, <3>1, <3>2, <4>1 DEF Writing, Swept
    <3>3. CASE k \in Mine(i, t)
      <4>1. x = Pair(t) /\ k[2] = Pair(t)[2]
        BY <3>1, <3>3 DEF Writing, Mine, Pair
      <4>2. Pair(t) \in left'
        BY <2>1, <3>1, <4>1 DEF Writing
      <4> QED
        BY <4>1, <4>2 DEF Fading
    <3> QED
      BY <3>2, <3>3
  <2> QED
    BY <2>2, <2>3, <2>4, StoreMoves DEF Opening
<1>4. CASE StartsDeletion \/ DeletesNodes \/ DeletesVectors
  BY <1>1, <1>4 DEF StartsDeletion, DeletesNodes, DeletesVectors, Idle, WebRows
<1> QED
  BY <1>2, <1>3, <1>4, WebMoves

\* An embedding has its node, or will be deleted, or awaits it.
LEMMA VectorsStep ==
  ASSUME TypeInv, OrderInv, DoomedFade, VectorsOwned, [Next]_vars
  PROVE  VectorsOwned'
<1> SUFFICES ASSUME NEW k \in vectors' PROVE graph'[k].there \/ Fading(k)' \/ Coming(k)'
  BY DEF VectorsOwned
<1>1. vectors \subseteq Keys /\ vectors' \subseteq Keys
  BY StoresStep DEF TypeInv, StoresOK
<1>2. ASSUME k \in vectors, graph[k].there PROVE graph'[k].there \/ Fading(k)'
  <2>1. CASE graph'[k] = graph[k]
    BY <1>2, <2>1
  <2>2. ASSUME NEW i \in Indexers, WritesGraph(i) PROVE graph'[k].there \/ Fading(k)'
    <3>1. PICK t \in indexer[i].now : Writing(i, t)
      BY <2>2, WriteEffect
    <3>2. CASE Swept(i, t, k)
      <4>1. Pair(t) \in left' /\ Pair(t)[2] = k[2]
        BY <3>2 DEF Swept, NodesOf, Pair
      <4> QED
        BY <4>1 DEF Fading
    <3> QED
      BY <1>1, <1>2, <2>1, <3>1, <3>2 DEF Writing
  <2>3. CASE DeletesNodes
    <3>1. CASE Doomed(k)
      <4>1. Fading(k)
        BY <1>1, <1>2, <2>3, <3>1 DEF DoomedFade, DeletesNodes
      <4>2. ~ DeletesVectors
        BY <2>3 DEF DeletesNodes, DeletesVectors
      <4> QED
        BY <4>1, <4>2, FadingStays
    <3>2. CASE ~ Doomed(k)
      BY <1>1, <2>1, <2>3, <3>2 DEF DeletesNodes
    <3> QED
      BY <3>1, <3>2
  <2> QED
    BY <2>1, <2>2, <2>3, StoreMoves DEF Opening, DeletesVectors
<1>3. ASSUME k \in vectors, Fading(k) PROVE Fading(k)'
  BY <1>3, FadingStays
<1>4. ASSUME NEW i \in Indexers, indexer[i].at = "writes", NEW t \in indexer[i].now, k \in Mine(i, t)
      PROVE  graph'[k].there \/ Fading(k)' \/ Coming(k)'
  <2>1. CASE indexer'[i] = indexer[i]
    BY <1>4, <2>1 DEF Mine, Coming
  <2>2. CASE Idles(i)
    BY <1>4, <2>2 DEF Idles, Fading
  <2>3. CASE WritesGraph(i)
    <3>1. PICK u \in indexer[i].now : Writing(i, u)
      BY <2>3, WriteEffect
    <3>2. u = t
      BY <1>4, <3>1 DEF OrderInv, TasksOK, IndexerOK
    <3> QED
      BY <1>1, <1>4, <3>1, <3>2 DEF Writing
  <2>4. CASE Opening(i)
    BY <1>4, <2>4 DEF Opening
  <2> QED
    BY <2>1, <2>2, <2>3, <2>4, WorkerMoves
<1>5. CASE k \in vectors
  BY <1>2, <1>3, <1>4, <1>5 DEF VectorsOwned, Coming
<1>6. CASE k \notin vectors
  <2>1. PICK i \in Indexers : Opening(i)
    BY <1>6, StoreMoves DEF WritesGraph, DeletesNodes, DeletesVectors
  <2>2. PICK t \in Tasks : /\ indexer'[i].now = {t}
                           /\ vectors' \subseteq vectors \cup (indexer'[i].part \X {t.version})
    BY <2>1 DEF Opening
  <2>3. k \in Mine(i, t)'
    BY <1>6, <2>2 DEF Mine
  <2> QED
    BY <2>1, <2>2, <2>3 DEF Opening, Coming
<1> QED
  BY <1>5, <1>6

-----------------------------------------------------------------------------
StoreInv == IndexedIsStored /\ WrittenIsStored /\ NodesOwned /\ VectorsOwned /\ DoomedFade
OwnInv == OrderInv /\ StoreInv

LEMMA InitStores == Init => StoreInv
<1> SUFFICES ASSUME Init PROVE StoreInv
  OBVIOUS
<1>1. ASSUME NEW k \in Keys PROVE ~ graph[k].there
  BY DEF Init, NoNode
<1>2. ASSUME NEW r \in Repos PROVE repo[r].sha = NoSource
  <2>1. \/ repo[r] = NoRepo
        \/ repo[r] \in [state : {"row"}, profile : {p \in Profiles : profile[p].state = "row"},
                       source : Sources, key : {FALSE}, path : Dirs, clone : {"manual"}, sha : {NoSource}]
    BY InitRows
  <2>2. NoRepo.sha = NoSource
    BY DEF NoRepo
  <2> QED
    BY <2>1, <2>2
<1>3. ASSUME NEW i \in Indexers PROVE indexer[i].at = "ended"
  BY DEF Init, NoIndexer
<1>4. vectors = {} /\ web.at = "idle"
  BY DEF Init, Idle
<1> QED
  BY <1>1, <1>2, <1>3, <1>4 DEF StoreInv, IndexedIsStored, WrittenIsStored, Working, NodesOwned,
     VectorsOwned, DoomedFade

LEMMA OwnInvariance == Spec => []OwnInv
<1>1. Init => OwnInv
  BY InitOrder, InitStores DEF OwnInv
<1>2. AdminInv /\ OwnInv /\ [Next]_vars => OwnInv'
  <2> SUFFICES ASSUME AdminInv, OwnInv, [Next]_vars PROVE OwnInv'
    OBVIOUS
  <2>1. TypeInv /\ GitIsAlone /\ OrderInv /\ StoreInv
    BY DEF AdminInv, CloneInv, OwnInv
  <2>2. OrderInv'
    BY <2>1, OrderStep
  <2>3. StoreInv'
    BY <2>1, IndexedStep, WrittenStep, NodesOwnedStep, VectorsStep, DoomedFadeStep DEF StoreInv
  <2> QED
    BY <2>2, <2>3 DEF OwnInv
<1> QED
  BY AdminInvariance, <1>1, <1>2, PTL DEF Spec

\* A repository with a head_sha has its modules in the graph, under the name of its
\* profile: head_sha is written after them, and what another indexer, a GC or a
\* deletion may take of it makes it one of those left out (update_repo_head_sha,
\* delete_modules_scoped, gc_stale_modules, _has_indexed_repos).
THEOREM IndexedIsAlwaysInGraph == Spec => []IndexedIsInGraph
<1>1. OwnInv => IndexedIsInGraph
  BY IndexedIsEnough DEF OwnInv, StoreInv
<1> QED
  BY OwnInvariance, <1>1, PTL

\* Every node belongs to a repository or to the deletion in progress, and every
\* embedding to a node or to an indexer about to write it, but for what is left behind:
\* however clones, edits, commands of a shell, indexers with their GC, kills and
\* deletions interleave (delete_repo and delete_profile of web_ui/routes/repos.py,
\* delete_modules_scoped, gc_stale_modules of indexer/writer_neo4j.py).
THEOREM DeletedIsAlwaysGone == Spec => []DeletedIsGone
<1>1. AdminInv /\ OwnInv => DeletedIsGone
  <2> SUFFICES ASSUME AdminInv, OwnInv PROVE DeletedIsGone
    OBVIOUS
  <2>1. TypeInv
    BY DEF AdminInv
  <2>2. Owned \subseteq Owners
    BY <2>1 DEF Owned, Owners, TypeInv, WebOK
  <2>3. ASSUME NEW k \in Keys, graph[k].there PROVE <<graph[k].dir[2], k[2]>> \in Owners
    BY <2>2, <2>3 DEF OwnInv, StoreInv, NodesOwned
  <2> QED
    BY <2>3 DEF DeletedIsGone, OwnInv, StoreInv, VectorsOwned, Fading, Coming, Mine
<1> QED
  BY AdminInvariance, OwnInvariance, <1>1, PTL
=============================================================================
