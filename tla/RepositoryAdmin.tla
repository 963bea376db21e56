--------------------------- MODULE RepositoryAdmin ---------------------------
(***************************************************************************)
(* Administration of profiles and repositories: the rows of PostgreSQL     *)
(* (src/db/repo_registry.py), the requests of the web application that     *)
(* change them (src/web_ui/routes/repos.py), the commands that do so from  *)
(* a shell (src/manager), the cloner processes (src/cloner, git_utils.py), *)
(* the indexer processes that read the rows, and the two stores a deletion *)
(* cleans up (src/indexer/writer_neo4j.py).                                *)
(*                                                                         *)
(* What an indexer does inside a repository is the subject of              *)
(* IncrementalIndexer. Here a checkout never moves on, so that a whole     *)
(* repository is indexed or skipped, and the interest is in who owns what  *)
(* is written.                                                             *)
(***************************************************************************)
EXTENDS Integers, FiniteSets

CONSTANTS
  Profiles, Repos, None,  \* ids: never handed out twice
  Names, Versions,        \* of profiles
  Sources, NoSource,      \* a clone URL with its branch; also the commit it is at
  Partial,                \* a directory with something in it, but neither HEAD nor modules
  Modules,
  Cloners, Indexers,      \* processes that may exist at a time
  Kind,                   \* of a source: "ssh", "file" or "https"
  Slug,                   \* of a source: the directory name a clone of it gets
  Home,                   \* of a source with a file:// URL: the directory it names
  Paths,                  \* the directories administrators name
  Holds,                  \* of a source: its modules
  Flags,                  \* the command lines of index-repo: [full, gc, embed]
  MaxRequests, MaxFaults,
  Begin                   \* what the shell has left before the first request: [profile, repo, disk]

\* A directory is under the name of a profile, or one of the administrators', and
\* has a name of its own.
Slugs == {Slug[s] : s \in Sources} \cup {Home[s][2] : s \in Sources}
Dirs == (Names \cup Sources) \X Slugs
CommandLines == [full : BOOLEAN, gc : BOOLEAN, embed : BOOLEAN]

\* The tree that git clone leaves between HEAD and the last of its files.
Half(s) == <<"half", s>>

Unborn == "unborn"
NoProfile == [state |-> Unborn, name |-> CHOOSE n \in Names : TRUE,
              version |-> CHOOSE v \in Versions : TRUE, parent |-> None]
NoRepo == [state |-> Unborn, profile |-> None, source |-> NoSource, key |-> FALSE,
           path |-> CHOOSE d \in Dirs : TRUE, clone |-> "manual", sha |-> NoSource]

\* The rows that add-profile, add-repo and apply-preset write, and directories
\* that no cloner has been at.
IsBeginning(b) ==
  /\ b.profile \in [Profiles -> {NoProfile} \cup
       [state : {"row"}, name : Names, version : Versions, parent : {None}]]
  /\ b.repo \in [Repos -> {NoRepo} \cup
       [state : {"row"}, profile : {p \in Profiles : b.profile[p].state = "row"},
        source : Sources, key : {FALSE}, path : Dirs, clone : {"manual"}, sha : {NoSource}]]
  /\ b.disk \in [Dirs -> Sources \cup {NoSource, Partial}]

ASSUME ConstantsAssumption ==
  /\ None \notin Profiles \cup Repos \cup Indexers
  /\ Names # {} /\ Versions # {} /\ Sources # {}
  /\ {NoSource, Partial} \cap Sources = {} /\ NoSource # Partial
  /\ \A s \in Sources : Half(s) \notin Sources \cup {NoSource, Partial}
  /\ Kind \in [Sources -> {"ssh", "file", "https"}]
  /\ Home \in [Sources -> Dirs]
  /\ Paths \subseteq Dirs
  /\ Holds \in [Sources -> SUBSET Modules]
  /\ Flags \subseteq CommandLines
  /\ MaxRequests \in Nat
  /\ MaxFaults \in Nat
  /\ \A b \in Begin : IsBeginning(b)

VARIABLES
  profile,   \* the table profiles
  repo,      \* the table repos
  disk,      \* what is in each directory
  cloner,    \* the cloner processes
  indexer,   \* the indexer processes
  lock,      \* the holder of the advisory lock of each profile name
  graph,     \* the Module nodes, by name and version
  vectors,   \* the modules that have embeddings, by name and version
  web,       \* what is left to clean up of the deletion in progress
  requests, faults,
  abandoned, \* auxiliary: repositories whose cloner was killed
  known,     \* auxiliary: repositories an indexer has read
  left,      \* auxiliary: names and versions under which something was left for good
  moved,     \* auxiliary: repositories that had another place when an indexer read them
  byHand,    \* auxiliary: repositories whose directory an administrator has named
  overrun    \* auxiliary: repositories whose nodes others may have taken

vars == <<profile, repo, disk, cloner, indexer, lock, graph, vectors, web,
          requests, faults, abandoned, known, left, moved, byHand, overrun>>
rows == <<profile, repo>>
stores == <<graph, vectors>>
processes == <<cloner, indexer, lock>>
auxiliary == <<abandoned, known, left, moved, byHand>>

Keys == Modules \X Versions

\* default_clone_dir: <base>/<profile>/<slug>. The branch plays no part.
CloneDir(name, s) == <<name, Slug[s]>>

NoNode == [there |-> FALSE, dir |-> CHOOSE d \in Dirs : TRUE, by |-> {}]
NoCloner == [at |-> "ended", repo |-> None, source |-> NoSource, key |-> FALSE,
             dir |-> CHOOSE d \in Dirs : TRUE]
NoIndexer == [at |-> "ended", names |-> {}, flags |-> CHOOSE f \in CommandLines : TRUE,
              name |-> CHOOSE n \in Names : TRUE, chain |-> {}, todo |-> {}, now |-> {},
              read |-> NoSource, part |-> {}]
Idle == [at |-> "idle", pairs |-> {}, keys |-> {}]

IsProfile(p) == p \in Profiles /\ profile[p].state = "row"
IsRepo(r) == r \in Repos /\ repo[r].state = "row"
VersionOf(r) == profile[repo[r].profile].version
ReposOf(p) == {r \in Repos : IsRepo(r) /\ repo[r].profile = p}
PairOf(r) == <<repo[r].path[2], VersionOf(r)>>
NodesOf(pair) == {k \in Keys : graph[k].there /\ <<graph[k].dir[2], k[2]>> = pair}

\* The recursive queries on parent_profile_id. They follow parents without a
\* limit, so an ancestor is what every set closed under parents contains.
ClosedUnderParents(S) == \A x \in S : profile[x].parent \in S \cup {None}
AncestorsOf(p) ==
  {a \in Profiles : \A S \in SUBSET Profiles : p \in S /\ ClosedUnderParents(S) => a \in S}
DescendantsOf(p) == {d \in Profiles : IsProfile(d) /\ d # p /\ p \in AncestorsOf(d)}
ChainNames(p) == {profile[a].name : a \in AncestorsOf(p)}

Init ==
  /\ \E b \in Begin : profile = b.profile /\ repo = b.repo /\ disk = b.disk
  /\ cloner = [c \in Cloners |-> NoCloner]
  /\ indexer = [i \in Indexers |-> NoIndexer]
  /\ lock = [n \in Names |-> None]
  /\ graph = [k \in Keys |-> NoNode]
  /\ vectors = {}
  /\ web = Idle
  /\ requests = 0 /\ faults = 0
  /\ abandoned = {} /\ known = {} /\ left = {} /\ moved = {} /\ byHand = {} /\ overrun = {}

-----------------------------------------------------------------------------
(* Profiles. A handler of the web application runs from its first to its    *)
(* last statement without another one in between; only deletions take steps *)
(* that the processes can see between, and commands of a shell, each of     *)
(* which is a statement of its own here.                                    *)

Command == requests < MaxRequests /\ requests' = requests + 1
Request == web.at = "idle" /\ Command

Fault == faults < MaxFaults /\ faults' = faults + 1

\* indexer_is_running: the lock is taken and given back.
IsRunning(name) == lock[name] # None

NameTaken(n, p) == \E q \in Profiles : IsProfile(q) /\ q # p /\ profile[q].name = n

\* add_profile: the parent is checked before the INSERT.
NewProfile(p, n, v, parent) ==
  /\ profile[p].state = Unborn
  /\ ~ NameTaken(n, p)
  /\ parent # None => IsProfile(parent) /\ profile[parent].version = v
  /\ profile' = [profile EXCEPT ![p] =
       [state |-> "row", name |-> n, version |-> v, parent |-> parent]]

CreateProfile(p, n, v, parent) ==
  /\ Request
  /\ NewProfile(p, n, v, parent)
  /\ UNCHANGED <<repo, disk, processes, stores, web, faults, auxiliary>>

\* add-profile, and the first statement of apply-preset (src.manager).
CliAddProfile(p, n, v) ==
  /\ Command
  /\ NewProfile(p, n, v, None)
  /\ UNCHANGED <<repo, disk, processes, stores, web, faults, auxiliary>>

\* _validate_parent
ValidParent(p, parent) ==
  parent # None =>
    /\ parent # p
    /\ IsProfile(parent)
    /\ profile[parent].version = profile[p].version
    /\ p \notin AncestorsOf(parent)

SetProfileParent(p, parent) ==
  /\ Request
  /\ IsProfile(p)
  /\ ValidParent(p, parent)
  /\ profile[p].parent # parent
  /\ profile' = [profile EXCEPT ![p].parent = parent]
  /\ UNCHANGED <<repo, disk, processes, stores, web, faults, auxiliary>>

HasIndexedRepos(p) == \E r \in ReposOf(p) : repo[r].sha # NoSource

\* A mutant: only the parent is asked.
ValidVersionUpwards(p, v) ==
  profile[p].parent # None => profile[profile[p].parent].version = v

\* A new version must be that of the parent and of all descendants.
ValidVersion(p, v) ==
  /\ profile[p].parent # None => profile[profile[p].parent].version = v
  /\ \A d \in DescendantsOf(p) : profile[d].version = v

\* The rows of R get another directory, name or version: what an indexer wrote of
\* them, or is about to, stays where it is.
Moves(R) ==
  /\ moved' = moved \cup (R \cap known)
  /\ left' = left \cup {PairOf(r) : r \in R \cap known}

UpdateProfile(p, n, v) ==
  /\ Request
  /\ IsProfile(p)
  /\ n # profile[p].name \/ v # profile[p].version
  /\ ~ HasIndexedRepos(p)
  /\ v # profile[p].version => ValidVersion(p, v)
  /\ ~ NameTaken(n, p)
  /\ profile' = [profile EXCEPT ![p].name = n, ![p].version = v]
  /\ Moves(ReposOf(p))
  /\ UNCHANGED <<repo, disk, processes, stores, web, faults, abandoned, known, byHand>>

-----------------------------------------------------------------------------
(* Repositories. An SSH URL needs a key. Adding one starts a cloner, unless  *)
(* the spawn fails, which leaves the row as it was inserted.                *)

UrlTaken(s, r) == \E q \in Repos : IsRepo(q) /\ q # r /\ repo[q].source = s

\* add_repo
NewRow(p, s, key, path) ==
  [state |-> "row", profile |-> p, source |-> s, key |-> key,
   path |-> path, clone |-> "manual", sha |-> NoSource]

Spawned(r) == [NoCloner EXCEPT !.at = "starts", !.repo = r]

\* Every repository of R gets a cloner of its own.
SpawnsCloners(R) ==
  \E f \in [R -> Cloners] :
    /\ \A q, r \in R : f[q] = f[r] => q = r
    /\ \A r \in R : cloner[f[r]].at = "ended"
    /\ cloner' = [c \in Cloners |->
         IF \E r \in R : f[r] = c THEN Spawned(CHOOSE r \in R : f[r] = c) ELSE cloner[c]]

AddRepo(r, p, s) ==
  /\ Request
  /\ IsProfile(p)
  /\ repo[r].state = Unborn
  /\ ~ UrlTaken(s, r)
  /\ IF Kind[s] = "ssh"
     THEN /\ repo' = [repo EXCEPT ![r] = NewRow(p, s, TRUE, CloneDir(profile[p].name, s))]
          /\ \/ SpawnsCloners({r}) /\ UNCHANGED faults
             \/ Fault /\ UNCHANGED cloner
     ELSE /\ \E path \in Paths : repo' = [repo EXCEPT ![r] = NewRow(p, s, FALSE, path)]
          /\ UNCHANGED <<cloner, faults>>
  /\ UNCHANGED <<profile, disk, indexer, lock, stores, web, auxiliary>>

\* add-repo, and each further statement of apply-preset until a URL is taken.
CliAddRepo(r, p, s, path) ==
  /\ Command
  /\ IsProfile(p)
  /\ repo[r].state = Unborn
  /\ ~ UrlTaken(s, r)
  /\ repo' = [repo EXCEPT ![r] = NewRow(p, s, FALSE, path)]
  /\ UNCHANGED <<profile, disk, processes, stores, web, faults, auxiliary>>

\* PATCH of a repository: another URL, another key or none, another directory, and
\* head_sha stays, whatever the URL is and whatever is in the directory.
UpdateRepo(r, s, key, path) ==
  LET R == IF path = repo[r].path THEN {} ELSE {r} IN
  /\ Request
  /\ IsRepo(r)
  /\ ~ UrlTaken(s, r)
  /\ Kind[s] = "ssh" => key
  /\ repo' = [repo EXCEPT ![r].source = s, ![r].key = key, ![r].path = path]
  /\ Moves(R)
  /\ byHand' = byHand \cup R
  /\ UNCHANGED <<profile, disk, processes, stores, web, faults, abandoned, known>>

\* The one key there is is deleted: the rows that name it are set to NULL, and a
\* cloner that has read its id will not find it.
DeleteSshKey ==
  /\ Request
  /\ \E r \in Repos : IsRepo(r) /\ repo[r].key
  /\ repo' = [r \in Repos |-> [repo[r] EXCEPT !.key = FALSE]]
  /\ cloner' = [c \in Cloners |-> [cloner[c] EXCEPT !.key = FALSE]]
  /\ UNCHANGED <<profile, disk, indexer, lock, stores, web, faults, auxiliary>>

\* The repositories of R: a file:// URL of a directory that is there, whatever it
\* holds, is marked cloned on the spot, every other one gets a cloner.
Clones(R) ==
  \E near \in SUBSET {r \in R : Kind[repo[r].source] = "file"} :
    /\ \A r \in R : Kind[repo[r].source] = "file" /\ disk[Home[repo[r].source]] # NoSource => r \in near
    /\ repo' = [r \in Repos |->
         IF r \in near
         THEN [repo[r] EXCEPT !.path = Home[repo[r].source], !.clone = "cloned"]
         ELSE repo[r]]
    /\ SpawnsCloners(R \ near)
    /\ Moves({r \in near : repo[r].path # Home[repo[r].source]})
    /\ byHand' = byHand \cup near
    /\ UNCHANGED <<profile, disk, indexer, lock, stores, web, faults, abandoned, known>>

\* clone-all takes every repository that is not cloned, also a pending one.
CloneAll(p) ==
  LET open == {r \in ReposOf(p) : repo[r].clone # "cloned"} IN
  /\ Request
  /\ IsProfile(p)
  /\ open # {}
  /\ Clones(open)

\* clone-profile does the same from a shell, one repository after the other, and
\* goes by a status that it read when it began.
CliClone(r) ==
  /\ Command
  /\ IsRepo(r)
  /\ Clones({r})

-----------------------------------------------------------------------------
(* The cloner.                                                              *)

RowReads(c) ==
  LET r == cloner[c].repo IN
  /\ cloner[c].at = "starts"
  /\ \/ /\ ~ IsRepo(r)
        /\ cloner' = [cloner EXCEPT ![c] = NoCloner]
        /\ UNCHANGED repo
     \/ /\ IsRepo(r) /\ Kind[repo[r].source] = "ssh" /\ ~ repo[r].key
        /\ cloner' = [cloner EXCEPT ![c] = NoCloner]
        /\ repo' = [repo EXCEPT ![r].clone = "error"]
     \/ /\ IsRepo(r) /\ (Kind[repo[r].source] = "ssh" => repo[r].key)
        /\ cloner' = [cloner EXCEPT ![c] =
             [at |-> "marks", repo |-> r, source |-> repo[r].source, key |-> repo[r].key,
              dir |-> CloneDir(profile[repo[r].profile].name, repo[r].source)]]
        /\ UNCHANGED repo
  /\ UNCHANGED <<profile, disk, indexer, lock, stores, web, requests, faults, auxiliary>>

\* A mutant: the status is not checked against the four there are.
WritesAny(c, status, then) ==
  LET r == cloner[c].repo IN
  /\ repo' = IF IsRepo(r) THEN [repo EXCEPT ![r].clone = then] ELSE repo
  /\ cloner' = [cloner EXCEPT ![c] =
       IF IsRepo(r) /\ then # "ended" THEN [@ EXCEPT !.at = then] ELSE NoCloner]

\* A statement on the row: when the row is gone it raises, which ends the cloner.
Writes(c, status, then) ==
  LET r == cloner[c].repo IN
  /\ repo' = IF IsRepo(r) THEN [repo EXCEPT ![r].clone = status] ELSE repo
  /\ cloner' = [cloner EXCEPT ![c] =
       IF IsRepo(r) /\ then # "ended" THEN [@ EXCEPT !.at = then] ELSE NoCloner]

MarksPending(c) ==
  /\ cloner[c].at = "marks"
  /\ Writes(c, "pending", "clones")
  /\ UNCHANGED <<profile, disk, indexer, lock, stores, web, requests, faults, auxiliary>>

\* A mutant: the directory is not looked at.
StartsGitAnyway(c) ==
  /\ cloner[c].at = "clones"
  /\ disk' = [disk EXCEPT ![cloner[c].dir] = Partial]
  /\ cloner' = [cloner EXCEPT ![c].at = "git"]
  /\ UNCHANGED <<rows, indexer, lock, stores, web, requests, faults, auxiliary>>

\* The key is gone, or the directory is not empty: error. Otherwise git starts.
StartsGit(c) ==
  LET refused == \/ Kind[cloner[c].source] = "ssh" /\ ~ cloner[c].key
                 \/ disk[cloner[c].dir] # NoSource
  IN
  /\ cloner[c].at = "clones"
  /\ \/ /\ refused
        /\ Writes(c, "error", "ended")
        /\ UNCHANGED disk
     \/ /\ ~ refused
        /\ disk' = [disk EXCEPT ![cloner[c].dir] = Partial]
        /\ cloner' = [cloner EXCEPT ![c].at = "git"]
        /\ UNCHANGED repo
  /\ UNCHANGED <<profile, indexer, lock, stores, web, requests, faults, auxiliary>>

\* HEAD is there before the files are.
GitFetches(c) ==
  /\ cloner[c].at = "git"
  /\ disk[cloner[c].dir] = Partial
  /\ disk' = [disk EXCEPT ![cloner[c].dir] = Half(cloner[c].source)]
  /\ UNCHANGED <<rows, processes, stores, web, requests, faults, auxiliary>>

GitSucceeds(c) ==
  /\ cloner[c].at = "git"
  /\ disk[cloner[c].dir] # Partial
  /\ disk' = [disk EXCEPT ![cloner[c].dir] = cloner[c].source]
  /\ cloner' = [cloner EXCEPT ![c].at = "saves"]
  /\ UNCHANGED <<rows, indexer, lock, stores, web, requests, faults, auxiliary>>

\* A mutant: the time limit is not an error.
GitIgnoresFailure(c) ==
  /\ cloner[c].at = "git"
  /\ Fault
  /\ cloner' = [cloner EXCEPT ![c].at = "saves"]
  /\ UNCHANGED <<rows, disk, indexer, lock, stores, web, requests, auxiliary>>

\* A mutant: a failure is logged and nothing else.
GitFailsSilently(c) ==
  /\ cloner[c].at = "git"
  /\ Fault
  /\ \E rest \in {NoSource, disk[cloner[c].dir]} : disk' = [disk EXCEPT ![cloner[c].dir] = rest]
  /\ cloner' = [cloner EXCEPT ![c] = NoCloner]
  /\ UNCHANGED <<rows, indexer, lock, stores, web, requests, auxiliary>>

\* git that fails removes what it wrote; killed at the time limit it does not.
GitFails(c) ==
  /\ cloner[c].at = "git"
  /\ Fault
  /\ \E rest \in {NoSource, disk[cloner[c].dir]} : disk' = [disk EXCEPT ![cloner[c].dir] = rest]
  /\ Writes(c, "error", "ended")
  /\ UNCHANGED <<profile, indexer, lock, stores, web, requests, auxiliary>>

SavesPath(c) ==
  LET r == cloner[c].repo IN
  /\ cloner[c].at = "saves"
  /\ IF IsRepo(r)
     THEN /\ repo' = [repo EXCEPT ![r].path = cloner[c].dir]
          /\ cloner' = [cloner EXCEPT ![c].at = "sets"]
          /\ Moves(IF repo[r].path = cloner[c].dir THEN {} ELSE {r})
          /\ byHand' = byHand \ {r}
     ELSE /\ cloner' = [cloner EXCEPT ![c] = NoCloner]
          /\ UNCHANGED <<repo, moved, left, byHand>>
  /\ UNCHANGED <<profile, disk, indexer, lock, stores, web, requests, faults, abandoned, known>>

SetsCloned(c) ==
  /\ cloner[c].at = "sets"
  /\ Writes(c, "cloned", "ended")
  /\ UNCHANGED <<profile, disk, indexer, lock, stores, web, requests, faults, auxiliary>>

ClonerIsKilled(c) ==
  /\ cloner[c].at # "ended"
  /\ Fault
  /\ cloner' = [cloner EXCEPT ![c] = NoCloner]
  /\ abandoned' = abandoned \cup {cloner[c].repo}
  /\ UNCHANGED <<rows, disk, indexer, lock, stores, web, requests, known, left, moved, byHand>>

-----------------------------------------------------------------------------
(* The indexer: the rows and the chain of a profile are read before its lock *)
(* is taken, head_sha when the turn of a repository comes.                   *)

SpawnsIndexer(names, flags) ==
  \E i \in Indexers :
    /\ indexer[i].at = "ended"
    /\ indexer' = [indexer EXCEPT ![i] =
         [NoIndexer EXCEPT !.at = "starts", !.names = names, !.flags = flags]]

IndexRepo(r, flags) ==
  /\ Request
  /\ IsRepo(r)
  /\ ~ IsRunning(profile[repo[r].profile].name)
  /\ SpawnsIndexer({profile[repo[r].profile].name}, flags)
  /\ UNCHANGED <<rows, disk, cloner, lock, stores, web, faults, auxiliary>>

ResetEmbed(r) ==
  /\ Request
  /\ IsRepo(r)
  /\ ~ IsRunning(profile[repo[r].profile].name)
  /\ repo' = [repo EXCEPT ![r].sha = NoSource]
  /\ SpawnsIndexer({profile[repo[r].profile].name}, [full |-> FALSE, gc |-> FALSE, embed |-> TRUE])
  /\ UNCHANGED <<profile, disk, cloner, lock, stores, web, faults, auxiliary>>

IndexAll(flags) ==
  LET all == {p \in Profiles : IsProfile(p)} IN
  /\ Request
  /\ all # {} /\ ~ flags.gc
  /\ \A p \in all : ~ IsRunning(profile[p].name)
  /\ SpawnsIndexer({profile[p].name : p \in all}, flags)
  /\ UNCHANGED <<rows, disk, cloner, lock, stores, web, faults, auxiliary>>

RowsOf(name) ==
  LET mine == {r \in Repos : IsRepo(r) /\ profile[repo[r].profile].name = name}
  IN  {[repo |-> r, dir |-> repo[r].path, version |-> VersionOf(r)] : r \in mine}

\* get_repos_for_profile and get_ancestor_profile_names. A profile without
\* repositories is left at once.
ReadsRows(i) ==
  LET n == indexer[i].name
      todo == RowsOf(n)
  IN
  /\ indexer[i].at = "reads"
  /\ IF todo = {}
     THEN indexer' = [indexer EXCEPT ![i].at = "starts"] /\ UNCHANGED known
     ELSE /\ indexer' = [indexer EXCEPT ![i] =
               [@ EXCEPT !.at = "locks", !.todo = todo,
                         !.chain = UNION {ChainNames(p) : p \in
                           {q \in Profiles : IsProfile(q) /\ profile[q].name = n}}]]
          /\ known' = known \cup {t.repo : t \in todo}
  /\ UNCHANGED <<rows, disk, cloner, lock, stores, web, requests, faults, abandoned, left, moved, byHand>>

NextProfile(i) ==
  /\ indexer[i].at = "starts"
  /\ IF indexer[i].names = {}
     THEN indexer' = [indexer EXCEPT ![i] = NoIndexer]
     ELSE \E n \in indexer[i].names :
            indexer' = [indexer EXCEPT ![i] =
              [@ EXCEPT !.at = "reads", !.name = n, !.names = indexer[i].names \ {n}]]
  /\ UNCHANGED <<rows, disk, cloner, lock, stores, web, requests, faults, auxiliary>>

TakesLock(i) ==
  /\ indexer[i].at = "locks"
  /\ IF IsRunning(indexer[i].name)
     THEN /\ indexer' = [indexer EXCEPT ![i] = [@ EXCEPT !.at = "starts", !.todo = {}, !.chain = {}]]
          /\ UNCHANGED lock
     ELSE /\ indexer' = [indexer EXCEPT ![i].at = "next"]
          /\ lock' = [lock EXCEPT ![indexer[i].name] = i]
  /\ UNCHANGED <<rows, disk, cloner, stores, web, requests, faults, auxiliary>>

LeavesProfile(i) ==
  /\ indexer' = [indexer EXCEPT ![i] =
       [NoIndexer EXCEPT !.at = "starts", !.names = indexer[i].names, !.flags = indexer[i].flags]]
  /\ lock' = [lock EXCEPT ![indexer[i].name] = None]

Finishes(i) ==
  /\ indexer[i].at = "next" /\ indexer[i].todo = {}
  /\ LeavesProfile(i)
  /\ UNCHANGED <<rows, disk, cloner, stores, web, requests, faults, auxiliary>>

\* update_repo_status raises for a row that is gone, which ends the whole run.
EndsRepo(i, t) ==
  IF IsRepo(t.repo)
  THEN /\ indexer' = [indexer EXCEPT ![i] =
            [@ EXCEPT !.at = "next", !.todo = indexer[i].todo \ {t}, !.now = {},
                      !.read = NoSource, !.part = {}]]
       /\ UNCHANGED lock
  ELSE LeavesProfile(i)

\* No directory: the repository fails. The commit of head_sha: it is skipped.
\* Without HEAD there are no modules either. clone_status is not looked at: of a
\* checkout that git is still writing, or never finished, HEAD is read and some
\* modules are found. Embeddings are written first.
OpensRepo(i, t) ==
  LET tree == {s \in Sources : disk[t.dir] \in {s, Half(s)}}
      skipped == ~ indexer[i].flags.full /\ IsRepo(t.repo) /\ repo[t.repo].sha \in tree
  IN
  /\ indexer[i].at = "next" /\ t \in indexer[i].todo
  /\ \/ /\ tree = {} \/ skipped
        /\ EndsRepo(i, t)
        /\ UNCHANGED vectors
     \/ /\ ~ skipped
        /\ \E s \in tree, part \in SUBSET Modules :
             /\ part \subseteq Holds[s] /\ (disk[t.dir] = s => part = Holds[s])
             /\ indexer' = [indexer EXCEPT ![i] =
                  [@ EXCEPT !.at = "writes", !.todo = indexer[i].todo \ {t}, !.now = {t},
                            !.read = s, !.part = part]]
             /\ vectors' = IF indexer[i].flags.embed
                           THEN vectors \cup (part \X {t.version}) ELSE vectors
        /\ UNCHANGED lock
  /\ UNCHANGED <<rows, disk, cloner, graph, web, requests, faults, auxiliary>>

\* One MERGE per module: the directory of the last writer, the names of all. GC
\* deletes what the graph has under this directory name and version elsewhere, but
\* not its embeddings.
WritesGraph(i) ==
  /\ indexer[i].at = "writes"
  /\ \E t \in indexer[i].now :
       LET pair == <<t.dir[2], t.version>>
           mine == indexer[i].part \X {t.version}
           stale == {k \in NodesOf(pair) \ mine : indexer[i].flags.gc}
           swept == IF mine = {} THEN {} ELSE stale
       IN  /\ graph' = [k \in Keys |->
                IF k \in mine
                THEN [there |-> TRUE, dir |-> t.dir, by |-> graph[k].by \cup indexer[i].chain]
                ELSE IF k \in swept THEN NoNode ELSE graph[k]]
           /\ left' = IF swept # {} \/ pair \in web.pairs THEN left \cup {pair} ELSE left
  /\ indexer' = [indexer EXCEPT ![i].at = "advances"]
  /\ UNCHANGED <<rows, disk, cloner, lock, vectors, web, requests, faults,
                 abandoned, known, moved, byHand>>

AdvancesSha(i) ==
  /\ indexer[i].at = "advances"
  /\ \E t \in indexer[i].now :
       /\ repo' = IF IsRepo(t.repo) THEN [repo EXCEPT ![t.repo].sha = indexer[i].read] ELSE repo
       /\ EndsRepo(i, t)
  /\ UNCHANGED <<profile, disk, cloner, stores, web, requests, faults, auxiliary>>

RepoFails(i) ==
  /\ indexer[i].at \in {"writes", "advances"}
  /\ Fault
  /\ \E t \in indexer[i].now : EndsRepo(i, t)
  /\ UNCHANGED <<rows, disk, cloner, stores, web, requests, auxiliary>>

IndexerIsKilled(i) ==
  /\ indexer[i].at # "ended"
  /\ Fault
  /\ indexer' = [indexer EXCEPT ![i] = NoIndexer]
  /\ lock' = [n \in Names |-> IF lock[n] = i THEN None ELSE lock[n]]
  /\ UNCHANGED <<rows, disk, cloner, stores, web, requests, auxiliary>>

-----------------------------------------------------------------------------
(* Deletions. The guard, the row (and, by cascade, the repositories of a     *)
(* profile), then the stores, each step by itself and each allowed to fail.  *)

Gone(R) == [r \in Repos |-> IF r \in R THEN [repo[r] EXCEPT !.state = "gone"] ELSE repo[r]]

\* Of the rows of R an indexer may have read what it will write when it has its lock.
Awaited(R) == {r \in R : \E i \in Indexers :
                 indexer[i].at = "locks" /\ \E t \in indexer[i].todo : t.repo = r}

StartsCleanup(R) ==
  /\ web' = [at |-> "collects", pairs |-> {PairOf(r) : r \in R}, keys |-> {}]
  /\ left' = left \cup {PairOf(r) : r \in Awaited(R)}

DeleteRepo(r) ==
  /\ Request
  /\ IsRepo(r)
  /\ ~ IsRunning(profile[repo[r].profile].name)
  /\ repo' = Gone({r})
  /\ StartsCleanup({r})
  /\ UNCHANGED <<profile, disk, processes, stores, faults, abandoned, known, moved, byHand>>

\* The foreign key refuses to delete a parent.
HasChildren(p) == \E q \in Profiles : IsProfile(q) /\ profile[q].parent = p

DeleteProfile(p) ==
  /\ Request
  /\ IsProfile(p)
  /\ ~ IsRunning(profile[p].name)
  /\ ~ HasChildren(p)
  /\ profile' = [profile EXCEPT ![p].state = "gone"]
  /\ repo' = Gone(ReposOf(p))
  /\ StartsCleanup(ReposOf(p))
  /\ UNCHANGED <<disk, processes, stores, faults, abandoned, known, moved, byHand>>

\* A mutant: the names are looked up when the nodes are already deleted.
CollectsTooLate ==
  /\ web.at = "collects"
  /\ web' = [web EXCEPT !.at = "graph"]
  /\ UNCHANGED <<rows, disk, processes, stores, requests, faults, auxiliary>>

\* _collect_module_names_for_repos
CollectsNames ==
  /\ web.at = "collects"
  /\ \/ /\ web' = [web EXCEPT !.at = "graph", !.keys = UNION {NodesOf(x) : x \in web.pairs}]
        /\ UNCHANGED <<faults, left>>
     \/ /\ Fault
        /\ web' = [web EXCEPT !.at = "graph"]
        /\ left' = left \cup web.pairs
  /\ UNCHANGED <<rows, disk, processes, stores, requests, abandoned, known, moved, byHand>>

\* A mutant: the version is left out of the MATCH.
DoomedInAnyVersion(k) == \E x \in web.pairs : graph[k].there /\ graph[k].dir[2] = x[1]

\* delete_modules_scoped, for each pair
Doomed(k) == \E x \in web.pairs : k \in NodesOf(x)

DeletesNodes ==
  /\ web.at = "graph"
  /\ \/ /\ graph' = [k \in Keys |-> IF Doomed(k) THEN NoNode ELSE graph[k]]
        /\ UNCHANGED <<faults, left>>
     \/ /\ Fault
        /\ UNCHANGED graph
        /\ left' = left \cup web.pairs
  /\ web' = [web EXCEPT !.at = "vectors"]
  /\ UNCHANGED <<rows, disk, processes, vectors, requests, abandoned, known, moved, byHand>>

DeletesVectors ==
  /\ web.at = "vectors"
  /\ \/ /\ vectors' = vectors \ web.keys
        /\ UNCHANGED <<faults, left>>
     \/ /\ Fault
        /\ UNCHANGED vectors
        /\ left' = left \cup web.pairs
  /\ web' = Idle
  /\ UNCHANGED <<rows, disk, processes, graph, requests, abandoned, known, moved, byHand>>

\* delete-repo and delete-profile of src.manager: no guard, and nothing but rows.
CliDeleteRepo(r) ==
  /\ Command
  /\ IsRepo(r)
  /\ repo' = Gone({r})
  /\ left' = left \cup {PairOf(r)}
  /\ UNCHANGED <<profile, disk, processes, stores, web, faults, abandoned, known, moved, byHand>>

CliDeleteProfile(p) ==
  /\ Command
  /\ IsProfile(p)
  /\ ~ HasChildren(p)
  /\ profile' = [profile EXCEPT ![p].state = "gone"]
  /\ repo' = Gone(ReposOf(p))
  /\ left' = left \cup {PairOf(r) : r \in ReposOf(p)}
  /\ UNCHANGED <<disk, processes, stores, web, faults, abandoned, known, moved, byHand>>

Configures ==
  \/ \E p \in Profiles, n \in Names, v \in Versions :
       \/ \E parent \in Profiles \cup {None} : CreateProfile(p, n, v, parent)
       \/ UpdateProfile(p, n, v) \/ CliAddProfile(p, n, v)
  \/ \E p \in Profiles, parent \in Profiles \cup {None} : SetProfileParent(p, parent)
  \/ \E r \in Repos, s \in Sources :
       \/ \E p \in Profiles : AddRepo(r, p, s) \/ \E path \in Paths : CliAddRepo(r, p, s, path)
       \/ \E key \in BOOLEAN, path \in Paths \cup {repo[r].path} : UpdateRepo(r, s, key, path)
  \/ DeleteSshKey

Deletes ==
  \/ \E r \in Repos : DeleteRepo(r) \/ CliDeleteRepo(r)
  \/ \E p \in Profiles : DeleteProfile(p) \/ CliDeleteProfile(p)
  \/ CollectsNames \/ DeletesNodes \/ DeletesVectors

Starts ==
  \/ \E p \in Profiles : CloneAll(p)
  \/ \E r \in Repos : CliClone(r) \/ ResetEmbed(r) \/ \E flags \in Flags : IndexRepo(r, flags)
  \/ \E flags \in Flags : IndexAll(flags)

ClonerStep(c) ==
  \/ RowReads(c) \/ MarksPending(c) \/ StartsGit(c) \/ GitFetches(c) \/ GitSucceeds(c) \/ GitFails(c)
  \/ SavesPath(c) \/ SetsCloned(c) \/ ClonerIsKilled(c)

IndexerStep(i) ==
  \/ NextProfile(i) \/ ReadsRows(i) \/ TakesLock(i) \/ Finishes(i)
  \/ \E t \in indexer[i].todo : OpensRepo(i, t)
  \/ WritesGraph(i) \/ AdvancesSha(i) \/ RepoFails(i) \/ IndexerIsKilled(i)

\* Of these repositories an unfinished checkout is written, or what another writes or
\* a deletion deletes may be theirs: a module or, for GC and for a deletion, the
\* directory name they have in one version.
ModulesIn(d) == UNION {Holds[s] : s \in {s \in Sources : disk[d] \in {s, Half(s)}}}
Takes(i, t, r) ==
  /\ t.repo # r /\ t.version = VersionOf(r)
  /\ \/ indexer[i].flags.gc /\ t.dir[2] = repo[r].path[2]
     \/ indexer[i].part \cap ModulesIn(repo[r].path) # {}
Overrun ==
  {r \in Repos :
     /\ IsRepo(r)
     /\ \/ PairOf(r) \in web.pairs
        \/ \E i \in Indexers : \E t \in indexer[i].now :
             Takes(i, t, r) \/ (t.repo = r /\ disk[t.dir] # indexer[i].read)}

Next ==
  /\ \/ Configures \/ Deletes \/ Starts
     \/ \E c \in Cloners : ClonerStep(c)
     \/ \E i \in Indexers : IndexerStep(i)
  /\ overrun' = overrun \cup Overrun'

Spec == Init /\ [][Next]_vars

-----------------------------------------------------------------------------
(* Properties                                                               *)

Tasks == [repo : Repos, dir : Dirs, version : Versions]

\* Every variable has its type (all the code).
TypeOK ==
  /\ profile \in [Profiles -> [state : {Unborn, "row", "gone"}, name : Names,
                               version : Versions, parent : Profiles \cup {None}]]
  /\ repo \in [Repos -> [state : {Unborn, "row", "gone"}, profile : Profiles \cup {None},
                         source : Sources \cup {NoSource}, key : BOOLEAN, path : Dirs,
                         clone : {"manual", "pending", "cloned", "error"},
                         sha : Sources \cup {NoSource}]]
  /\ disk \in [Dirs -> Sources \cup {NoSource, Partial} \cup {Half(s) : s \in Sources}]
  /\ cloner \in [Cloners -> [at : {"ended", "starts", "marks", "clones", "git", "saves", "sets"},
                             repo : Repos \cup {None}, source : Sources \cup {NoSource},
                             key : BOOLEAN, dir : Dirs]]
  /\ indexer \in [Indexers -> [at : {"ended", "starts", "reads", "locks", "next", "writes",
                                     "advances"},
                               names : SUBSET Names, flags : CommandLines, name : Names,
                               chain : SUBSET Names, todo : SUBSET Tasks, now : SUBSET Tasks,
                               read : Sources \cup {NoSource}, part : SUBSET Modules]]
  /\ lock \in [Names -> Indexers \cup {None}]
  /\ graph \in [Keys -> [there : BOOLEAN, dir : Dirs, by : SUBSET Names]]
  /\ vectors \subseteq Keys
  /\ web \in [at : {"idle", "collects", "graph", "vectors"}, pairs : SUBSET (Slugs \X Versions),
              keys : SUBSET Keys]
  /\ requests \in 0 .. MaxRequests /\ faults \in 0 .. MaxFaults
  /\ abandoned \subseteq Repos /\ known \subseteq Repos
  /\ left \subseteq Slugs \X Versions
  /\ moved \subseteq Repos /\ byHand \subseteq Repos /\ overrun \subseteq Repos

Live == {p \in Profiles : IsProfile(p)}

\* The parents of profiles form trees of one version: a parent exists, has the
\* version of its child, and no set of profiles is a cycle. (_validate_parent,
\* add_profile, update_profile and the foreign key; the recursive queries would
\* not end on a cycle.)
HierarchyIsSound ==
  /\ \A p \in Live : profile[p].parent # None =>
       profile[p].parent \in Live /\ profile[profile[p].parent].version = profile[p].version
  /\ \A S \in SUBSET Live : S # {} => \E p \in S : profile[p].parent \notin S

\* What is in the stores belongs to a repository: a node, by its directory name
\* and version, to a row or to the deletion in progress; an embedding to such a
\* node, to the deletion, or to an indexer that is about to write the node. Left out
\* is what the code leaves behind: what failed, what a command of a shell deleted,
\* what was indexed before an edit of the row, what an indexer writes that had read
\* the row but had no lock yet or that writes during the deletion, and embeddings of
\* nodes swept by GC. (delete_repo and delete_profile of web_ui/routes/repos.py)
Owners == {PairOf(r) : r \in {q \in Repos : IsRepo(q)}} \cup web.pairs \cup left
DeletedIsGone ==
  /\ \A k \in Keys : graph[k].there => <<graph[k].dir[2], k[2]>> \in Owners
  /\ \A k \in vectors :
       \/ graph[k].there
       \/ k \in web.keys
       \/ \E pair \in left : pair[2] = k[2]
       \/ faults > 0
       \/ \E i \in Indexers : indexer[i].at = "writes" /\ \E t \in indexer[i].now :
            k \in indexer[i].part \X {t.version}

\* A repository with a head_sha is in the graph: its modules are there, and under the
\* name of its profile, unless it was edited after an indexer read it, was indexed
\* from an unfinished checkout, or has a module or, in a deletion or a GC, its
\* directory name in common with another one of its version that was written or
\* deleted since. (update_repo_head_sha, delete_modules_scoped, gc_stale_modules,
\* _has_indexed_repos)
IndexedIsInGraph ==
  \A r \in Repos \ (moved \cup overrun) : IsRepo(r) /\ repo[r].sha # NoSource =>
    \A m \in Holds[repo[r].sha] :
      LET node == graph[<<m, VersionOf(r)>>]
      IN  node.there /\ profile[repo[r].profile].name \in node.by

\* A repository marked cloned has a complete checkout where its row says, unless an
\* administrator has named that directory. (src/cloner/__main__.py, clone_repo,
\* update_repo, clone-all)
ClonedIsThere ==
  \A r \in Repos \ byHand : IsRepo(r) /\ repo[r].clone = "cloned" => disk[repo[r].path] \in Sources

\* A repository is pending only while a cloner is at work for it, unless one was
\* killed. (src/cloner/__main__.py: every path out of 'pending' writes a status)
PendingIsAttended ==
  \A r \in Repos : IsRepo(r) /\ repo[r].clone = "pending" =>
    r \in abandoned \/ \E c \in Cloners : cloner[c].repo = r /\ cloner[c].at # "ended"

\* A directory is written by one cloner at a time, and a finished checkout is
\* never written again. (clone_repo refuses a directory that is not empty)
CheckoutsAreKept == [][\A d \in Dirs : disk[d] \in Sources => disk'[d] = disk[d]]_vars

=============================================================================
