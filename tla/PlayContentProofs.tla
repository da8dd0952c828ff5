-------------------------- MODULE PlayContentProofs --------------------------
(***************************************************************************)
(* Proofs about PlayContent, for every set of jobs, sources and layouts:    *)
(* the type invariant, that a play finds in its snapshot what its            *)
(* repository has, that a job reports what its install put in place beyond   *)
(* the cache, and that the cache never holds a branch back.                  *)
(***************************************************************************)
EXTENDS PlayContent, SequenceTheorems, WellFoundedInduction, TLAPS

-----------------------------------------------------------------------------
(* What the operators of a snapshot return. *)

\* Any numbers have a least one.
LEMMA LeastNumber ==
  ASSUME NEW T \in SUBSET Nat, T # {}
  PROVE  \E i \in T : \A j \in T : i <= j
<1>1. \E x \in T : \A y \in T : <<y, x>> \notin OpToRel(<, Nat)
  BY NatLessThanWellFounded, WFMin
<1>2. PICK x \in T : \A y \in T : <<y, x>> \notin OpToRel(<, Nat)
  BY <1>1
<1>3. \A y \in T : ~(y < x)
  BY <1>2 DEF OpToRel
<1> QED BY <1>3

LEMMA LeastIsOne ==
  ASSUME NEW T \in SUBSET Nat, NEW m \in T, \A j \in T : m <= j
  PROVE  (CHOOSE i \in T : \A j \in T : i <= j) = m
<1> DEFINE least == CHOOSE i \in T : \A j \in T : i <= j
<1>1. least \in T /\ \A j \in T : least <= j
  OBVIOUS
<1>2. least <= m /\ m <= least /\ least \in Nat /\ m \in Nat
  BY <1>1
<1>3. least = m
  <2> HIDE DEF least
  <2> QED BY <1>2
<1> QED BY <1>3

\* A closure holds what it starts from and what that leads to, and is within every set that does.
LEMMA ClosedIsLeast ==
  ASSUME NEW start, NEW leads
  PROVE  /\ Closed(start, leads) \subseteq DOMAIN leads
         /\ start \subseteq DOMAIN leads => start \subseteq Closed(start, leads)
         /\ \A x \in Closed(start, leads) : leads[x] \cap DOMAIN leads \subseteq Closed(start, leads)
         /\ \A S \in SUBSET DOMAIN leads :
              start \subseteq S /\ (\A x \in S : leads[x] \subseteq S) => Closed(start, leads) \subseteq S
  BY DEF Closed

\* The directories of a repository, and the one an install stages roles in.
Places == Dirs \cup {Stage}

\* A role is looked for in the first directory, and else in the others.
LEMMA FoundFirst ==
  ASSUME NEW P, NEW x \in Places, NEW s \in Seq(Places), NEW r
  PROVE  FoundIn(P, <<x>> \o s, r) = IF Role(x, r) \in P THEN x ELSE FoundIn(P, s, r)
<1> DEFINE t == <<x>> \o s
           least(H) == CHOOSE i \in H : \A j \in H : i <= j
           here == {i \in DOMAIN t : Role(t[i], r) \in P}
           there == {i \in DOMAIN s : Role(s[i], r) \in P}
<1>0. Len(s) \in Nat /\ DOMAIN s = 1..Len(s)
  OBVIOUS
<1>1. /\ DOMAIN t = 1..(Len(s) + 1) /\ t[1] = x
      /\ \A i \in 1..Len(s) : t[i + 1] = s[i]
  BY <1>0
<1>2. /\ FoundIn(P, t, r) = IF here = {} THEN None ELSE t[least(here)]
      /\ FoundIn(P, s, r) = IF there = {} THEN None ELSE s[least(there)]
  BY DEF FoundIn
<1>3. here \subseteq Nat /\ there \subseteq Nat /\ \A i \in there : i \in 1..Len(s)
  BY <1>0, <1>1
<1>4. CASE Role(x, r) \in P
  <2>1. 1 \in here /\ \A j \in here : 1 <= j
    BY <1>0, <1>1, <1>4
  <2> HIDE DEF here, t
  <2>2. least(here) = 1
    BY <1>3, <2>1, LeastIsOne
  <2> QED BY <1>1, <1>2, <1>4, <2>1, <2>2 DEF t
<1>5. CASE Role(x, r) \notin P
  <2>1. \A i \in here : i - 1 \in there /\ i = (i - 1) + 1
    <3> SUFFICES ASSUME NEW i \in here PROVE i - 1 \in there
      BY <1>3
    <3>1. i \in 1..(Len(s) + 1) /\ i # 1
      BY <1>1, <1>5
    <3>2. i - 1 \in 1..Len(s) /\ (i - 1) + 1 = i
      BY <1>0, <3>1
    <3>3. s[i - 1] = t[i]
      BY <1>1, <3>2
    <3> QED BY <1>0, <3>2, <3>3
  <2>2. \A i \in there : i + 1 \in here
    <3> SUFFICES ASSUME NEW i \in there PROVE i + 1 \in here
      OBVIOUS
    <3>1. i \in 1..Len(s) /\ Role(s[i], r) \in P
      BY <1>0
    <3>2. i + 1 \in DOMAIN t /\ t[i + 1] = s[i]
      BY <1>0, <1>1, <3>1
    <3> QED BY <3>1, <3>2
  <2> HIDE DEF here, there, t
  <2>3. CASE there = {}
    BY <1>2, <1>5, <2>1, <2>3 DEF t
  <2>4. CASE there # {}
    <3>1. PICK m \in there : \A j \in there : m <= j
      BY <1>3, <2>4, LeastNumber
    <3>2. least(there) = m
      BY <1>3, <3>1, LeastIsOne
    <3>3. m + 1 \in here /\ \A j \in here : m + 1 <= j
      BY <1>3, <2>1, <2>2, <3>1
    <3>4. least(here) = m + 1
      BY <1>3, <3>3, LeastIsOne
    <3>5. m \in 1..Len(s)
      BY <1>3
    <3>6. t[m + 1] = s[m]
      BY <1>1, <3>5
    <3> HIDE DEF least
    <3> QED BY <1>2, <1>5, <2>4, <3>2, <3>3, <3>4, <3>6 DEF t
  <2> QED BY <2>3, <2>4
<1> QED BY <1>4, <1>5

LEMMA FoundNowhere ==
  ASSUME NEW P, NEW r
  PROVE  FoundIn(P, <<>>, r) = None
<1>1. {i \in DOMAIN <<>> : Role(<<>>[i], r) \in P} = {}
  OBVIOUS
<1> QED BY <1>1 DEF FoundIn

LEMMA ConsIsSeq ==
  ASSUME NEW x \in Places, NEW s \in Seq(Places), NEW t \in Seq(Places)
  PROVE  /\ (<<x>> \o s) \o t = <<x>> \o (s \o t)
         /\ s \o t \in Seq(Places) /\ <<x>> \o s \in Seq(Places)
  BY ConcatAssociative

LEMMA PairIsCons ==
  ASSUME NEW x \in Places, NEW y \in Places
  PROVE  <<x>> \o <<y>> = <<x, y>>
<1> DEFINE s == <<x>> \o <<y>>
           t == <<x, y>>
<1>1. s \in Seq(Places) /\ Len(s) = 2 /\ s[1] = x /\ s[2] = y
  OBVIOUS
<1>2. t \in Seq(Places) /\ Len(t) = 2 /\ t[1] = x /\ t[2] = y
  OBVIOUS
<1> HIDE DEF s, t
<1>3. \A i \in 1..2 : s[i] = t[i]
  <2>1. \A i \in 1..2 : i = 1 \/ i = 2
    OBVIOUS
  <2> QED BY <2>1, <1>1, <1>2
<1>4. s = t
  BY <1>1, <1>2, <1>3, SeqEqual
<1> QED BY <1>4 DEF s, t

\* A role looked for in one directory.
LEMMA FoundLast ==
  ASSUME NEW P, NEW x \in Places, NEW r
  PROVE  FoundIn(P, <<x>>, r) = IF Role(x, r) \in P THEN x ELSE None
<1> DEFINE e == <<>>
<1>1. e \in Seq(Places) /\ <<x>> \o e = <<x>> /\ FoundIn(P, e, r) = None
  BY FoundNowhere
<1> HIDE DEF e
<1>2. FoundIn(P, <<x>> \o e, r) = IF Role(x, r) \in P THEN x ELSE FoundIn(P, e, r)
  BY <1>1, FoundFirst
<1> QED BY <1>1, <1>2

\* The roles paths a configuration sets, and the roles a role is looked for by, None for a play.
RolesPaths == {<<>>, <<Root>>}
Bys == Dirs \cup {None}

\* The first of a playbook's directory, the roles path and the directory of the role in need that has a role.
FirstOf(P, d, path, b, r) ==
  IF Role(d, r) \in P THEN d
  ELSE IF path = <<Root>> /\ Role(Root, r) \in P THEN Root
  ELSE IF b # None /\ Role(b, r) \in P THEN b ELSE None

\* Where a play finds a role, with the staged roles' directory and its playbook's ahead of the roles path
\* or not.
LEMMA LookedUp ==
  ASSUME NEW P, NEW d \in Dirs, NEW b \in Bys, NEW path \in RolesPaths, NEW role, NEW r
  PROVE  /\ FoundIn(P, Looked(Needs(d, b, role), path), r) = FirstOf(P, d, path, b, r)
         /\ FoundIn(P, Looked(Needs(d, b, role), <<Stage, d>> \o path), r) =
              IF Role(d, r) \notin P /\ Role(Stage, r) \in P THEN Stage ELSE FirstOf(P, d, path, b, r)
<1> DEFINE need == Needs(d, b, role)
           tail == IF b = None THEN <<>> ELSE <<b>>
<1>0. Root \in Places /\ d \in Places /\ Stage \in Places /\ (b # None => b \in Places)
  BY SnapshotAssumption DEF Places, Bys
<1>1. path \in Seq(Places) /\ tail \in Seq(Places) /\ <<Root>> # <<>>
  <2>1. <<Root>> \in Seq(Places) /\ <<>> \in Seq(Places) /\ <<Root>> # <<>>
    BY <1>0
  <2>2. tail \in Seq(Places)
    BY <1>0, <2>1
  <2> QED BY <2>1, <2>2 DEF RolesPaths
<1>2. need.ctx = d /\ need.by = b
  BY DEF Needs
<1> DEFINE rest == path \o tail
           more == <<d>> \o rest
           most == <<Stage>> \o more
<1>3. /\ rest \in Seq(Places) /\ more \in Seq(Places) /\ most \in Seq(Places)
      /\ Looked(need, path) = more /\ Looked(need, <<Stage, d>> \o path) = <<d>> \o most
  <2>1. Looked(need, path) = (<<d>> \o path) \o tail
    BY <1>2 DEF Looked
  <2>2. Looked(need, <<Stage, d>> \o path) = (<<d>> \o (<<Stage, d>> \o path)) \o tail
    BY <1>2 DEF Looked
  <2> DEFINE pair == <<Stage, d>>
  <2>3. pair \o path = <<Stage>> \o (<<d>> \o path)
    <3> DEFINE single == <<d>>
    <3>1. <<Stage>> \o single = pair
      BY <1>0, PairIsCons
    <3>2. single \in Seq(Places)
      BY <1>0
    <3> HIDE DEF single, pair
    <3>3. (<<Stage>> \o single) \o path = <<Stage>> \o (single \o path)
      BY <1>0, <1>1, <3>2, ConsIsSeq
    <3> QED BY <3>1, <3>3 DEF single
  <2> HIDE DEF tail, need, pair
  <2>4. (<<d>> \o path) \o tail = more /\ rest \in Seq(Places) /\ <<d>> \o path \in Seq(Places)
    BY <1>0, <1>1, ConsIsSeq
  <2>5. more \in Seq(Places)
    BY <1>0, <2>4, ConsIsSeq
  <2>6. (<<Stage>> \o (<<d>> \o path)) \o tail = <<Stage>> \o ((<<d>> \o path) \o tail)
        /\ <<Stage>> \o (<<d>> \o path) \in Seq(Places)
    BY <1>0, <1>1, <2>4, ConsIsSeq
  <2>7. (<<d>> \o (<<Stage>> \o (<<d>> \o path))) \o tail = <<d>> \o ((<<Stage>> \o (<<d>> \o path)) \o tail)
    BY <1>0, <1>1, <2>6, ConsIsSeq
  <2>8. most \in Seq(Places)
    BY <1>0, <2>5, ConsIsSeq
  <2> QED BY <2>1, <2>2, <2>3, <2>4, <2>5, <2>6, <2>7, <2>8 DEF pair
<1>4. FoundIn(P, tail, r) = IF b # None /\ Role(b, r) \in P THEN b ELSE None
  <2>1. CASE b = None
    BY <2>1, FoundNowhere
  <2>2. CASE b # None
    BY <1>0, <2>2, FoundLast
  <2> QED BY <2>1, <2>2
<1>5. FoundIn(P, rest, r) = IF path = <<Root>> /\ Role(Root, r) \in P THEN Root ELSE FoundIn(P, tail, r)
  <2> HIDE DEF tail
  <2>1. CASE path = <<>>
    <3>1. path \o tail = tail
      BY <1>1, <2>1
    <3> QED BY <1>1, <2>1, <3>1
  <2>2. CASE path = <<Root>>
    BY <1>0, <1>1, <2>2, FoundFirst
  <2> QED BY <2>1, <2>2 DEF RolesPaths
<1> HIDE DEF tail, need, rest
<1>6. FoundIn(P, more, r) = IF Role(d, r) \in P THEN d ELSE FoundIn(P, rest, r)
  BY <1>0, <1>3, FoundFirst
<1>7. FoundIn(P, more, r) = FirstOf(P, d, path, b, r)
  BY <1>4, <1>5, <1>6 DEF FirstOf
<1> HIDE DEF more
<1>8. FoundIn(P, most, r) = IF Role(Stage, r) \in P THEN Stage ELSE FoundIn(P, more, r)
  BY <1>0, <1>3, FoundFirst
<1> HIDE DEF most
<1>9. FoundIn(P, <<d>> \o most, r) = IF Role(d, r) \in P THEN d ELSE FoundIn(P, most, r)
  BY <1>0, <1>3, FoundFirst
<1>10. Role(d, r) \in P => FirstOf(P, d, path, b, r) = d
  BY DEF FirstOf
<1>11. FoundIn(P, Looked(need, path), r) = FirstOf(P, d, path, b, r)
  BY <1>3, <1>7
<1>12. FoundIn(P, Looked(need, <<Stage, d>> \o path), r) =
         IF Role(d, r) \notin P /\ Role(Stage, r) \in P THEN Stage ELSE FirstOf(P, d, path, b, r)
  BY <1>3, <1>7, <1>8, <1>9, <1>10
<1> QED BY <1>11, <1>12 DEF need

\* Where the snapshot looks for a role: the repository's own roles, then those beside the playbook.
LEMMA SearchedUp ==
  ASSUME NEW repo, IsRepository(repo), NEW top \in Playbooks, NEW r
  PROVE  FoundIn(repo.paths, searchRoots(repo, top), r) =
           IF Role(Root, r) \in repo.paths THEN Root
           ELSE IF Role(repo.at[top], r) \in repo.paths THEN repo.at[top] ELSE None
<1> DEFINE P == repo.paths
           d == repo.at[top]
<1>1. Root \in Places /\ d \in Places
  BY SnapshotAssumption DEF IsRepository, Places
<1> HIDE DEF P, d
<1>2. FoundIn(P, <<Root, d>>, r) = IF Role(Root, r) \in P THEN Root ELSE IF Role(d, r) \in P THEN d ELSE None
  <2> DEFINE s == <<d>>
  <2>1. s \in Seq(Places) /\ FoundIn(P, s, r) = IF Role(d, r) \in P THEN d ELSE None
    BY <1>1, FoundLast
  <2>2. <<Root>> \o s = <<Root, d>>
    BY <1>1, PairIsCons
  <2> HIDE DEF s
  <2>3. FoundIn(P, <<Root>> \o s, r) = IF Role(Root, r) \in P THEN Root ELSE FoundIn(P, s, r)
    BY <1>1, <2>1, FoundFirst
  <2> QED BY <2>1, <2>2, <2>3
<1>3. FoundIn(P, <<Root>>, r) = IF Role(Root, r) \in P THEN Root ELSE None
  BY <1>1, FoundLast
<1>4. FoundIn(P, searchRoots(repo, top), r) =
        IF Role(Root, r) \in P THEN Root ELSE IF Role(d, r) \in P THEN d ELSE None
  BY <1>2, <1>3 DEF searchRoots, d
<1> QED BY <1>4 DEF P, d

-----------------------------------------------------------------------------
(* A snapshot holds nothing its repository does not, and of a repository it follows all a play needs. *)

LEMMA SnapshotIsOfTheRepo ==
  ASSUME NEW repo, IsRepository(repo), NEW top \in Playbooks
  PROVE  BuildPlaybookSnapshot(repo, top) \subseteq repo.paths
<1>1. resolveRoleDirs(repo, top) \subseteq repo.paths
  BY SearchedUp DEF resolveRoleDirs
<1>2. conventionalContent(repo, top) \subseteq repo.paths
  BY DEF conventionalContent
<1> QED
  BY <1>1, <1>2 DEF BuildPlaybookSnapshot, tarGzDir, resolvePlaybookSnapshotPaths

\* What the snapshot keeps of a repository it follows.
LEMMA SnapshotKeeps ==
  ASSUME NEW repo, IsRepository(repo), NEW top \in Playbooks, Followed(repo, top)
  PROVE  /\ wholeRepo(repo, top) => BuildPlaybookSnapshot(repo, top) = repo.paths
         /\ \A f \in Conventional, d \in {Root, repo.at[top]} :
              File(d, f) \in BuildPlaybookSnapshot(repo, top) <=> File(d, f) \in repo.paths
         /\ resolveRoleDirs(repo, top) \subseteq BuildPlaybookSnapshot(repo, top)
         /\ {Play(repo, p) : p \in Visited(repo, top)} \cap repo.paths \subseteq BuildPlaybookSnapshot(repo, top)
<1>1. resolvePlaybookSnapshotPaths(repo, top) \subseteq repo.paths
  <2>1. resolveRoleDirs(repo, top) \subseteq repo.paths
    BY SearchedUp DEF resolveRoleDirs
  <2> QED BY <2>1 DEF resolvePlaybookSnapshotPaths, conventionalContent
<1>2. BuildPlaybookSnapshot(repo, top) = resolvePlaybookSnapshotPaths(repo, top)
  BY <1>1 DEF BuildPlaybookSnapshot, tarGzDir, Followed
<1>3. wholeRepo(repo, top) => BuildPlaybookSnapshot(repo, top) = repo.paths
  BY <1>2 DEF resolvePlaybookSnapshotPaths
<1>4. resolveRoleDirs(repo, top) \subseteq repo.paths
  BY SearchedUp DEF resolveRoleDirs
<1>5. ASSUME ~wholeRepo(repo, top)
      PROVE  BuildPlaybookSnapshot(repo, top) =
               ({Play(repo, p) : p \in Visited(repo, top)} \cap repo.paths)
                 \cup resolveRoleDirs(repo, top) \cup conventionalContent(repo, top)
  BY <1>2, <1>5 DEF resolvePlaybookSnapshotPaths
<1>6. \A f \in Conventional, d \in {Root, repo.at[top]} :
        File(d, f) \in conventionalContent(repo, top) <=> File(d, f) \in repo.paths
  BY DEF conventionalContent
<1>7. BuildPlaybookSnapshot(repo, top) \subseteq repo.paths
  BY SnapshotIsOfTheRepo
<1> QED BY <1>3, <1>4, <1>5, <1>6, <1>7

\* The roles a snapshot resolves, by name.
RoleNames(repo, top) ==
  Closed(collectRoleNames(repo, top),
         [r \in Roles |-> metaDependencies(repo, FoundIn(repo.paths, searchRoots(repo, top), r), r)])

\* Where the walk knows every key, it visits every playbook that is played.
LEMMA PlayedIsVisited ==
  ASSUME NEW repo, IsRepository(repo), NEW top \in Playbooks,
         \A p \in Visited(repo, top) : Known(repo, p) = repo.items[p]
  PROVE  Played(repo, top) \subseteq Visited(repo, top)
<1> DEFINE seen == [p \in Playbooks |-> parsePlaybook(repo, p)]
           all == [p \in Playbooks |-> Imports(repo, p)]
<1>1. DOMAIN seen = Playbooks /\ DOMAIN all = Playbooks
  OBVIOUS
<1>2. \A p \in Playbooks : seen[p] \subseteq Playbooks
  BY DEF parsePlaybook, Named, Known, IsRepository
<1>3. ASSUME NEW p \in Playbooks, p \in Visited(repo, top) PROVE all[p] = seen[p]
  BY <1>3 DEF Imports, parsePlaybook
<1>4. Visited(repo, top) = Closed({top}, seen) /\ Played(repo, top) = Closed({top}, all)
  BY DEF Visited, Played
<1> HIDE DEF seen, all
<1>5. /\ Visited(repo, top) \subseteq Playbooks /\ {top} \subseteq Visited(repo, top)
      /\ \A p \in Visited(repo, top) : seen[p] \subseteq Visited(repo, top)
  BY <1>1, <1>2, <1>4, ClosedIsLeast
<1>6. \A p \in Visited(repo, top) : all[p] \subseteq Visited(repo, top)
  BY <1>3, <1>5
<1> QED BY <1>1, <1>4, <1>5, <1>6, ClosedIsLeast

\* A role of a play, in a repository the snapshot follows, is one the snapshot resolves, and is looked
\* for where the snapshot looks for it.
LEMMA NeedsAreResolved ==
  ASSUME NEW repo, IsRepository(repo), NEW top \in Playbooks, Followed(repo, top),
         NEW path \in RolesPaths, NEW need \in PlayNeeds(repo, top, path)
  PROVE  /\ need = Needs(repo.at[top], need.by, need.role) /\ need.by \in Bys
         /\ ~wholeRepo(repo, top) => need.by \in {None, Root, repo.at[top]} /\ need.role \in RoleNames(repo, top)
<1> DEFINE d == repo.at[top]
           needs == [ctx : {repo.at[p] : p \in Played(repo, top)}, by : Bys, role : Roles]
           leads == [n \in needs |-> NamedByRole(repo, path, n)]
           good == {n \in needs : n.by \in {None, Root, d} /\ n.role \in RoleNames(repo, top)}
<1>1. PlayNeeds(repo, top, path) = Closed(NamedByPlays(repo, top), leads) /\ DOMAIN leads = needs
  BY DEF PlayNeeds, Bys
<1>2. Visited(repo, top) \subseteq Playbooks /\ Played(repo, top) \subseteq Playbooks
  <2>1. /\ DOMAIN [p \in Playbooks |-> parsePlaybook(repo, p)] = Playbooks
        /\ DOMAIN [p \in Playbooks |-> Imports(repo, p)] = Playbooks
    OBVIOUS
  <2> QED BY <2>1, ClosedIsLeast DEF Visited, Played
<1>3. \A p \in Played(repo, top) : repo.at[p] = d
  BY DEF Followed
<1>4. d \in Dirs /\ Root \in Dirs /\ None \notin Dirs
  BY SnapshotAssumption DEF IsRepository
<1>5. \A n \in needs : n = Needs(d, n.by, n.role) /\ n.ctx = d /\ n.by \in Bys /\ n.role \in Roles
  BY <1>3 DEF Needs
<1>6. need \in needs
  <2> HIDE DEF leads, needs
  <2> QED BY <1>1, ClosedIsLeast
<1>7. ASSUME NEW P, NEW b \in Bys, NEW r
      PROVE  FoundIn(P, Looked(Needs(d, b, r), path), r) = FirstOf(P, d, path, b, r)
  <2> HIDE DEF d, needs, leads, good
  <2>1. /\ FoundIn(P, Looked(Needs(d, b, r), path), r) = FirstOf(P, d, path, b, r)
        /\ FoundIn(P, Looked(Needs(d, b, r), <<Stage, d>> \o path), r) =
             IF Role(d, r) \notin P /\ Role(Stage, r) \in P THEN Stage ELSE FirstOf(P, d, path, b, r)
    BY <1>4, LookedUp
  <2> QED BY <2>1
<1>8. ASSUME ~wholeRepo(repo, top) PROVE need \in good
  <2> DEFINE dirOf(r) == FoundIn(repo.paths, searchRoots(repo, top), r)
             metas == [r \in Roles |-> metaDependencies(repo, dirOf(r), r)]
  <2>1. /\ collectRoleNames(repo, top) \subseteq Roles => collectRoleNames(repo, top) \subseteq RoleNames(repo, top)
        /\ \A r \in RoleNames(repo, top) : r \in Roles /\ metas[r] \cap Roles \subseteq RoleNames(repo, top)
    <3>1. RoleNames(repo, top) = Closed(collectRoleNames(repo, top), metas) /\ DOMAIN metas = Roles
      BY DEF RoleNames
    <3> HIDE DEF metas
    <3> QED BY <3>1, ClosedIsLeast
  <2>2. /\ \A p \in Visited(repo, top) : Known(repo, p) = repo.items[p]
        /\ \A p \in Visited(repo, top) : \A i \in repo.items[p] : i.is # "dynamic"
    BY <1>8 DEF wholeRepo, scanTasks, Followed
  <2>3. collectRoleNames(repo, top) \subseteq Roles
    BY <1>2 DEF collectRoleNames, Named, Known, IsRepository, RoleKinds
  <2>4. NamedByPlays(repo, top) \subseteq good
    <3> SUFFICES ASSUME NEW n \in NamedByPlays(repo, top) PROVE n \in good
      OBVIOUS
    <3>1. PICK p \in Played(repo, top) : \E r \in Named(repo.items[p], RoleKinds) : n = Needs(repo.at[p], None, r)
      BY DEF NamedByPlays
    <3>0. p \in Visited(repo, top)
      BY <2>2, PlayedIsVisited
    <3>2. PICK i \in repo.items[p] : i.is \in RoleKinds /\ n = Needs(repo.at[p], None, i.of)
      BY <3>1 DEF Named
    <3>3. i.is \in {"role", "include"} /\ i.of \in Roles
      BY <1>2, <2>2, <3>0, <3>2 DEF RoleKinds, IsRepository
    <3>4. i.of \in collectRoleNames(repo, top)
      BY <2>2, <3>0, <3>3 DEF collectRoleNames, Named
    <3>5. n.by = None /\ n.role = i.of /\ n \in needs
      BY <3>1, <3>2, <3>3 DEF Needs, Bys
    <3> QED BY <2>1, <2>3, <3>4, <3>5
  <2>5. ASSUME NEW n \in good, NEW m \in NamedByRole(repo, path, n)
        PROVE  m \in good
    <3> DEFINE x == FoundIn(repo.paths, Looked(n, path), n.role)
    <3>1. x # None /\ \E r \in repo.deps[x, n.role] \cup repo.calls[x, n.role] : m = Needs(n.ctx, x, r)
      BY <2>5 DEF NamedByRole
    <3>2. n = Needs(d, n.by, n.role) /\ n.ctx = d /\ n.by \in Bys /\ n.role \in Roles
      BY <1>5
    <3>3. x = FirstOf(repo.paths, d, path, n.by, n.role)
      <4>1. FoundIn(repo.paths, Looked(Needs(d, n.by, n.role), path), n.role) = FirstOf(repo.paths, d, path, n.by, n.role)
        BY <1>7, <3>2
      <4> QED BY <3>2, <4>1
    <3>4. x \in {Root, d} /\ Role(x, n.role) \in repo.paths
      BY <2>5, <3>1, <3>3 DEF FirstOf
    <3>5. dirOf(n.role) = x
      <4>1. \A y, z \in {Root, d} : Role(y, n.role) \in repo.paths /\ Role(z, n.role) \in repo.paths => y = z
        BY <1>8, <3>2 DEF Followed
      <4>2. dirOf(n.role) = IF Role(Root, n.role) \in repo.paths THEN Root
                            ELSE IF Role(d, n.role) \in repo.paths THEN d ELSE None
        BY SearchedUp
      <4> HIDE DEF x, dirOf
      <4> QED BY <3>4, <4>1, <4>2
    <3> HIDE DEF x
    <3>6. x \in Dirs /\ repo.deps[x, n.role] \cup repo.calls[x, n.role] \subseteq metaDependencies(repo, x, n.role)
      BY <1>4, <1>8, <3>2, <3>4 DEF Followed
    <3>7. PICK r \in metaDependencies(repo, x, n.role) : m = Needs(n.ctx, x, r)
      BY <3>1, <3>6
    <3>8. metas[n.role] = metaDependencies(repo, x, n.role) /\ metas[n.role] \subseteq Roles
      BY <3>2, <3>5, <3>6 DEF metaDependencies, IsRepository
    <3>9. r \in RoleNames(repo, top) /\ r \in Roles
      BY <2>1, <3>6, <3>7, <3>8
    <3>10. m.by = x /\ m.role = r /\ m \in needs
      BY <3>2, <3>6, <3>7, <3>9 DEF Needs, Bys
    <3> QED BY <3>4, <3>9, <3>10
  <2>6. good \subseteq needs /\ \A n \in good : leads[n] \subseteq good
    BY <2>5
  <2> HIDE DEF good, leads, needs
  <2> QED BY <1>1, <2>4, <2>6, ClosedIsLeast
<1> QED BY <1>5, <1>6, <1>8

\* A role of a play is found in the snapshot where it is found in the repository, beside any staged roles;
\* with those on the search path, a staged role comes before one not beside the playbook.
LEMMA FoundAlike ==
  ASSUME NEW repo, IsRepository(repo), NEW top \in Playbooks, Followed(repo, top),
         NEW path \in RolesPaths, NEW need \in PlayNeeds(repo, top, path),
         NEW S, \A x \in Dirs : Role(x, need.role) \notin S,
         NEW was, was = FoundIn(repo.paths, Looked(need, path), need.role)
  PROVE  LET P == BuildPlaybookSnapshot(repo, top) \cup S
         IN /\ FoundIn(P, Looked(need, path), need.role) = was
            /\ FoundIn(P, Looked(need, <<Stage, repo.at[top]>> \o path), need.role)
                 = IF Role(Stage, need.role) \in S /\ was # need.ctx THEN Stage ELSE was
<1> DEFINE d == repo.at[top]
           K == BuildPlaybookSnapshot(repo, top)
           P == K \cup S
<1>1. /\ need = Needs(d, need.by, need.role) /\ need.by \in Bys
      /\ ~wholeRepo(repo, top) => need.by \in {None, Root, d} /\ need.role \in RoleNames(repo, top)
  BY NeedsAreResolved
<1>2. d \in Dirs /\ Root \in Dirs /\ None \notin Dirs /\ Stage \notin Dirs
  BY SnapshotAssumption, ContentAssumption DEF IsRepository
<1>3. wholeRepo(repo, top) => K = repo.paths
  BY SnapshotKeeps
<1>4. K \subseteq repo.paths
  BY SnapshotIsOfTheRepo
<1>5. ASSUME ~wholeRepo(repo, top), NEW y \in {Root, d}
      PROVE  Role(y, need.role) \in K <=> Role(y, need.role) \in repo.paths
  <2>2. ASSUME Role(y, need.role) \in repo.paths PROVE Role(y, need.role) \in K
    <3> DEFINE x == FoundIn(repo.paths, searchRoots(repo, top), need.role)
    <3>1. x = IF Role(Root, need.role) \in repo.paths THEN Root
              ELSE IF Role(d, need.role) \in repo.paths THEN d ELSE None
      BY SearchedUp
    <3>2. need.role \in RoleNames(repo, top) /\ need.role \in Roles
      <4>1. DOMAIN [r \in Roles |-> metaDependencies(repo, FoundIn(repo.paths, searchRoots(repo, top), r), r)] = Roles
        OBVIOUS
      <4> QED BY <1>1, <1>5, <4>1, ClosedIsLeast DEF RoleNames
    <3>3. x = y /\ x # None
      <4>1. \A e, f \in {Root, d} : Role(e, need.role) \in repo.paths /\ Role(f, need.role) \in repo.paths => e = f
        BY <1>5, <3>2 DEF Followed
      <4> HIDE DEF x
      <4> QED BY <1>2, <2>2, <3>1, <4>1
    <3>4. Role(x, need.role) \in resolveRoleDirs(repo, top)
      BY <3>2, <3>3 DEF resolveRoleDirs, RoleNames
    <3> HIDE DEF x
    <3> QED BY <3>3, <3>4, SnapshotKeeps
  <2> QED BY <1>4, <2>2
<1>6. /\ \A x \in Dirs : Role(x, need.role) \in P <=> Role(x, need.role) \in K
      /\ Role(Stage, need.role) \in P <=> Role(Stage, need.role) \in S
  <2>1. \A p \in K : p[1] \in Dirs
    BY <1>4 DEF IsRepository
  <2>2. Role(Stage, need.role) \notin K
    BY <1>2, <2>1 DEF Role
  <2> QED BY <2>2
<1> HIDE DEF K, P
<1>7. ASSUME NEW Q
      PROVE  /\ FoundIn(Q, Looked(need, path), need.role) = FirstOf(Q, d, path, need.by, need.role)
             /\ FoundIn(Q, Looked(need, <<Stage, d>> \o path), need.role)
                  = IF Role(d, need.role) \notin Q /\ Role(Stage, need.role) \in Q THEN Stage
                    ELSE FirstOf(Q, d, path, need.by, need.role)
  <2> HIDE DEF d
  <2>1. Needs(d, need.by, need.role) = need
    BY <1>1
  <2> QED BY <1>1, <1>2, <2>1, LookedUp
<1>8. FirstOf(P, d, path, need.by, need.role) = FirstOf(repo.paths, d, path, need.by, need.role)
  <2>1. need.by # None => need.by \in Dirs
    BY <1>1 DEF Bys
  <2>2. CASE wholeRepo(repo, top)
    BY <1>2, <1>3, <1>6, <2>1, <2>2 DEF FirstOf
  <2>3. CASE ~wholeRepo(repo, top)
    BY <1>1, <1>2, <1>5, <1>6, <2>1, <2>3 DEF FirstOf
  <2> QED BY <2>2, <2>3
<1>9. was = FirstOf(repo.paths, d, path, need.by, need.role)
  BY <1>7
<1>10. was = d <=> Role(d, need.role) \in P
  <2>1. Role(d, need.role) \in P <=> Role(d, need.role) \in repo.paths
    BY <1>2, <1>3, <1>5, <1>6
  <2>2. was = d <=> Role(d, need.role) \in repo.paths
    BY <1>2, <1>9 DEF FirstOf
  <2> QED BY <2>1, <2>2
<1>11. need.ctx = d
  BY <1>1 DEF Needs
<1>12. FoundIn(P, Looked(need, path), need.role) = was
  BY <1>7, <1>8, <1>9
<1>13. FoundIn(P, Looked(need, <<Stage, d>> \o path), need.role)
         = IF Role(Stage, need.role) \in S /\ was # need.ctx THEN Stage ELSE was
  BY <1>6, <1>7, <1>8, <1>9, <1>10, <1>11
<1> QED BY <1>12, <1>13 DEF P, K

-----------------------------------------------------------------------------
(* The inductive invariants. *)

\* Before the requirements are installed there is nothing but the cache's collections and roles, and the
\* entries counted as installed from it are staged, those of an unwritten list aside.
Untouched == {"sync", "job", "resolve", "fetch", "collections"}
FromTheCache(s) == \E e \in fetched : e.of \in Galaxy /\ s = Staged(e.of, "", e.v, "cache")
SeededInv ==
  /\ step \in Untouched => staged = {} /\ seeded = {}
  /\ step \in Untouched \cup {"roles", "rewrite"} => fromgit = {}
  /\ step = "roles" => \A s \in staged : s.of \in Collections
  /\ step \in Untouched \cup {"roles", "rewrite", "install"} => \A s \in staged : FromTheCache(s)
  /\ step \in {"roles", "rewrite", "install"} => \A e \in seeded \ unlisted : Staged(e.of, "", e.v, "cache") \in staged
  /\ step = "installroles" =>
       \A e \in seeded \ unlisted : e.of \in GalaxyRoles => Staged(e.of, "", e.v, "cache") \in staged
  /\ step \in Untouched \cup {"roles"} => unlisted = {}
  /\ \A u \in unlisted : u.of \in GalaxyRoles
  /\ \A e \in seeded : e.of \in Galaxy
  /\ \A s \in staged : s.by = "cache" /\ s.of \in Collections => [of |-> s.of, v |-> s.v] \in seeded

\* A served name that was seeded is a collection at another version, or of the roles of an unwritten list.
NotTaken(of, v) == \A e \in seeded : e.of = of => (of \in Collections /\ e.v # v) \/ e \in unlisted
\* What the collections' install leaves: nothing a server served was seeded, and a git source that was
\* not installed from an archive was cloned.
PlacedInv ==
  step = "installroles" \/ installed = "staged" =>
    /\ \A s \in staged : s.by = "server" => s.of \in Galaxy /\ NotTaken(s.of, s.v)
    /\ \A r \in Of(GitSources) : r \notin fromgit => \E s \in staged : s.of = r.of /\ s.by = "git"
ManifestInv == installed = "staged" => manifest = installedBeyond(staged)

\* The commits a job installs git sources at, and the archives that stand for them.
CommitInv ==
  /\ \A n \in Names : began[n] <= upstream[n]
  /\ \A r \in Of(GitSources) :
       commits[r] # Unresolved => IF r.ref = 0 THEN commits[r] >= began[r.of] ELSE commits[r] = r.ref
  /\ step \in {"sync", "job", "resolve"} => \A r \in Of(GitSources) : commits[r] = Unresolved
  /\ fromgit \subseteq gitDirs
  /\ \A s \in staged : s.by = "dir" => \E r \in fromgit : s.of = r.of /\ s.sub = r.sub /\ s.v = commits[r]

\* A job runs from the snapshot of its playbook, or ends.
SnapInv ==
  /\ snap = None \/ snap = BuildPlaybookSnapshot(given.repo, Top)
  /\ step \in {"play"} \cup Installing => snap # None

IInv == given \in Givens /\ TypeOK /\ SnapInv /\ SeededInv /\ PlacedInv /\ ManifestInv /\ CommitInv

-----------------------------------------------------------------------------
(* The data. *)

LEMMA GivenType ==
  ASSUME given \in Givens
  PROVE  /\ given.reqs \subseteq Requirement /\ given.entries \subseteq Entry /\ Unambiguous(given)
         /\ \A ns : Of(ns) \subseteq Requirement
         /\ MaxMoves \in Nat /\ \A v \in Versions : v \in Nat /\ v # 0
  BY ContentAssumption DEF Of, Versions

\* An archive of a requirement is at the commit the requirement resolved to.
LEMMA ArchivedIsTheCommit ==
  ASSUME NEW r \in gitDirs
  PROVE  Archived(r) = commits[r]
  BY DEF gitDirs, Archives, Archived

\* What an install puts in place for a requirement, and where it comes from.
LEMMA PlacedType ==
  ASSUME TypeOK, given \in Givens, CommitInv, NEW r \in given.reqs, r.ref <= upstream[r.of]
  PROVE  /\ Placed(r) \in Content
         /\ Placed(r).of = r.of /\ Placed(r).sub = IF r.of \in GitSources THEN r.sub ELSE ""
         /\ Placed(r).by = "server" <=> r.of \in Galaxy
         /\ Placed(r).by = "git" <=> r.of \in GitSources /\ r \notin fromgit
         /\ Placed(r).by = "dir" <=> r \in fromgit
         /\ Placed(r).by # "cache"
         /\ r \in fromgit => Placed(r).v = commits[r]
         /\ r.of \in Galaxy => Placed(r).v = Newest(r)
<1>1. r \in Requirement /\ r.of \in Names
  BY GivenType DEF Requirement
<1>2. r \in fromgit => r.of \in GitSources /\ commits[r] \in Versions /\ Archived(r) = commits[r]
  BY <1>1, ArchivedIsTheCommit DEF TypeOK, CommitInv, Of
<1>3. Newest(r) \in Versions
  BY <1>1 DEF Newest, Requirement, TypeOK
<1>4. r.of \in Galaxy <=> r.of \notin GitSources
  BY <1>1, ContentAssumption DEF Galaxy, Names
<1> QED
  BY <1>1, <1>2, <1>3, <1>4 DEF Placed, Staged, Requirement, Content

\* An install keeps one thing of a name.
LEMMA AfterType ==
  ASSUME TypeOK, given \in Givens, CommitInv, NEW rs \in SUBSET given.reqs, \A r \in rs : r.ref <= upstream[r.of]
  PROVE  /\ After(rs) \subseteq Content
         /\ \A s, t \in After(rs) : s.of = t.of /\ s.sub = t.sub => s = t
<1> DEFINE new == {r \in rs : r.of \in GitSources \/ ~Satisfied(r)}
           kept == {s \in staged : \A r \in new : s.of # r.of}
<1>1. After(rs) = kept \cup {Placed(r) : r \in new}
  BY DEF After
<1>2. \A r \in new : /\ r \in given.reqs
                     /\ Placed(r) \in Content
                     /\ Placed(r).of = r.of /\ Placed(r).sub = IF r.of \in GitSources THEN r.sub ELSE ""
  BY PlacedType
<1>3. \A r, q \in new : Placed(r).of = Placed(q).of /\ Placed(r).sub = Placed(q).sub => r = q
  BY <1>2, GivenType DEF Unambiguous
<1>4. kept \subseteq staged /\ \A s \in kept, r \in new : s.of # Placed(r).of
  BY <1>2
<1> HIDE DEF new, kept
<1>5. After(rs) \subseteq Content
  BY <1>1, <1>2, <1>4 DEF TypeOK
<1>6. ASSUME NEW s \in After(rs), NEW t \in After(rs), s.of = t.of, s.sub = t.sub
      PROVE  s = t
  <2>1. CASE s \in kept /\ t \in kept
    BY <1>4, <1>6, <2>1 DEF TypeOK
  <2>2. CASE ~(s \in kept /\ t \in kept)
    <3>1. PICK r \in new, q \in new : s = Placed(r) /\ t = Placed(q)
      BY <1>1, <1>4, <1>6, <2>2
    <3> QED BY <1>3, <1>6, <3>1
  <2> QED BY <2>1, <2>2
<1> QED
  BY <1>5, <1>6

\* What is seeded from the cache: at most one thing of a name.
LEMMA CachedType ==
  ASSUME TypeOK, given \in Givens, NEW ns \in SUBSET Galaxy
  PROVE  /\ FromCache(Cached(ns)) \subseteq Content
         /\ \A s \in FromCache(Cached(ns)) : s.of \in ns /\ s.sub = "" /\ s.by = "cache"
         /\ \A s \in FromCache(Cached(ns)) : [of |-> s.of, v |-> s.v] \in Cached(ns)
         /\ \A s, t \in FromCache(Cached(ns)) : s.of = t.of => s = t
<1>1. \A e \in Cached(ns) : e \in given.entries /\ e \in Entry /\ e.of \in ns /\ e.of \in Galaxy
  BY GivenType DEF Cached, TypeOK
<1>2. \A e \in Cached(ns) : e = [of |-> e.of, v |-> e.v] /\ e.of \in Names /\ e.v \in Versions
  BY <1>1 DEF Entry
<1>3. \A d, e \in Cached(ns) : d.of = e.of => d = e
  BY <1>1, GivenType DEF Unambiguous
<1>4. ASSUME NEW s \in FromCache(Cached(ns))
      PROVE  \E e \in Cached(ns) : s = [of |-> e.of, sub |-> "", v |-> e.v, by |-> "cache"]
  BY DEF FromCache, Staged
<1>5. ASSUME NEW s \in FromCache(Cached(ns))
      PROVE  s \in Content /\ s.of \in ns /\ s.sub = "" /\ s.by = "cache" /\ [of |-> s.of, v |-> s.v] \in Cached(ns)
  <2>1. PICK e \in Cached(ns) : s = [of |-> e.of, sub |-> "", v |-> e.v, by |-> "cache"]
    BY <1>4
  <2> QED BY <1>1, <1>2, <2>1 DEF Content
<1>6. ASSUME NEW s \in FromCache(Cached(ns)), NEW t \in FromCache(Cached(ns)), s.of = t.of
      PROVE  s = t
  <2>1. PICK e \in Cached(ns) : s = [of |-> e.of, sub |-> "", v |-> e.v, by |-> "cache"]
    BY <1>4
  <2>2. PICK d \in Cached(ns) : t = [of |-> d.of, sub |-> "", v |-> d.v, by |-> "cache"]
    BY <1>4
  <2> QED BY <1>3, <1>6, <2>1, <2>2
<1> QED
  BY <1>5, <1>6

-----------------------------------------------------------------------------
(* The steps. *)

LEMMA InitContent == Init => IInv
<1> SUFFICES ASSUME Init PROVE IInv
  OBVIOUS
<1>1. given \in Givens /\ MaxMoves \in Nat /\ 1 \in Versions
  BY ContentAssumption DEF Init, Versions
<1>2. TypeOK
  BY <1>1 DEF Init, TypeOK, Of, Entry, Content
<1>3. SnapInv /\ SeededInv /\ PlacedInv /\ ManifestInv
  BY <1>1 DEF Init, SnapInv, Installing, SeededInv, PlacedInv, ManifestInv
<1>4. CommitInv
  BY <1>1 DEF Init, CommitInv, Of, gitDirs, Versions
<1> QED
  BY <1>1, <1>2, <1>3, <1>4 DEF IInv

\* What the job is given stays, and its requirements with it.
LEMMA GivenStays ==
  ASSUME [Next]_vars
  PROVE  given' = given /\ \A ns : Of(ns)' = Of(ns)
BY DEF Next, vars, Capture, Extract, Install, gitCommits, FetchCached, seedCollections, seedRoles,
       rewriteGitRequirements, InstallCollections, InstallRoles, PlayRuns, Expire, Stop, Ends, Publish, Unmoved, Taken, Of

LEMMA NextTypeOK == IInv /\ [Next]_vars => TypeOK'
<1> SUFFICES ASSUME IInv, [Next]_vars PROVE TypeOK'
  OBVIOUS
<1> USE DEF IInv
<1>0. given' = given /\ \A ns : Of(ns)' = Of(ns)
  BY GivenStays
<1>g. /\ given.reqs \subseteq Requirement /\ given.entries \subseteq Entry /\ Unambiguous(given)
      /\ MaxMoves \in Nat /\ \A v \in Versions : v \in Nat /\ v # 0
  BY GivenType
<1>1. CASE Capture
  <2>1. snap' = None \/ snap' \subseteq given.repo.paths
    BY <1>1, SnapshotIsOfTheRepo, ContentAssumption DEF Capture, TypeOK, Taken
  <2> QED BY <1>0, <1>1, <2>1 DEF Capture, TypeOK, Unmoved, Taken, Installing
<1>2. CASE Extract
  BY <1>0, <1>2 DEF Extract, TypeOK, Installing, Taken
<1>3. CASE gitCommits
  <2>1. fromgit = {}
    BY <1>3 DEF gitCommits, SeededInv, Untouched, Taken
  <2> QED BY <1>0, <1>3, <2>1 DEF gitCommits, TypeOK, Installing, Unmoved, Taken
<1>4. CASE FetchCached
  <2>1. seeded = {}
    BY <1>4 DEF FetchCached, SeededInv, Untouched, Taken
  <2> QED BY <1>0, <1>4, <2>1 DEF FetchCached, TypeOK, Installing, Unmoved, Taken
<1>5. CASE seedCollections
  <2>1. staged = {} /\ seeded = {}
    BY <1>5 DEF seedCollections, SeededInv, Untouched, Taken
  <2>2. FromCache(Cached(Collections)) \subseteq Content
    BY CachedType DEF Galaxy
  <2>3. \A s, t \in FromCache(Cached(Collections)) : s.of = t.of => s = t
    BY CachedType DEF Galaxy
  <2>4. staged' \subseteq FromCache(Cached(Collections)) /\ seeded' \subseteq fetched
    BY <1>5, <2>1 DEF seedCollections, Cached, Taken
  <2>5. staged' \subseteq Content /\ \A s, t \in staged' : s.of = t.of => s = t
    BY <2>2, <2>3, <2>4
  <2> QED BY <1>0, <1>5, <2>4, <2>5 DEF seedCollections, TypeOK, Installing, Unmoved, Before, Taken
<1>6. CASE seedRoles
  <2>1. \A s \in staged : s.of \in Collections
    BY <1>6 DEF seedRoles, SeededInv, Taken
  <2>2. FromCache(Cached(GalaxyRoles)) \subseteq Content
    BY CachedType DEF Galaxy
  <2>3. \A s, t \in FromCache(Cached(GalaxyRoles)) : s.of = t.of => s = t
    BY CachedType DEF Galaxy
  <2>4. \A s \in FromCache(Cached(GalaxyRoles)) : s.of \in GalaxyRoles
    BY CachedType DEF Galaxy
  <2>5. staged' \subseteq staged \cup FromCache(Cached(GalaxyRoles)) /\ seeded' \subseteq fetched
    BY <1>6 DEF seedRoles, Cached, FromCache, TypeOK, Taken
  <2>6. staged' \subseteq Content
    BY <2>2, <2>5 DEF TypeOK
  <2>7. \A s, t \in staged' : s.of = t.of /\ s.sub = t.sub => s = t
    BY <2>1, <2>3, <2>4, <2>5, ContentAssumption DEF TypeOK
  <2> QED BY <1>0, <1>6, <2>5, <2>6, <2>7 DEF seedRoles, TypeOK, Installing, Unmoved, Before, Taken
<1>7. CASE rewriteGitRequirements
  <2>1. gitDirs \subseteq {r \in Of(GitSources) : commits[r] # Unresolved}
    <3>1. ASSUME NEW r \in gitDirs PROVE commits[r] # Unresolved
      <4>1. PICK e \in fetched : e.v = commits[r]
        BY DEF gitDirs, Archives
      <4> QED BY <1>g, <4>1 DEF TypeOK, Entry, Unresolved
    <3> QED BY <3>1 DEF gitDirs
  <2> QED BY <1>0, <1>7, <2>1 DEF rewriteGitRequirements, TypeOK, Installing, Unmoved, Before, Taken
<1>8. CASE InstallCollections
  <2>1. CASE Answers(Of(Collections \cup GitSources)) /\ staged' = After(Of(Collections \cup GitSources)) /\ UNCHANGED installed
             /\ step' = "installroles"
    <3>1. Of(Collections \cup GitSources) \subseteq given.reqs
      BY DEF Of
    <3>2. staged' \subseteq Content /\ \A s, t \in staged' : s.of = t.of /\ s.sub = t.sub => s = t
      BY <2>1, <3>1, AfterType DEF Answers
    <3> QED BY <1>0, <1>8, <2>1, <3>2 DEF InstallCollections, TypeOK, Installing, Unmoved, Before, Taken
  <2>2. CASE step' = Onward /\ installed' = "failed" /\ UNCHANGED staged
    BY <1>0, <1>8, <2>2 DEF InstallCollections, TypeOK, Installing, Unmoved, Before, Taken, Onward
  <2> QED BY <1>8, <2>1, <2>2 DEF InstallCollections, Taken
<1>9. CASE InstallRoles
  <2>1. PICK some \in SUBSET Of(GalaxyRoles) :
          /\ Answers(some) \/ some = {}
          /\ staged' = After(some) /\ manifest' = installedBeyond(After(some))
    BY <1>9 DEF InstallRoles, Taken
  <2>2. some \subseteq given.reqs /\ \A r \in some : r.ref <= upstream[r.of]
    BY <2>1 DEF Of, Answers
  <2>3. staged' \subseteq Content /\ \A s, t \in staged' : s.of = t.of /\ s.sub = t.sub => s = t
    BY <2>1, <2>2, AfterType
  <2>4. servedBeyond(After(some)) \subseteq Entry
    <3>1. \A s \in After(some) : s.of \in Names /\ s.v \in Versions
      BY <2>1, <2>3 DEF Content
    <3> QED BY <3>1 DEF servedBeyond, Served, Entry
  <2>5. gitBeyond \subseteq Entry
    <3>1. \A r \in Of(GitSources) : r.of \in Names /\ (commits[r] # Unresolved => commits[r] \in Versions)
      BY <1>g DEF TypeOK, Of, Requirement
    <3> QED BY <3>1 DEF gitBeyond, Entry
  <2>6. manifest' \subseteq Entry
    BY <2>1, <2>4, <2>5 DEF installedBeyond
  <2> QED BY <1>0, <1>9, <2>3, <2>6 DEF InstallRoles, TypeOK, Installing, Unmoved, Before, Taken, Onward
<1>10. CASE PlayRuns
  BY <1>0, <1>10 DEF PlayRuns, TypeOK, Before, Taken
<1>11. CASE Expire \/ Stop
  BY <1>0, <1>11 DEF Expire, Stop, Ends, TypeOK, Unmoved, Before, Taken
<1>12. ASSUME NEW n \in Names, Publish(n) PROVE TypeOK'
  <2>1. upstream[n] + 1 \in Versions
    BY <1>12, <1>g DEF Publish, TypeOK, Versions, Taken
  <2>2. upstream' \in [Names -> Versions]
    BY <1>12, <2>1 DEF Publish, TypeOK, Taken
  <2> QED BY <1>0, <1>12, <2>2 DEF Publish, TypeOK, Before, Taken
<1>13. CASE UNCHANGED vars
  BY <1>0, <1>13 DEF vars, TypeOK
<1> QED
  BY <1>1, <1>2, <1>3, <1>4, <1>5, <1>6, <1>7, <1>8, <1>9, <1>10, <1>11, <1>12, <1>13 DEF Next, Install

\* What an install leaves of the cache's, and what it adds.
LEMMA AfterKeeps ==
  ASSUME TypeOK, given \in Givens, CommitInv, NEW rs \in SUBSET given.reqs, \A r \in rs : r.ref <= upstream[r.of]
  PROVE  /\ \A s \in After(rs) : s.by = "server" =>
              s \in staged \/ \E r \in rs : s.of = r.of /\ r.of \in Galaxy /\ ~Satisfied(r) /\ s.v = Newest(r)
         /\ \A s \in After(rs) : s.by = "dir" =>
              s \in staged \/ \E r \in fromgit : s.of = r.of /\ s.sub = r.sub /\ s.v = commits[r]
         /\ \A s \in After(rs) : s.by = "cache" => s \in staged
         /\ \A s \in staged : (\A r \in rs : r.of # s.of) => s \in After(rs)
         /\ \A r \in rs : r.of \in GitSources /\ r \notin fromgit =>
              \E s \in After(rs) : s.of = r.of /\ s.by = "git"
<1> DEFINE new == {r \in rs : r.of \in GitSources \/ ~Satisfied(r)}
<1>1. After(rs) = {s \in staged : \A r \in new : s.of # r.of} \cup {Placed(r) : r \in new}
  BY DEF After
<1>2. ASSUME NEW r \in new
      PROVE  /\ Placed(r).of = r.of /\ Placed(r).by # "cache"
             /\ Placed(r).by = "server" <=> r.of \in Galaxy
             /\ Placed(r).by = "server" => ~Satisfied(r) /\ Placed(r).v = Newest(r)
             /\ Placed(r).by = "dir" => r \in fromgit /\ Placed(r).sub = r.sub /\ Placed(r).v = commits[r]
  <2>1. r \in given.reqs /\ r.ref <= upstream[r.of] /\ (r.of \in Galaxy => r.of \notin GitSources)
    BY ContentAssumption DEF Galaxy
  <2>2. r \in fromgit => r.of \in GitSources
    BY DEF TypeOK, Of
  <2> QED BY <2>1, <2>2, PlacedType
<1>3. ASSUME NEW r \in rs, r.of \in GitSources, r \notin fromgit
      PROVE  \E s \in After(rs) : s.of = r.of /\ s.by = "git"
  BY <1>1, <1>3, PlacedType
<1> HIDE DEF new
<1> HIDE DEF new
<1>4. new \subseteq rs
  BY DEF new
<1>5. \A s \in After(rs) : s \in staged \/ \E r \in new : s = Placed(r)
  BY <1>1
<1>6. ASSUME NEW s \in After(rs), s.by = "server"
      PROVE  s \in staged \/ \E r \in rs : s.of = r.of /\ r.of \in Galaxy /\ ~Satisfied(r) /\ s.v = Newest(r)
  BY <1>2, <1>4, <1>5, <1>6
<1>7. ASSUME NEW s \in After(rs), s.by = "dir"
      PROVE  s \in staged \/ \E r \in fromgit : s.of = r.of /\ s.sub = r.sub /\ s.v = commits[r]
  BY <1>2, <1>5, <1>7
<1>8. \A s \in After(rs) : s.by = "cache" => s \in staged
  BY <1>2, <1>5
<1>9. \A s \in staged : (\A r \in rs : r.of # s.of) => s \in After(rs)
  BY <1>1, <1>4
<1> QED
  BY <1>3, <1>6, <1>7, <1>8, <1>9

\* What came from the cache is marked so.
LEMMA CacheIsMarked ==
  /\ \A s : FromTheCache(s) => s.by = "cache"
  /\ \A es : \A s \in FromCache(es) : s.by = "cache"
<1>1. ASSUME NEW s, FromTheCache(s) PROVE s.by = "cache"
  <2>1. PICK e \in fetched : s = Staged(e.of, "", e.v, "cache")
    BY <1>1 DEF FromTheCache
  <2> QED BY <2>1 DEF Staged
<1>2. ASSUME NEW es, NEW s \in FromCache(es) PROVE s.by = "cache"
  <2>1. PICK e \in es : s = Staged(e.of, "", e.v, "cache")
    BY <1>2 DEF FromCache
  <2> QED BY <2>1 DEF Staged
<1> QED
  BY <1>1, <1>2

\* A server never serves what was seeded from the cache.
LEMMA ServedIsNotSeeded ==
  ASSUME NEW r, r.of \in Galaxy, ~Satisfied(r),
         \A e \in seeded \ unlisted : e.of = r.of => Staged(e.of, "", e.v, "cache") \in staged
  PROVE  NotTaken(r.of, Newest(r))
<1> SUFFICES ASSUME NEW e \in seeded, e.of = r.of, e \notin unlisted
             PROVE  r.of \in Collections /\ e.v # Newest(r)
  BY DEF NotTaken
<1>1. Staged(e.of, "", e.v, "cache") \in staged
  OBVIOUS
<1>2. Staged(e.of, "", e.v, "cache").of = r.of /\ Staged(e.of, "", e.v, "cache").v = e.v
  BY DEF Staged
<1>3. r.of \notin GalaxyRoles /\ r.ref # 0 /\ r.ref # e.v
  BY <1>1, <1>2 DEF Satisfied
<1> QED
  BY <1>3 DEF Newest, Galaxy

LEMMA NextSnap == IInv /\ [Next]_vars => SnapInv'
<1> SUFFICES ASSUME IInv, [Next]_vars PROVE SnapInv'
  OBVIOUS
<1>0. given' = given /\ SnapInv /\ TypeOK
  BY GivenStays DEF IInv
<1>1. CASE Capture
  BY <1>0, <1>1 DEF Capture, SnapInv, Installing, Taken
<1>2. CASE Extract
  BY <1>0, <1>2 DEF Extract, SnapInv, Installing, Taken
<1>3. CASE Install
  BY <1>0, <1>3 DEF Install, gitCommits, FetchCached, seedCollections, seedRoles, rewriteGitRequirements,
                    InstallCollections, InstallRoles, Before, Taken, Onward, SnapInv, Installing
<1>4. CASE PlayRuns \/ UNCHANGED vars \/ Expire \/ Stop \/ \E n \in Names : Publish(n)
  BY <1>0, <1>4 DEF PlayRuns, vars, Expire, Stop, Ends, Publish, Before, Taken, SnapInv, Installing
<1> QED
  BY <1>1, <1>2, <1>3, <1>4 DEF Next

LEMMA NextSeeded == IInv /\ [Next]_vars => SeededInv'
<1> SUFFICES ASSUME IInv, [Next]_vars PROVE SeededInv'
  OBVIOUS
<1> USE DEF IInv
<1>0. given' = given /\ \A ns : Of(ns)' = Of(ns)
  BY GivenStays
<1>1. CASE Capture \/ Extract \/ gitCommits \/ PlayRuns
  BY <1>0, <1>1 DEF Capture, Extract, gitCommits, PlayRuns, SeededInv, Untouched, FromTheCache, Unmoved, Before, Taken
<1>2. CASE FetchCached
  BY <1>0, <1>2 DEF FetchCached, SeededInv, Untouched, FromTheCache, Unmoved, Taken
<1>3. CASE seedCollections
  <2>1. staged = {} /\ seeded = {} /\ unlisted = {} /\ fromgit = {}
    BY <1>3 DEF seedCollections, SeededInv, Untouched, Taken
  <2>2. step' = "roles" /\ UNCHANGED <<fetched, unlisted, fromgit>>
    BY <1>3 DEF seedCollections, Before, Taken
  <2>3. \/ staged' = FromCache(Cached(Collections)) /\ seeded' = Cached(Collections)
        \/ staged' = {} /\ seeded' = {}
    BY <1>3, <2>1 DEF seedCollections, Taken
  <2>4. \A s \in FromCache(Cached(Collections)) :
          s.of \in Collections /\ [of |-> s.of, v |-> s.v] \in Cached(Collections) /\ FromTheCache(s)
    <3>1. \A s \in FromCache(Cached(Collections)) :
            s.of \in Collections /\ [of |-> s.of, v |-> s.v] \in Cached(Collections)
      BY CachedType DEF Galaxy
    <3>2. \A s \in FromCache(Cached(Collections)) : FromTheCache(s)
      BY DEF FromCache, Cached, FromTheCache, Galaxy
    <3> QED BY <3>1, <3>2
  <2>5. \A e \in Cached(Collections) : e.of \in Galaxy /\ Staged(e.of, "", e.v, "cache") \in FromCache(Cached(Collections))
    BY DEF FromCache, Cached, Galaxy
  <2> QED BY <2>1, <2>2, <2>3, <2>4, <2>5 DEF SeededInv, Untouched, FromTheCache
<1>4. CASE seedRoles
  <2>1. fromgit = {} /\ unlisted = {} /\ \A e \in seeded : Staged(e.of, "", e.v, "cache") \in staged
    BY <1>4 DEF seedRoles, SeededInv, Untouched, Taken
  <2>2. step' = "rewrite" /\ UNCHANGED <<fetched, fromgit>>
    BY <1>4 DEF seedRoles, Before, Taken
  <2>3. \/ /\ staged' = staged \cup FromCache(Cached(GalaxyRoles)) /\ seeded' = seeded \cup Cached(GalaxyRoles)
           /\ unlisted' = unlisted
        \/ /\ \E some \in SUBSET Cached(GalaxyRoles) : staged' = staged \cup FromCache(some)
           /\ seeded' = seeded /\ unlisted' = unlisted
        \/ staged' = staged /\ seeded' = seeded \cup Cached(GalaxyRoles) /\ unlisted' = Cached(GalaxyRoles)
    BY <1>4 DEF seedRoles, Taken
  <2>4. \A some \in SUBSET Cached(GalaxyRoles) : \A s \in FromCache(some) : FromTheCache(s)
    BY DEF FromCache, Cached, FromTheCache, Galaxy
  <2>5. \A some \in SUBSET Cached(GalaxyRoles) : \A s \in FromCache(some) : s.of \in GalaxyRoles
    <3>1. \A e \in Cached(GalaxyRoles) : e.of \in GalaxyRoles /\ Staged(e.of, "", e.v, "cache").of = e.of
      BY DEF Cached, Staged
    <3> QED BY <3>1 DEF FromCache
  <2>6. \A e \in Cached(GalaxyRoles) : e.of \in Galaxy /\ Staged(e.of, "", e.v, "cache") \in FromCache(Cached(GalaxyRoles))
    BY DEF FromCache, Cached, Galaxy
  <2>7. \A s \in staged : FromTheCache(s)
    BY <1>4 DEF seedRoles, SeededInv, Taken
  <2>8. \A s \in staged' : FromTheCache(s)
    BY <2>3, <2>4, <2>7
  <2>9. \A s \in staged' : s \in staged \/ s.of \notin Collections
    BY <2>3, <2>5, ContentAssumption
  <2>10. seeded \subseteq seeded' /\ staged \subseteq staged'
    BY <2>3
  <2>11. /\ \A e \in seeded' : e.of \in Galaxy
         /\ \A e \in seeded' \ unlisted' : Staged(e.of, "", e.v, "cache") \in staged'
    BY <2>1, <2>3, <2>6 DEF SeededInv
  <2>12. \A u \in unlisted' : u.of \in GalaxyRoles
    BY <2>1, <2>3 DEF Cached
  <2> QED BY <2>1, <2>2, <2>8, <2>9, <2>10, <2>11, <2>12 DEF SeededInv, Untouched, FromTheCache
<1>5. CASE rewriteGitRequirements
  BY <1>0, <1>5 DEF rewriteGitRequirements, SeededInv, Untouched, FromTheCache, Unmoved, Before, Taken
<1>6. CASE InstallCollections
  <2>1. CASE /\ Answers(Of(Collections \cup GitSources)) /\ staged' = After(Of(Collections \cup GitSources))
             /\ step' = "installroles"
    <3>1. /\ Of(Collections \cup GitSources) \subseteq given.reqs
          /\ \A r \in Of(Collections \cup GitSources) : r.ref <= upstream[r.of] /\ r.of \notin GalaxyRoles
      BY <2>1, ContentAssumption DEF Of, Answers
    <3>2. \A s \in staged' : s.by = "cache" => s \in staged
      BY <2>1, <3>1, AfterKeeps
    <3>3. \A s \in staged : s.of \in GalaxyRoles => s \in staged'
      BY <2>1, <3>1, AfterKeeps
    <3>4. \A e \in seeded \ unlisted : e.of \in GalaxyRoles => Staged(e.of, "", e.v, "cache") \in staged'
      <4>1. \A e \in seeded \ unlisted : Staged(e.of, "", e.v, "cache") \in staged
        BY <1>6 DEF InstallCollections, SeededInv, Taken
      <4>2. \A e : Staged(e.of, "", e.v, "cache").of = e.of
        BY DEF Staged
      <4> QED BY <3>3, <4>1, <4>2
    <3> QED BY <1>6, <2>1, <3>2, <3>4 DEF InstallCollections, SeededInv, Untouched, Before, Taken
  <2>2. CASE step' = Onward /\ UNCHANGED staged
    BY <1>6, <2>2 DEF InstallCollections, SeededInv, Untouched, Before, Taken, Onward
  <2> QED BY <1>6, <2>1, <2>2 DEF InstallCollections, Taken
<1>7. CASE InstallRoles
  <2>1. PICK some \in SUBSET Of(GalaxyRoles) : (Answers(some) \/ some = {}) /\ staged' = After(some)
    BY <1>7 DEF InstallRoles, Taken
  <2>2. some \subseteq given.reqs /\ \A r \in some : r.ref <= upstream[r.of]
    BY <2>1 DEF Of, Answers
  <2>3. \A s \in staged' : s.by = "cache" => s \in staged
    BY <2>1, <2>2, AfterKeeps
  <2> QED BY <1>7, <2>3 DEF InstallRoles, SeededInv, Untouched, Before, Taken, Onward
<1>8. CASE Expire \/ Stop
  BY <1>8 DEF Expire, Stop, Ends, SeededInv, FromTheCache, Before, Taken
<1>9. ASSUME NEW n \in Names, Publish(n) PROVE SeededInv'
  BY <1>9 DEF Publish, SeededInv, FromTheCache, Before, Taken
<1>10. CASE UNCHANGED vars
  BY <1>10 DEF vars, SeededInv, FromTheCache
<1> QED
  BY <1>1, <1>2, <1>3, <1>4, <1>5, <1>6, <1>7, <1>8, <1>9, <1>10 DEF Next, Install

LEMMA NextPlaced == IInv /\ [Next]_vars => PlacedInv' /\ ManifestInv'
<1> SUFFICES ASSUME IInv, [Next]_vars PROVE PlacedInv' /\ ManifestInv'
  OBVIOUS
<1> USE DEF IInv
<1>0. given' = given /\ \A ns : Of(ns)' = Of(ns)
  BY GivenStays
<1>1. CASE InstallCollections
  <2>1. CASE /\ Answers(Of(Collections \cup GitSources)) /\ staged' = After(Of(Collections \cup GitSources))
             /\ step' = "installroles" /\ UNCHANGED installed
    <3> DEFINE rs == Of(Collections \cup GitSources)
    <3>1. rs \subseteq given.reqs /\ \A r \in rs : r.ref <= upstream[r.of]
      BY <2>1 DEF Of, Answers
    <3>2. ASSUME NEW s \in staged', s.by = "server"
          PROVE  s.of \in Galaxy /\ NotTaken(s.of, s.v)
      <4>1. s \notin staged
        <5>1. \A t \in staged : FromTheCache(t)
          BY <1>1 DEF InstallCollections, SeededInv, Taken
        <5> QED BY <3>2, <5>1, CacheIsMarked
      <4>2. PICK r \in rs : s.of = r.of /\ r.of \in Galaxy /\ ~Satisfied(r) /\ s.v = Newest(r)
        BY <2>1, <3>1, <3>2, <4>1, AfterKeeps
      <4>3. \A e \in seeded \ unlisted : Staged(e.of, "", e.v, "cache") \in staged
        BY <1>1 DEF InstallCollections, SeededInv, Taken
      <4>4. NotTaken(r.of, Newest(r))
        BY <4>2, <4>3, ServedIsNotSeeded
      <4> QED BY <4>2, <4>4
    <3>3. \A r \in Of(GitSources) : r \notin fromgit => \E s \in staged' : s.of = r.of /\ s.by = "git"
      <4>1. \A r \in Of(GitSources) : r \in rs /\ r.of \in GitSources
        BY DEF Of
      <4> QED BY <2>1, <3>1, <4>1, AfterKeeps
    <3>4. UNCHANGED <<seeded, unlisted, fromgit>> /\ installed' # "staged"
      BY <1>1, <2>1 DEF InstallCollections, TypeOK, Installing, Taken
    <3> QED BY <1>0, <3>2, <3>3, <3>4 DEF PlacedInv, NotTaken, ManifestInv
  <2>2. CASE step' = Onward /\ installed' = "failed"
    BY <2>2 DEF PlacedInv, ManifestInv, Onward
  <2> QED BY <1>1, <2>1, <2>2 DEF InstallCollections, Taken
<1>2. CASE InstallRoles
  <2>1. PICK some \in SUBSET Of(GalaxyRoles) :
          (Answers(some) \/ some = {}) /\ staged' = After(some) /\ manifest' = installedBeyond(After(some))
    BY <1>2 DEF InstallRoles, Taken
  <2>2. some \subseteq given.reqs /\ \A r \in some : r.ref <= upstream[r.of] /\ r.of \in GalaxyRoles
    BY <2>1 DEF Of, Answers
  <2>3. PlacedInv /\ step = "installroles"
    BY <1>2 DEF InstallRoles, Taken
  <2>4. ASSUME NEW s \in staged', s.by = "server"
        PROVE  s.of \in Galaxy /\ NotTaken(s.of, s.v)
    <3>1. CASE s \in staged
      BY <2>3, <2>4, <3>1 DEF PlacedInv
    <3>2. CASE s \notin staged
      <4>1. PICK r \in some : s.of = r.of /\ r.of \in Galaxy /\ ~Satisfied(r) /\ s.v = Newest(r)
        BY <2>1, <2>2, <2>4, <3>2, AfterKeeps
      <4>2. \A e \in seeded \ unlisted : e.of = r.of => Staged(e.of, "", e.v, "cache") \in staged
        BY <2>2, <2>3 DEF SeededInv
      <4>3. NotTaken(r.of, Newest(r))
        BY <4>1, <4>2, ServedIsNotSeeded
      <4> QED BY <4>1, <4>3
    <3> QED BY <3>1, <3>2
  <2>5. \A r \in Of(GitSources) : r \notin fromgit => \E s \in staged' : s.of = r.of /\ s.by = "git"
    <3>1. \A r \in Of(GitSources) : r.of \in GitSources /\ r.of \notin GalaxyRoles
      BY ContentAssumption DEF Of
    <3>2. \A s \in staged : s.of \in GitSources => s \in staged'
      BY <2>1, <2>2, ContentAssumption, AfterKeeps
    <3> QED BY <2>3, <3>1, <3>2 DEF PlacedInv
  <2>6. UNCHANGED <<seeded, unlisted, fromgit, commits>>
    BY <1>2 DEF InstallRoles, Before, Taken
  <2>7. PlacedInv'
    BY <1>0, <2>4, <2>5, <2>6 DEF PlacedInv, NotTaken
  <2>8. manifest' = installedBeyond(staged)'
    BY <1>0, <2>1, <2>6 DEF installedBeyond, servedBeyond, Served, gitBeyond
  <2> QED BY <2>7, <2>8 DEF ManifestInv
<1>3. ASSUME PlayRuns \/ UNCHANGED vars \/ Expire \/ Stop \/ \E n \in Names : Publish(n)
      PROVE  PlacedInv' /\ ManifestInv'
  <2>1. UNCHANGED <<given, seeded, unlisted, fromgit, commits, staged, installed, manifest>>
    BY <1>3 DEF PlayRuns, vars, Expire, Stop, Ends, Publish, Unmoved, Before, Taken
  <2>2. step' = "installroles" => step = "installroles"
    BY <1>3 DEF PlayRuns, vars, Expire, Stop, Ends, Publish, Unmoved, Before, Taken
  <2>3. PlacedInv'
    BY <1>0, <2>1, <2>2 DEF PlacedInv, NotTaken
  <2>4. ManifestInv'
    BY <1>0, <2>1 DEF ManifestInv, installedBeyond, servedBeyond, Served, gitBeyond
  <2> QED BY <2>3, <2>4
<1>4. ASSUME Capture \/ Extract \/ gitCommits \/ FetchCached \/ seedCollections \/ seedRoles \/ rewriteGitRequirements
      PROVE  PlacedInv' /\ ManifestInv'
  <2>1. installed = "none"
    BY <1>4 DEF Capture, Extract, gitCommits, FetchCached, seedCollections, seedRoles, rewriteGitRequirements,
                TypeOK, Installing, Taken
  <2>2. installed' = "none" /\ step' # "installroles"
    BY <1>4, <2>1 DEF Capture, Extract, gitCommits, FetchCached, seedCollections, seedRoles, rewriteGitRequirements, Taken
  <2> QED BY <2>2 DEF PlacedInv, ManifestInv
<1> QED
  BY <1>1, <1>2, <1>3, <1>4 DEF Next, Install

LEMMA NextCommit == IInv /\ [Next]_vars => CommitInv'
<1> SUFFICES ASSUME IInv, [Next]_vars PROVE CommitInv'
  OBVIOUS
<1> USE DEF IInv
<1>0. given' = given /\ \A ns : Of(ns)' = Of(ns)
  BY GivenStays
<1>g. /\ \A r \in Of(GitSources) : r \in Requirement /\ r.of \in Names /\ r.ref \in {0} \cup Versions
      /\ MaxMoves \in Nat /\ \A v \in Versions : v \in Nat /\ v # 0
  <2>1. \A r \in Requirement : r.of \in Names /\ r.ref \in {0} \cup Versions
    BY DEF Requirement
  <2> QED BY <2>1, GivenType
<1>n. \A n \in Names : began[n] \in Nat /\ upstream[n] \in Nat /\ began[n] <= upstream[n]
  BY <1>g DEF CommitInv, TypeOK
<1>1. CASE Capture \/ Extract
  <2>1. fromgit = {} /\ staged = {}
    BY <1>1 DEF Capture, Extract, SeededInv, Untouched, Taken
  <2>2. \A r \in Of(GitSources) : commits[r] = Unresolved
    BY <1>1 DEF Capture, Extract, CommitInv, Taken
  <2>3. UNCHANGED <<fromgit, staged, commits, upstream>> /\ (began' = began \/ began' = upstream)
    BY <1>1 DEF Capture, Extract, Unmoved, Taken
  <2> QED BY <1>0, <1>n, <2>1, <2>2, <2>3 DEF CommitInv
<1>2. CASE gitCommits
  <2>1. fromgit = {} /\ staged = {}
    BY <1>2 DEF gitCommits, SeededInv, Untouched, Taken
  <2>2. UNCHANGED <<fromgit, staged, upstream, began>>
    BY <1>2 DEF gitCommits, Unmoved, Taken
  <2>3. \A r \in Of(GitSources) : commits'[r] \in Commits(r)
    BY <1>2 DEF gitCommits, Taken
  <2>4. \A r \in Of(GitSources) :
          commits'[r] # Unresolved => IF r.ref = 0 THEN commits'[r] >= began[r.of] ELSE commits'[r] = r.ref
    BY <1>g, <1>n, <2>3 DEF Commits, Unresolved
  <2>5. step' \notin {"sync", "job", "resolve"}
    BY <1>2 DEF gitCommits, Taken
  <2> QED BY <1>0, <1>n, <2>1, <2>2, <2>4, <2>5 DEF CommitInv
<1>3. CASE FetchCached \/ seedCollections \/ seedRoles
  <2>1. fromgit = {} /\ UNCHANGED <<fromgit, commits, upstream, began>>
    BY <1>3 DEF FetchCached, seedCollections, seedRoles, SeededInv, Untouched, Unmoved, Before, Taken
  <2>2. step' \notin {"sync", "job", "resolve"}
    BY <1>3 DEF FetchCached, seedCollections, seedRoles, Taken
  <2>3. \A s \in staged' : s.by = "cache"
    <3>1. \A s \in staged : s.by = "cache"
      <4>1. \A s \in staged : FromTheCache(s)
        BY <1>3 DEF FetchCached, seedCollections, seedRoles, SeededInv, Untouched, Taken
      <4> QED BY <4>1, CacheIsMarked
    <3> QED BY <1>3, <3>1, CacheIsMarked DEF FetchCached, seedCollections, seedRoles, Taken
  <2> QED BY <1>0, <1>n, <2>1, <2>2, <2>3 DEF CommitInv
<1>4. CASE rewriteGitRequirements
  <2>1. \A s \in staged : s.by = "cache"
    <3>1. \A s \in staged : FromTheCache(s)
      BY <1>4 DEF rewriteGitRequirements, SeededInv, Taken
    <3> QED BY <3>1, CacheIsMarked
  <2>2. fromgit' \subseteq gitDirs /\ gitDirs' = gitDirs
    BY <1>0, <1>4 DEF rewriteGitRequirements, gitDirs, Archives, Before, Taken
  <2> QED BY <1>0, <1>4, <1>n, <2>1, <2>2 DEF rewriteGitRequirements, CommitInv, Before, Taken, Unmoved
<1>5. CASE InstallCollections \/ InstallRoles
  <2>1. UNCHANGED <<commits, fetched, fromgit, upstream, began>> /\ gitDirs' = gitDirs
    BY <1>0, <1>5 DEF InstallCollections, InstallRoles, Before, Taken, Unmoved, gitDirs, Archives
  <2>2. step' \notin {"sync", "job", "resolve"}
    BY <1>5 DEF InstallCollections, InstallRoles, Onward, Taken
  <2>3. \/ staged' = staged
        \/ \E rs \in SUBSET given.reqs : staged' = After(rs) /\ \A r \in rs : r.ref <= upstream[r.of]
    BY <1>5 DEF InstallCollections, InstallRoles, Answers, Of, Taken
  <2>4. \A s \in staged' : s.by = "dir" => \E r \in fromgit : s.of = r.of /\ s.sub = r.sub /\ s.v = commits[r]
    <3>1. CASE staged' = staged
      BY <3>1 DEF CommitInv
    <3>2. ASSUME NEW rs \in SUBSET given.reqs, staged' = After(rs), \A r \in rs : r.ref <= upstream[r.of],
                 NEW s \in staged', s.by = "dir"
          PROVE  \E r \in fromgit : s.of = r.of /\ s.sub = r.sub /\ s.v = commits[r]
      <4>1. CASE s \in staged
        BY <3>2, <4>1 DEF CommitInv
      <4>2. CASE s \notin staged
        BY <3>2, <4>2, AfterKeeps
      <4> QED BY <4>1, <4>2
    <3> QED BY <2>3, <3>1, <3>2
  <2> QED BY <1>0, <1>n, <2>1, <2>2, <2>4 DEF CommitInv
<1>6. ASSUME PlayRuns \/ UNCHANGED vars \/ Expire \/ Stop
      PROVE  CommitInv'
  <2>1. UNCHANGED <<given, commits, fetched, fromgit, upstream, began, staged>>
    BY <1>6 DEF PlayRuns, vars, Expire, Stop, Ends, Before, Taken, Unmoved
  <2>2. gitDirs' = gitDirs
    BY <1>0, <2>1 DEF gitDirs, Archives
  <2>3. step' \in {"sync", "job", "resolve"} => step' = step
    BY <1>6 DEF PlayRuns, vars, Expire, Stop, Ends, Taken
  <2> QED BY <1>0, <2>1, <2>2, <2>3 DEF CommitInv
<1>7. ASSUME NEW n \in Names, Publish(n) PROVE CommitInv'
  <2>1. \A m \in Names : began'[m] <= upstream'[m]
    BY <1>7, <1>n DEF Publish, TypeOK, Taken
  <2>2. UNCHANGED <<step, commits, fetched, fromgit, began, staged>> /\ gitDirs' = gitDirs
    BY <1>0, <1>7 DEF Publish, Before, Taken, gitDirs, Archives
  <2> QED BY <1>0, <2>1, <2>2 DEF CommitInv
<1> QED
  BY <1>1, <1>2, <1>3, <1>4, <1>5, <1>6, <1>7 DEF Next, Install

-----------------------------------------------------------------------------
(* The theorems. *)

\* The inductive invariant, for the theorems below.
LEMMA ContentInvariant == Spec => []IInv
<1>1. IInv /\ [Next]_vars => IInv'
  <2>1. IInv /\ [Next]_vars => (given \in Givens)'
    BY GivenStays DEF IInv
  <2> QED BY <2>1, NextTypeOK, NextSnap, NextSeeded, NextPlaced, NextCommit DEF IInv
<1> QED
  BY <1>1, InitContent, PTL DEF Spec

\* The state of an install is well formed at every step: what is staged is of the names asked for, one
\* thing of a name, the cache's part of it is what was fetched and verified, and the snapshot a job runs
\* from holds nothing its repository does not.
THEOREM TypeCorrect == Spec => []TypeOK
<1>1. IInv => TypeOK
  BY DEF IInv
<1> QED
  BY <1>1, ContentInvariant, PTL

\* A play that runs from a snapshot finds its playbooks, its requirements and every role it leads to where
\* the repository has them, or where an install staged one of that name before it, whatever search paths
\* the install has set: for every repository the snapshot follows, of any number of playbooks, roles and
\* dependencies.  Beyond those it is false.
THEOREM FindsCorrect ==
  ASSUME \A g \in Givens : Followed(g.repo, Top)
  PROVE  Spec => []PlayFindsWhatTheRepoHas
<1>1. ASSUME IInv, step = "play" PROVE PlayFindsWhatTheRepoHas
  <2> DEFINE repo == given.repo
             path == ansibleCfgSearchPath(repo.paths)
  <2>1. IsRepository(repo) /\ Top \in Playbooks /\ Followed(repo, Top) /\ snap = BuildPlaybookSnapshot(repo, Top)
    BY <1>1, ContentAssumption DEF IInv, SnapInv
  <2>2. /\ wholeRepo(repo, Top) => snap = repo.paths
        /\ \A f \in Conventional, d \in {Root, repo.at[Top]} : File(d, f) \in snap <=> File(d, f) \in repo.paths
        /\ {Play(repo, p) : p \in Visited(repo, Top)} \cap repo.paths \subseteq snap
    BY <2>1, SnapshotKeeps
  <2>3. PlayFiles(repo, Top) \cap repo.paths \subseteq snap
    <3>1. CASE wholeRepo(repo, Top)
      BY <2>2, <3>1
    <3>2. CASE ~wholeRepo(repo, Top)
      <4>1. /\ \A p \in Visited(repo, Top) : Known(repo, p) = repo.items[p]
            /\ \A p \in Visited(repo, Top) : Named(repo.items[p], {"loose"}) = {}
        BY <2>1, <3>2 DEF wholeRepo, scanTasks, Named, Followed
      <4>2. Played(repo, Top) \subseteq Visited(repo, Top)
        BY <2>1, <4>1, PlayedIsVisited
      <4>3. PlayFiles(repo, Top) \subseteq {Play(repo, p) : p \in Visited(repo, Top)}
        BY <4>1, <4>2 DEF PlayFiles
      <4> QED BY <2>2, <4>3
    <3> QED BY <3>1, <3>2
  <2>4. findGalaxyRequirements(snap) = findGalaxyRequirements(repo.paths)
    <3>1. \A f \in {"requirements.yml", "collections/requirements.yml", "roles/requirements.yml"} :
            File(Root, f) \in snap <=> File(Root, f) \in repo.paths
      BY <2>2 DEF Conventional
    <3> QED BY <3>1 DEF findGalaxyRequirements
  <2>5. ansibleCfgSearchPath(snap) = path /\ path \in RolesPaths
    <3>1. File(repo.at[Top], "ansible.cfg") \in snap <=> File(repo.at[Top], "ansible.cfg") \in repo.paths
      BY <2>2 DEF Conventional
    <3> QED BY <3>1 DEF ansibleCfgSearchPath, RolesPaths
  <2>6. WithJobSearchPaths(snap) = IF installed = "staged" THEN <<Stage, repo.at[Top]>> \o path ELSE path
    BY <2>5 DEF WithJobSearchPaths
  <2>7. \A r : \A x \in Dirs : Role(x, r) \notin StagedRoles
    BY ContentAssumption DEF StagedRoles, Role
  <2>8. ASSUME NEW need \in PlayNeeds(repo, Top, path)
        PROVE  LET was == FoundIn(repo.paths, Looked(need, path), need.role)
               IN FoundIn(snap \cup StagedRoles, Looked(need, WithJobSearchPaths(snap)), need.role)
                    = IF installed = "staged" /\ Role(Stage, need.role) \in StagedRoles /\ was # need.ctx
                      THEN Stage ELSE was
    <3> DEFINE was == FoundIn(repo.paths, Looked(need, path), need.role)
               P == snap \cup StagedRoles
    <3> HIDE DEF repo, path
    <3>1. /\ FoundIn(P, Looked(need, path), need.role) = was
          /\ FoundIn(P, Looked(need, <<Stage, repo.at[Top]>> \o path), need.role)
               = IF Role(Stage, need.role) \in StagedRoles /\ was # need.ctx THEN Stage ELSE was
      BY <2>1, <2>5, <2>7, FoundAlike
    <3> QED BY <2>6, <3>1
  <2> QED BY <2>3, <2>4, <2>8 DEF PlayFindsWhatTheRepoHas
<1>2. IInv => PlayFindsWhatTheRepoHas
  BY <1>1 DEF PlayFindsWhatTheRepoHas
<1> QED
  BY <1>2, ContentInvariant, PTL

\* What a job reports of its install is what a Galaxy server served it and the git sources it cloned: the
\* API caches what the report names, so nothing it lacks is left out and nothing it has is fetched again,
\* but for a served role under the name of one whose install from the cache was never asked for.
THEOREM AccountedCorrect == Spec => []InstallIsAccounted
<1>1. ASSUME IInv, installed = "staged" PROVE InstallIsAccounted
  <2>1. /\ \A s \in staged : s.by = "server" => s.of \in Galaxy /\ NotTaken(s.of, s.v)
        /\ \A r \in Of(GitSources) : r \notin fromgit => \E s \in staged : s.of = r.of /\ s.by = "git"
    BY <1>1 DEF IInv, PlacedInv
  <2>2. manifest = servedBeyond(staged) \cup gitBeyond
    BY <1>1 DEF IInv, ManifestInv, installedBeyond
  <2>3. servedBeyond(staged) =
          {[of |-> s.of, v |-> s.v] : s \in {s \in staged : s.by = "server" /\ \A u \in unlisted : u.of # s.of}}
    <3> DEFINE own(s) == \A e \in seeded : e.of = s.of => s.of \in Collections /\ e.v # s.v
    <3>1. unlisted \subseteq seeded /\ \A u \in unlisted : u.of \in GalaxyRoles /\ u.of \notin Collections
      BY <1>1, ContentAssumption DEF IInv, TypeOK, SeededInv
    <3>2. ASSUME NEW s \in staged, s.by = "server" PROVE own(s) <=> \A u \in unlisted : u.of # s.of
      BY <2>1, <3>1, <3>2 DEF NotTaken
    <3>3. {s \in Served(staged) : own(s)} = {s \in staged : s.by = "server" /\ \A u \in unlisted : u.of # s.of}
      BY <3>2 DEF Served
    <3> QED BY <3>3 DEF servedBeyond
  <2>4. \A e \in servedBeyond(staged) : e.of \in Galaxy /\ e.of \notin GitSources
    BY <2>1, <2>3, ContentAssumption DEF Galaxy
  <2>5. ASSUME NEW e \in gitBeyond
        PROVE  e.of \in GitSources /\ \E s \in staged : s.of = e.of /\ s.by = "git"
    <3>1. PICK r \in Of(GitSources) : r \notin fromgit /\ e.of = r.of
      BY DEF gitBeyond
    <3> QED BY <2>1, <3>1 DEF Of
  <2>6. \A e \in gitBeyond : e.of \notin Galaxy
    BY <2>5, ContentAssumption DEF Galaxy
  <2>7. {e \in manifest : e.of \in Galaxy} = servedBeyond(staged)
    BY <2>2, <2>4, <2>6
  <2>8. \A s \in staged : s.by = "cache" /\ s.of \in Collections => [of |-> s.of, v |-> s.v] \in seeded
    BY <1>1 DEF IInv, SeededInv
  <2>9. \A e \in manifest : e.of \in GitSources => \E s \in staged : s.of = e.of /\ s.by = "git"
    BY <2>2, <2>4, <2>5
  <2> QED BY <2>3, <2>7, <2>8, <2>9 DEF InstallIsAccounted
<1>2. IInv => InstallIsAccounted
  BY <1>1 DEF InstallIsAccounted
<1> QED
  BY <1>2, ContentInvariant, PTL

\* A git source installed from the cache is at a commit its branch pointed at since the job began, or at
\* the commit the requirement names: the cache never holds a branch back.
THEOREM CurrentCorrect == Spec => []CachedIsCurrent
<1>1. ASSUME IInv, NEW r \in Of(GitSources), NEW s \in staged, s.of = r.of, s.sub = r.sub, s.by = "dir"
      PROVE  IF r.ref = 0 THEN s.v >= began[r.of] ELSE s.v = r.ref
  <2>1. PICK q \in fromgit : s.of = q.of /\ s.sub = q.sub /\ s.v = commits[q]
    BY <1>1 DEF IInv, CommitInv
  <2>2. q \in given.reqs /\ r \in given.reqs /\ commits[q] # Unresolved /\ Unambiguous(given)
    BY <1>1, GivenType DEF IInv, TypeOK, Of
  <2>3. q = r
    BY <1>1, <2>1, <2>2 DEF Unambiguous
  <2> QED BY <1>1, <2>1, <2>2, <2>3 DEF IInv, CommitInv
<1>2. IInv => CachedIsCurrent
  BY <1>1 DEF CachedIsCurrent
<1> QED
  BY <1>2, ContentInvariant, PTL

=============================================================================
