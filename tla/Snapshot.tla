------------------------------ MODULE Snapshot ------------------------------
(***************************************************************************)
(* What a playbook's snapshot holds of its repository                       *)
(* (executor/syncexec/snapshot.go), and what Ansible looks up in a          *)
(* checkout, which it is measured against.                                  *)
(***************************************************************************)
EXTENDS Naturals, Sequences, FiniteSets

CONSTANTS
  Playbooks, Roles, \* the playbooks and roles there may be
  Dirs, Root,       \* the directories they lie in, the repository's own among them
  None

ASSUME SnapshotAssumption ==
  /\ IsFiniteSet(Playbooks) /\ IsFiniteSet(Roles) /\ IsFiniteSet(Dirs)
  /\ Root \in Dirs /\ None \notin Dirs

(* A path is a directory, what lies there and which one.  A repository is its paths, the symlinks *)
(* among them, the directory of each playbook, the items its plays name and whether under a short *)
(* key (include_role, not ansible.builtin.include_role), the roles each role's meta depends on    *)
(* and those its own tasks include, and the roles whose meta is a meta/main.yml that parses.      *)
Play(repo, p) == <<repo.at[p], "playbook", p>>
Role(d, r) == <<d, "role", r>>
File(d, f) == <<d, "file", f>>
Conventional == {"requirements.yml", "collections/requirements.yml", "roles/requirements.yml", "ansible.cfg"}

RoleKinds == {"role", "include", "dynamic"}
IsRepository(repo) ==
  /\ \A here \in repo.paths : here[1] \in Dirs
  /\ repo.at \in [Playbooks -> Dirs] /\ DOMAIN repo.items = Playbooks
  /\ \A p \in Playbooks : \A i \in repo.items[p] : /\ i.is = "import" => i.of \in Playbooks
                                                   /\ i.is \in RoleKinds => i.of \in Roles
                                                   /\ i.short \in BOOLEAN
  /\ repo.deps \in [Dirs \X Roles -> SUBSET Roles] /\ repo.calls \in [Dirs \X Roles -> SUBSET Roles]

\* Everything start leads to: the least set with start in it that leads nowhere out of it.
Closed(start, leads) ==
  LET closed == {S \in SUBSET DOMAIN leads : start \subseteq S /\ \A x \in S : leads[x] \subseteq S}
  IN {x \in DOMAIN leads : \A S \in closed : x \in S}

Named(items, kinds) == {i.of : i \in {i \in items : i.is \in kinds}}
Readable(repo, p) == Play(repo, p) \in repo.paths
FoundIn(paths, dirs, r) ==
  LET hits == {i \in DOMAIN dirs : Role(dirs[i], r) \in paths}
  IN IF hits = {} THEN None ELSE dirs[CHOOSE i \in hits : \A j \in hits : i <= j]

-----------------------------------------------------------------------------
(* The snapshot. *)

\* The walk knows the short keys only, of imports, of roles and of the files tasks include.
Known(repo, p) == {i \in repo.items[p] : i.short}
parsePlaybook(repo, p) == IF Readable(repo, p) THEN Named(Known(repo, p), {"import"}) ELSE {}
Visited(repo, top) == Closed({top}, [p \in Playbooks |-> parsePlaybook(repo, p)])

\* A Jinja name, a loose task file or variable file, or a playbook that cannot be read.
scanTasks(repo, p) == ~Readable(repo, p) \/ \E i \in Known(repo, p) : i.is \in {"dynamic", "loose"}
wholeRepo(repo, top) == \E p \in Visited(repo, top) : scanTasks(repo, p)

collectRoleNames(repo, top) == UNION {Named(Known(repo, p), {"role", "include"}) : p \in Visited(repo, top)}

\* Where a role is looked for: the repository's roles first, then those beside the top playbook.
searchRoots(repo, top) == IF repo.at[top] = Root THEN <<Root>> ELSE <<Root, repo.at[top]>>
\* A meta that is not read, or does not parse, is taken for one without dependencies.
metaDependencies(repo, d, r) == IF d # None /\ Role(d, r) \in repo.metas THEN repo.deps[d, r] ELSE {}
resolveNamedRoles(repo, top) ==
  {Role(FoundIn(repo.paths, searchRoots(repo, top), r), r) :
     r \in {r \in collectRoleNames(repo, top) : FoundIn(repo.paths, searchRoots(repo, top), r) # None}}
resolveRoleDirs(repo, top) ==
  LET dirOf(r) == FoundIn(repo.paths, searchRoots(repo, top), r)
      names == Closed(collectRoleNames(repo, top), [r \in Roles |-> metaDependencies(repo, dirOf(r), r)])
  IN {Role(dirOf(r), r) : r \in {r \in names : dirOf(r) # None}}

conventionalContent(repo, top) == {File(d, f) : d \in {Root, repo.at[top]}, f \in Conventional} \cap repo.paths

resolvePlaybookSnapshotPaths(repo, top) ==
  IF wholeRepo(repo, top)
  THEN repo.paths
  ELSE ({Play(repo, p) : p \in Visited(repo, top)} \cap repo.paths)
         \cup resolveRoleDirs(repo, top) \cup conventionalContent(repo, top)

tarGzDir(repo, paths) == paths \ repo.links
BuildPlaybookSnapshot(repo, top) == tarGzDir(repo, resolvePlaybookSnapshotPaths(repo, top))

-----------------------------------------------------------------------------
(* Ansible: every item counts, whatever its key, and every meta.  A play's roles are looked for   *)
(* beside its playbook, then on the roles path; one role's own roles also beside that role.       *)

Imports(repo, p) == IF Readable(repo, p) THEN Named(repo.items[p], {"import"}) ELSE {}
Played(repo, top) == Closed({top}, [p \in Playbooks |-> Imports(repo, p)])

Needs(ctx, by, r) == [ctx |-> ctx, by |-> by, role |-> r]
Looked(need, path) == <<need.ctx>> \o path \o IF need.by = None THEN <<>> ELSE <<need.by>>

NamedByPlays(repo, top) ==
  UNION {{Needs(repo.at[p], None, r) : r \in Named(repo.items[p], RoleKinds)} : p \in Played(repo, top)}
NamedByRole(repo, path, need) ==
  LET d == FoundIn(repo.paths, Looked(need, path), need.role)
  IN IF d = None THEN {} ELSE {Needs(need.ctx, d, r) : r \in repo.deps[d, need.role] \cup repo.calls[d, need.role]}
PlayNeeds(repo, top, path) ==
  LET needs == [ctx : {repo.at[p] : p \in Played(repo, top)}, by : Dirs \cup {None}, role : Roles]
  IN Closed(NamedByPlays(repo, top), [need \in needs |-> NamedByRole(repo, path, need)])

\* The files a play reads beside its roles: its playbooks and what they include.
PlayFiles(repo, top) ==
  {Play(repo, p) : p \in Played(repo, top)}
    \cup UNION {{File(repo.at[p], f) : f \in Named(repo.items[p], {"loose"})} : p \in Played(repo, top)}

=============================================================================
