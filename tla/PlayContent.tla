----------------------------- MODULE PlayContent -----------------------------
(***************************************************************************)
(* How a play comes by its content.  A sync work item captures the playbook *)
(* (executor/syncexec); a job runs from that snapshot, installs what the    *)
(* repository's Galaxy requirements name, from its organization's verified  *)
(* cache where that holds it and from the sources otherwise, and reports     *)
(* what the cache lacked (ansibleexec/galaxy.go, galaxy_cache.go,            *)
(* ansible_cfg.go).  Sources publish and branches move while it installs,    *)
(* any command may fail or hang, the install has a deadline and the job can   *)
(* be stopped.                                                                *)
(***************************************************************************)
EXTENDS Snapshot

CONSTANTS
  Givens,       \* what a job is given: its repository, requirements, cached entries and ansible.cfg
  Top,          \* its playbook
  Collections, GitSources,
  GalaxyRoles,  \* which may have the names of roles of the repository
  Stage,        \* the directory an install stages roles in
  MaxMoves      \* bound: releases or pushes of each source during one install

Names == Collections \cup GitSources \cup GalaxyRoles
Galaxy == Collections \cup GalaxyRoles
Versions == 1..(MaxMoves + 1)
Outside == "outside"  \* a subdirectory that would leave its repository's archive

\* A requirement: a name, an exact version or commit (0 for the newest, or the branch), a subdirectory,
\* and whether the file gives it as a bare string, without fields.
Requirement == [of : Names, ref : {0} \cup Versions, sub : {"", "sub", Outside}, bare : BOOLEAN]
Entry == [of : Names, v : Versions]
\* What an install puts in place: what, at which version, and where it came from.
Content == [of : Names, sub : {"", "sub", Outside}, v : Versions, by : {"cache", "server", "dir", "git"}]

\* A job's requirements name a collection and a role once, and its cache holds one version of it:
\* ansible-galaxy keeps one, and fails where two are asked for.
Unambiguous(g) ==
  /\ \A r, q \in g.reqs : r.of = q.of /\ (r.of \in GitSources => r.sub = q.sub) => r = q
  /\ \A d, e \in g.entries : d.of = e.of /\ d.of \in Galaxy => d = e

ASSUME ContentAssumption ==
  /\ Top \in Playbooks /\ MaxMoves \in Nat /\ Stage \notin Dirs \cup {None}
  /\ Collections \cap GitSources = {} /\ Collections \cap GalaxyRoles = {} /\ GitSources \cap GalaxyRoles = {}
  /\ \A g \in Givens : /\ IsRepository(g.repo) /\ g.reqs \subseteq Requirement /\ g.entries \subseteq Entry
                       /\ g.cfg \in {"none", "plain", "roles"} /\ Unambiguous(g)

VARIABLES
  given,
  snap,             \* the snapshot's paths, None before it is captured
  step, ctx,        \* where the job is, and whether its install may go on
  upstream, began,  \* the newest version of each source, and what it was when the job began
  commits,          \* the commit each git requirement resolved to
  fetched,          \* the cached entries read and verified
  seeded, fromgit,  \* the entries held to be installed from the cache, the requirements pointed at its archives
  unlisted,         \* history: those of them no install was asked for, their list not being written
  staged,           \* what the staging directories hold: a name, a version and where it came from
  installed,        \* whether the install put them on the play's search paths
  manifest          \* what the job reports as installed beyond the cache

vars == <<given, snap, step, ctx, upstream, began, commits, fetched, seeded, fromgit, unlisted, staged, installed, manifest>>

Installing == {"resolve", "fetch", "collections", "roles", "rewrite", "install", "installroles"}
Unresolved == 0

Of(names) == {r \in given.reqs : r.of \in names}
Staged(of, sub, v, by) == [of |-> of, sub |-> sub, v |-> v, by |-> by]

TypeOK ==
  /\ snap = None \/ snap \subseteq given.repo.paths
  /\ step \in {"sync", "job", "play", "end"} \cup Installing /\ ctx \in {"live", "expired", "stopped"}
  /\ upstream \in [Names -> Versions] /\ began \in [Names -> Versions]
  /\ commits \in [Of(GitSources) -> {Unresolved} \cup Versions]
  /\ fetched \subseteq given.entries /\ seeded \subseteq fetched /\ unlisted \subseteq seeded
  /\ fromgit \subseteq {r \in Of(GitSources) : commits[r] # Unresolved}
  /\ staged \subseteq Content
  /\ \A s, t \in staged : s.of = t.of /\ s.sub = t.sub => s = t
  /\ installed \in {"none", "failed", "staged"} /\ (installed = "none" \/ step \in {"play", "end"})
  /\ manifest \subseteq Entry /\ (manifest # {} => installed = "staged")

Unmoved == UNCHANGED <<given, upstream, began>>
Before == <<snap, commits, fetched>>
Taken == <<seeded, unlisted>>

-----------------------------------------------------------------------------
(* The work item, and the job's files. *)

\* The clone, the playbook's own path and the upload may each fail: the playbook has no snapshot then.
Capture ==
  /\ step = "sync" /\ step' = "job"
  /\ \/ Readable(given.repo, Top) /\ snap' = BuildPlaybookSnapshot(given.repo, Top)
     \/ UNCHANGED snap
  /\ Unmoved /\ UNCHANGED <<ctx, commits, fetched, Taken, fromgit, staged, installed, manifest>>

\* The requirements the job finds: the first of the three places.
findGalaxyRequirements(paths) ==
  LET found(f) == File(Root, f) \in paths
  IN CASE found("requirements.yml") -> "requirements.yml"
       [] found("collections/requirements.yml") -> "collections/requirements.yml"
       [] found("roles/requirements.yml") -> "roles/requirements.yml"
       [] OTHER -> None

\* Without a snapshot the playbook is not found; a download that fails ends the job.
Extract ==
  /\ step = "job"
  /\ step' \in {"end"} \cup IF snap = None THEN {}
                             ELSE {IF findGalaxyRequirements(snap) = None THEN "play" ELSE "resolve"}
  /\ began' = upstream
  /\ UNCHANGED <<given, snap, ctx, upstream, commits, fetched, Taken, fromgit, staged, installed, manifest>>

-----------------------------------------------------------------------------
(* The cache. *)

\* gitCommits: a full commit is its own, a branch is what ls-remote answers now, if it answers.
Commits(r) == IF r.ref # 0 THEN {r.ref} ELSE IF ctx = "live" THEN {Unresolved, upstream[r.of]} ELSE {Unresolved}
gitCommits ==
  /\ step = "resolve" /\ step' = IF given.entries = {} THEN "install" ELSE "fetch"
  /\ commits' \in {c \in [Of(GitSources) -> {Unresolved} \cup Versions] : \A r \in Of(GitSources) : c[r] \in Commits(r)}
  /\ Unmoved /\ UNCHANGED <<ctx, snap, fetched, Taken, fromgit, staged, installed, manifest>>

\* A git entry is fetched at a commit some requirement installs now, anything else as the descriptor
\* names it.  A body that is missing, or does not verify, is left to its source.
Wanted(e) == e.of \in GitSources => \E r \in Of({e.of}) : commits[r] = e.v
FetchCached ==
  /\ step = "fetch" /\ step' = "collections"
  /\ fetched' \in SUBSET {e \in given.entries : Wanted(e)}
  /\ Unmoved /\ UNCHANGED <<ctx, snap, commits, Taken, fromgit, staged, installed, manifest>>

FromCache(es) == {Staged(e.of, "", e.v, "cache") : e \in es}
Cached(names) == {e \in fetched : e.of \in names}

\* The cached collections, in one offline install: one that fails is discarded, whatever it put in place.
seedCollections ==
  /\ step = "collections" /\ step' = "roles"
  /\ \/ /\ ctx = "live" \/ Cached(Collections) = {}
        /\ staged' = staged \cup FromCache(Cached(Collections)) /\ seeded' = seeded \cup Cached(Collections)
     \/ /\ Cached(Collections) # {}
        /\ staged' = {s \in staged : s.of \notin Collections} /\ UNCHANGED seeded
  /\ Unmoved /\ UNCHANGED <<Before, ctx, unlisted, fromgit, installed, manifest>>

\* The cached roles: an install that fails leaves what it put in place, and where the list of them
\* cannot be written none is asked for, though they still count as installed.
seedRoles ==
  /\ step = "roles" /\ step' = "rewrite"
  /\ \/ /\ ctx = "live" \/ Cached(GalaxyRoles) = {}
        /\ staged' = staged \cup FromCache(Cached(GalaxyRoles)) /\ seeded' = seeded \cup Cached(GalaxyRoles)
        /\ UNCHANGED unlisted
     \/ /\ \E some \in SUBSET Cached(GalaxyRoles) : staged' = staged \cup FromCache(some)
        /\ Cached(GalaxyRoles) # {} /\ UNCHANGED Taken
     \/ /\ Cached(GalaxyRoles) # {} /\ UNCHANGED staged
        /\ seeded' = seeded \cup Cached(GalaxyRoles) /\ unlisted' = Cached(GalaxyRoles)
  /\ Unmoved /\ UNCHANGED <<Before, ctx, fromgit, installed, manifest>>

\* The git requirements whose commit was fetched, and whose subdirectory stays in the archive.
ArchivesOfRepo(r) == {e \in fetched : e.of = r.of}
Archives(r) == {e \in fetched : e.of = r.of /\ e.v = commits[r]}
gitDirs == {r \in Of(GitSources) : Archives(r) # {} /\ r.sub # Outside}
\* A copy of the requirements that points them there, where it can be made: a bare string stays as it is.
rewriteGitRequirements ==
  /\ step = "rewrite" /\ step' = "install"
  /\ fromgit' \in {{}, {r \in gitDirs : ~r.bare}}
  /\ Unmoved /\ UNCHANGED <<Before, ctx, Taken, staged, installed, manifest>>

-----------------------------------------------------------------------------
(* The sources. *)

\* ansible-galaxy keeps a staged collection that satisfies the requirement, and a staged role whatever
\* its version: it is not told to force one.
Satisfied(r) == \E s \in staged : s.of = r.of /\ (r.of \in GalaxyRoles \/ r.ref \in {0, s.v})
Newest(r) == IF r.ref = 0 THEN upstream[r.of] ELSE r.ref
Archived(r) == (CHOOSE e \in Archives(r) : TRUE).v
Placed(r) ==
  Staged(r.of, IF r.of \in GitSources THEN r.sub ELSE "",
         IF r \in fromgit THEN Archived(r) ELSE Newest(r),
         IF r \in fromgit THEN "dir" ELSE IF r.of \in GitSources THEN "git" ELSE "server")
After(rs) ==
  LET new == {r \in rs : r.of \in GitSources \/ ~Satisfied(r)}
  IN {s \in staged : \A r \in new : s.of # r.of} \cup {Placed(r) : r \in new}
Answers(rs) == ctx = "live" /\ \A r \in rs : r.ref <= upstream[r.of]

Onward == IF ctx = "stopped" THEN "end" ELSE "play"
InstallCollections ==
  /\ step = "install"
  /\ \/ /\ Answers(Of(Collections \cup GitSources)) /\ step' = "installroles"
        /\ staged' = After(Of(Collections \cup GitSources)) /\ UNCHANGED installed
     \/ step' = Onward /\ installed' = "failed" /\ UNCHANGED staged
  /\ Unmoved /\ UNCHANGED <<Before, ctx, Taken, fromgit, manifest>>

\* What the staging directories hold that a Galaxy server served: its collections have an .info file
\* beside them, its roles a version, unlike those from the cache's archives.
Served(stage) == {s \in stage : s.by = "server"}
\* Of those the ones not seeded: a collection by its version, a role by its name.
servedByName(stage) == {[of |-> s.of, v |-> s.v] : s \in {s \in Served(stage) : \A e \in seeded : e.of # s.of}}
servedBeyond(stage) ==
  LET own(s) == \A e \in seeded : e.of = s.of => s.of \in Collections /\ e.v # s.v
  IN {[of |-> s.of, v |-> s.v] : s \in {s \in Served(stage) : own(s)}}
gitBeyond == {[of |-> r.of, v |-> commits[r]] : r \in {r \in Of(GitSources) : commits[r] # Unresolved /\ r \notin fromgit}}
installedBeyond(stage) == servedBeyond(stage) \cup gitBeyond

\* The roles' failure is ignored, whatever they put in place.
InstallRoles ==
  /\ step = "installroles" /\ step' = Onward
  /\ \E some \in SUBSET Of(GalaxyRoles) :
       /\ Answers(some) \/ some = {}
       /\ staged' = After(some) /\ manifest' = installedBeyond(After(some))
  /\ installed' = "staged"
  /\ Unmoved /\ UNCHANGED <<Before, ctx, Taken, fromgit>>

PlayRuns ==
  /\ step = "play" /\ step' = "end"
  /\ UNCHANGED <<given, upstream, began, ctx, Before, Taken, fromgit, staged, installed, manifest>>

Install ==
  gitCommits \/ FetchCached \/ seedCollections \/ seedRoles \/ rewriteGitRequirements \/ InstallCollections \/ InstallRoles

-----------------------------------------------------------------------------
(* The deadline of the install, the job's stop, and the sources' own life. *)

Ends(why) ==
  /\ ctx = "live" /\ step \in Installing /\ ctx' = why
  /\ Unmoved /\ UNCHANGED <<Before, step, Taken, fromgit, staged, installed, manifest>>
BoundedCollections == Installing \ {"installroles"}
Bounded == Installing
Expire == step \in Bounded /\ Ends("expired")
Stop == Ends("stopped")

\* A source the job names publishes; the others are nothing to it.
Publish(n) ==
  /\ step \in Installing /\ Of({n}) # {} /\ upstream[n] <= MaxMoves
  /\ upstream' = [upstream EXCEPT ![n] = @ + 1]
  /\ UNCHANGED <<given, began, Before, step, ctx, Taken, fromgit, staged, installed, manifest>>

Init ==
  /\ given \in Givens /\ snap = None /\ step = "sync" /\ ctx = "live"
  /\ upstream = [n \in Names |-> 1] /\ began = upstream
  /\ commits = [r \in {r \in given.reqs : r.of \in GitSources} |-> Unresolved]
  /\ fetched = {} /\ seeded = {} /\ unlisted = {} /\ fromgit = {} /\ staged = {} /\ installed = "none" /\ manifest = {}

Next ==
  \/ Capture \/ Extract \/ Install \/ PlayRuns \/ Expire \/ Stop
  \/ \E n \in Names : Publish(n)

\* A command answers or hangs: only one whose context is over returns for certain, killed.
Spec == Init /\ [][Next]_vars
FairSpec == Spec /\ WF_vars(Expire) /\ WF_vars(ctx # "live" /\ Install)

-----------------------------------------------------------------------------
(* The play's search paths. *)

\* The roles path the configuration Ansible reads sets: the job's own file, or the one beside the playbook.
ansibleCfgSearchPath(paths) ==
  IF given.cfg = "roles" \/ (given.cfg = "none" /\ File(given.repo.at[Top], "ansible.cfg") \in paths)
  THEN <<Root>> ELSE <<>>

\* With an install staged, the staged directory and the playbook's come before what was in effect.
StagedRoles == {Role(Stage, s.of) : s \in {s \in staged : s.of \in GalaxyRoles}}
WithJobSearchPaths(paths) ==
  IF installed = "staged" THEN <<Stage, given.repo.at[Top]>> \o ansibleCfgSearchPath(paths)
  ELSE ansibleCfgSearchPath(paths)

-----------------------------------------------------------------------------
(* Properties. *)

\* The repositories a snapshot follows: no link among what it keeps, the playbooks in one directory,
\* and, unless all of it is kept, short keys, a role in one of the two places it is looked for, and a
\* meta that is read and names the roles its own tasks include.
Followed(repo, top) ==
  /\ repo.links \cap repo.paths = {}
  /\ \A p \in Played(repo, top) : repo.at[p] = repo.at[top]
  /\ \/ wholeRepo(repo, top)
     \/ /\ \A p \in Visited(repo, top) : Known(repo, p) = repo.items[p]
        /\ \A r \in Roles : \A d, e \in {Root, repo.at[top]} :
             Role(d, r) \in repo.paths /\ Role(e, r) \in repo.paths => d = e
        /\ \A d \in Dirs, r \in Roles :
             repo.deps[d, r] \cup repo.calls[d, r] \subseteq metaDependencies(repo, d, r)

\* A play that runs from a snapshot finds what it would find in the repository: its playbooks and
\* the files they include, its requirements file, and every role, its own and those it leads to, in
\* the same place, but for a role the install staged, which comes before the repository's of that
\* name unless it lies beside the playbook.
PlayFindsWhatTheRepoHas ==
  step = "play" =>
    LET before == ansibleCfgSearchPath(given.repo.paths)
        shadowed(r) == installed = "staged" /\ Role(Stage, r) \in StagedRoles
    IN
    /\ PlayFiles(given.repo, Top) \cap given.repo.paths \subseteq snap
    /\ findGalaxyRequirements(snap) = findGalaxyRequirements(given.repo.paths)
    /\ \A need \in PlayNeeds(given.repo, Top, before) :
         LET was == FoundIn(given.repo.paths, Looked(need, before), need.role)
         IN FoundIn(snap \cup StagedRoles, Looked(need, WithJobSearchPaths(snap)), need.role)
              = IF shadowed(need.role) /\ was # need.ctx THEN Stage ELSE was

\* Whatever an install staged is accounted for: a Galaxy server's is what the job reports, no more and
\* no less, but for a role the job held to be the cache's when the list of those was not written; a
\* collection from the cache is one the job says it reused, and a git source reported is one that was
\* cloned.
InstallIsAccounted ==
  installed = "staged" =>
    /\ {e \in manifest : e.of \in Galaxy} =
         {[of |-> s.of, v |-> s.v] : s \in {s \in staged : s.by = "server" /\ \A u \in unlisted : u.of # s.of}}
    /\ \A s \in staged : s.by = "cache" /\ s.of \in Collections => [of |-> s.of, v |-> s.v] \in seeded
    /\ \A e \in manifest : e.of \in GitSources => \E s \in staged : s.of = e.of /\ s.by = "git"

\* The cache never holds a branch back: a git source installed from it is at a commit its branch
\* pointed at since the job began, or the commit the requirement names.
CachedIsCurrent ==
  \A r \in Of(GitSources) :
    \A s \in staged : s.of = r.of /\ s.sub = r.sub /\ s.by = "dir" =>
      IF r.ref = 0 THEN s.v >= began[r.of] ELSE s.v = r.ref

\* An install that hangs is stopped: the play starts, or the job ends.
InstallEnds == step = "resolve" ~> step \in {"play", "end"}

=============================================================================
