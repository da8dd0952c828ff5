# A TLA+ model of the ansible-runner

This directory models the job runner of this repository (`src/backend`): the
launcher that claims jobs from an API and places an executor for each, the
drivers that hold the placements, the executors that run the jobs, and the
caches they share. TLC checks the models on small instances; TLAPS proves some
of their theorems for every instance. Paths below are relative to
`src/backend/internal` unless they say otherwise.

## The system

```
          API server (not in this repository)
   heartbeat, claim, token,  |        | artifacts, status, uploads,
   status, failures          |        | completion
                             |        |
   launcher ---- driver ---- placement: executor ---- engine
     loop         container / Kubernetes / in-process   tofu, ansible-playbook,
     reconcile                                          git, ansible-inventory
     watchers     node-local cache ---- read-only mount
     sweeps
     populator ---- sources of collections, roles, providers, ...
```

| Component | State | Operations | What is hard |
|---|---|---|---|
| Launcher loop (`launcher/launcher.go`, `heartbeat.go`, `client.go`) | `inflight`, `apiReady`, `lostPeers`, the beat's free capacity | register, heartbeat, claim, place, drain, deregister | the count of free slots is older than the answer it is spent on; calls fail half-way; SIGTERM and crashes anywhere |
| Supervision (`launcher/supervise.go`) | per placement: token, `timedOut`, `deleted`, `Canceled` | watch, deadline, tick, kill, end, remove | the executor's report, the launcher's report, the kill and the exit race |
| Reconcile (`launcher/reconcile.go`) | nothing that survives: labels of placements | list, status, token, adopt, fail, stop | what was true when the placement was made is not any more |
| Sweeps (`launcher.go`, the drivers' `Reap`) | keep window, ages, lost peers | remove ended placements, unowned objects, a lost peer's work | runs beside the watchers, a placement in progress and other launchers |
| Kubernetes driver (`launcher/driver/kubernetes.go`) | pod, Secrets, ServiceAccount per attempt; `killed` | Place, Wait, Kill, Remove, Reap, List; Ensure and Inventory | several writes that can stop in between; objects with and without an owner |
| Container driver (`launcher/driver/container.go`, `engineapi.go`) | containers, executor volume | the same | the same: a dozen calls to an engine, of which any can fail or take effect unseen |
| Jobs network (`launcher/driver/network.go`) | the network, the host's rules, `fw.known` | EnsureNetwork at a start, closeNewNetworks at a placement | two rule languages, three engines, one policy; networks that come and go; writers that fail |
| In-process driver (`launcher/driver/inprocess.go`) | goroutines | the same | dies with the launcher |
| Executor (`executor/client.go`, `tofuexec`, `ansibleexec`, `syncexec`) | contexts, engine, `reported` | fetch, run, hand over, report, exit code | stops, deadlines and lost answers at every step |
| Snapshot (`executor/syncexec/snapshot.go`) | none | what a playbook needs of its repository | must agree with how Ansible looks things up |
| Galaxy install (`executor/ansibleexec/galaxy.go`, `galaxy_cache.go`, `ansible_cfg.go`) | staging directories, the manifest | resolve, seed from the cache, install, report | sources that move meanwhile, commands that fail half-way or hang |
| Node-local cache (`launcher/cache/readthrough.go`, `executor/cache.go`) | files by organization, kind and digest | prepare, fetch, evict; read | crashes in the middle, altered copies, the limit |
| Populator (`launcher/populate.go`, `launcher/cache/populator.go`) | `promotions` queue, `promoting` | enqueue, verify, upload, drop | a bounded queue fed by answers that repeat themselves |
| Verifiers, identities, secret files, configuration, health | none shared | sequential | formats, not interleavings |

The OpenTofu executor is a library of this repository (`executor/tofuexec`);
`cmd/ansible-runner` itself runs plays and work items (syncs). Both are in the
model.

### What makes each component correct

* The launcher never runs more than its capacity, over restarts; whatever it
  places is watched and its end settled by somebody; it stops and fails only
  what is over or dead; a drain ends.
* A placement is complete before it runs and is gone, with everything it made,
  after it is over; a failed one stays for its window.
* A job reaches what the network policy says, whatever engine the host has.
* A play finds in its snapshot what it would find in the repository, or what its
  install staged in place of that; what an install staged is accounted for and no
  older than the job.
* An executor reports what its engine did, hands over what others build on
  first, and exits with a code the launcher can rely on.
* What comes out of a cache is what its key says; what goes in is what the
  source publishes; the node's copy is bounded; every promotion is settled.

## The modules

| Module | What it models |
|---|---|
| `Launcher` | The launcher process, its watchers, the executors as it sees them, the API's record of each job, over several lives of the process, for each driver. |
| `MCLauncher` | Symmetry and model values for it. |
| `LauncherProofs` | Theorems about it: types and capacity. |
| `LauncherReportProofs` | Theorems about what becomes of an attempt: reports, timeouts, stops, cancels; and a launcher for one job. |
| `LauncherSlotProofs` | Theorems over several lives: executors within capacity, running jobs watched, only the dead failed, failures kept. |
| `ExecutorContract` | What an executor promises: an exit code says whether the attempt is settled. |
| `Executor` | One executor of any kind of job, from preflight to exit, and the API's record of its attempt. Implements `ExecutorContract`. |
| `ExecutorProofs` | Theorems about it, the refinement among them. |
| `KubernetesPlacement` | The objects of an attempt: the driver's writes and their undo, the watcher, the launcher's sweep and a peer's, garbage collection, crashes and a network cut. |
| `KubernetesProofs` | Theorems about it. |
| `JobsNetwork` | The jobs network's rules, what they let through on each engine, EnsureNetwork and closeNewNetworks beside networks that come and go. |
| `ContainerPlacement` | Extends it: the container driver's calls for one attempt, the watcher, the sweep and the restart that come across its container, and the launcher dying in between. |
| `MCContainerPlacement` | Engines, policies and placements for it. |
| `ContainerProofs` | Theorems about both: what the rules let through, and what a placement runs in. |
| `Snapshot` | Pure: what a playbook's snapshot holds, and what Ansible looks up in a checkout, which it is measured against. |
| `PlayContent` | Extends it: a work item captures the playbook, a job installs its Galaxy requirements from the cache and the sources, and runs the play. |
| `MCPlayContent` | Repositories, requirements and cached entries for it. |
| `PlayContentProofs` | Theorems about it. |
| `Cache`, `MCCache` | The node-local copy, the executor's reads and the promotions. |
| `CacheProofs` | Theorems about it. |

State corresponds to the code by name where there is one: `inflight`,
`apiReady`, `timedOut`, `deleted`, `killed`, `promoting`, `reported`. `main` and
`watch` (`pc` in `Executor`, `step` in `KubernetesPlacement`) are the program
counters of the goroutines. A call is one action with its outcomes as disjuncts:
it succeeded, it failed before it took effect and, where that differs in anything
later, it took effect and its answer was lost. An action is one stretch of code between two calls, so whatever another
goroutine can do in between is an interleaving. `PROJECT.json` maps every
definition to its lines.

**Launcher.** `Boot`, then reconcile (`ListMine`, `ReconcileStatus`,
`ReconcileToken`, `Reattach`, `ReconcileFail`, `ReconcileSkip`, `ReconcileKill`,
`ReconcileRemove`), the loop (`Beat`, `Answer`, `Offer`, `Start`, `Token`,
`Place`, `PlaceFails`, `SupervisePlaced`) and the drain (`DrainDeadline`,
`StopOne`, `StopReturns`, `Deregister`); `Terminate` is SIGTERM and `Crash`
SIGKILL. Per placement: `Deadline`, `DeadlineKill`, `TickStops`, `TickPasses`,
`KillReturns`, `WatchExit`, `WaitFails`, `Finish`; the executor's own steps;
`PodDeleted` and `Reap`. What the API does by itself is `ApiStep` and
`MonitorSettles`. The history variable `lost` holds the attempts of which a
report, a claim or a listing never got through: properties that cannot hold for
those except them by name, and nothing else.

The driver's calls fail as the API's do, out of the same bound. `KillLost` is a
Kill that never arrives (on Kubernetes the pod is marked as killed before the
call); its caller goes on without waiting. A Kill that arrives and whose answer is lost
is not a case of its own: it is a Kill that is waited for. `RemovePlacement` has the two ways its
error, which is only logged, leaves things: an `inspect` or a `Get` that fails
falls through to the deletion (`container.go:455-462`, `kubernetes.go:386-395`),
so a failed placement goes that should be kept; a deletion that fails leaves what
should go, such as a canceled pod, which `Reap` then keeps for its window like a
failed one. The properties of what is kept or removed except the step in which a
call of that Remove failed (`losses' = losses`), not what other calls did
before. One simplification: a
reconcile whose Kill was lost goes on to Remove at once where no signal was sent
before; where an earlier life had sent one, it waits for the executor's end.

**Executor.** The contexts are what the three engines derive theirs from: a
phase's steps before its engine obey SIGTERM only, a play's and a work item's
are watched from the start (`Told`, `JobDone`, `EngineDone`). `Settled`,
`Sigterm`, `Expire` and `Die` can come at any step. Assumed: the process can
deny others of its user to inspect it (`DenySameUserInspection`, a prctl). Where
it cannot, `main` exits with 1, the code of a failed job, and reports nothing
(`cmd/ansible-runner/main.go:36-40`); the contract does not hold of such a host.

**KubernetesPlacement.** `Write` applies the next of Place's objects,
`WriteFails` may have taken effect, `Undo` deletes what Place remembers. The
sweeps list first and delete by name later, one by one. Ages stand for the two
windows of the code (2 and 5 minutes): an attempt's objects grow old only once
nobody is placing it, which is what the constants' comments promise.

**JobsNetwork.** A rule set is the sequence the script writes; `Verdict` takes
the first rule of a connection's hook that matches. Addresses stand for ranges,
one family for both. `Reaches` is the host: every table must let a connection
through, an accept in DOCKER-USER passes Docker's own rules, one in a table of
our own does not. `Policy` is `NetworkPolicy`'s comment, as a predicate. What the
host and the engines do is external, taken from the comments of `network.go`.
Each name stands for a range of its own: the subnets are apart from the named
ranges (`NetworkAssumption`).

**ContainerPlacement.** `Place`'s calls in order (`PlaceClosed`, `PullImage`,
`createVolume`, `CreateCopy`, `StartCopy`, `CopyEnded`, `CreateBox`, `Confine`,
`BindPart`, `CheckBind`, `CreateBare`, `StartBox`), each with the failure and the
clean-up the code has for it; `WatchStops`, `WatchEnds`, `WatchRemoves`, `Reap`
and, after a `Crash`, `ListBoxes` and `Reconcile`. A call that fails without
ending what made it counts as a loss (`Lose`).

**Snapshot, PlayContent.** A repository is a set of paths, with the items its
plays name and the roles each role leads to. What imports and dependencies lead
to is `Closed`, the least set that they do not lead out of. Ansible's side
(`Played`, `Looked`, `PlayNeeds`) is external: every item counts there, under
whatever key, and every meta. The snapshot's walk knows an item only under its
short key (`Known`: `include_role`, not `ansible.builtin.include_role`,
`snapshot.go:81,173,183`), and reads a role's dependencies only from a
`meta/main.yml` that parses (`metas`). What a play reads of modules, plugins and
templates beyond playbooks, roles and included files is not modelled. `Capture` is the work item; `gitCommits`,
`FetchCached`, `seedCollections`, `seedRoles`, `rewriteGitRequirements`,
`InstallCollections` and `InstallRoles` are the install, whose context ends by
`Expire` or `Stop`; `Publish` is a release or a push meanwhile, of a source the
job's requirements name. Requirements name a collection or a role once, and the
cache holds one version of it (`Unambiguous`): `ansible-galaxy` keeps one, and
fails where two are asked for. A Galaxy role may have the name of one of the
repository: with an install staged, `WithJobSearchPaths` puts the staged roles
(`Stage`) and the playbook's before what was in effect. Roles are compared as the code
compares them, by name: what `seedRoles` holds to be the cache's is not reported
whatever version is staged (`servedBeyond`, `galaxy_cache.go:297`), and
`ansible-galaxy` keeps a staged role of another version, since it is not told to
force one. `unlisted` remembers the roles held to be the cache's although the
list that would have installed them could not be written (`galaxy_cache.go:158`).
A requirement given as a bare string is not pointed at its archive
(`galaxy_cache.go:209`). Failures of the local disk other than that one and the
rewritten requirements' are not modelled.

**Cache.** `PrepareEntry` and `FetchEnds` bracket the time a body takes to
arrive; the copy is a sequence, least recently used first, temporary files
included. `Evict` removes one file at a time, as the loop of `evict` does, and
`PrepareEnds` follows when the rest fits or is kept. A body is checked in each of
the three places it is used: `Places` (the launcher's `fetch`), `Local` (the
executor's `copyVerified`) and `Hashes` (a body of the API, good or bad).
`Enqueue`, `Take` and `Promote` are the populator's.

## The runs

| Run | Instance | Question |
|---|---|---|
| `launcher_restart` | 2 jobs, capacity 1, container, 2 lives, no lost call | Does capacity hold over a restart, does a poll or a restart fail or stop what is alive? |
| `launcher_container` | 1 job, capacity 1, container, 2 lives, 1 lost call of the API or the engine, fairness | Is every end settled, every running job watched, a failure kept; does work settle, a drain end, a slot become free, an executor whose attempt is over stop? |
| `launcher_kubernetes` | 1 job with a retry, capacity 2, Kubernetes, 1 lost call of either API | Is a timeout a failure and a cancel none where Kill deletes the placement? |
| `executor` | all six kinds of job, guard on, fairness | Do code, report and engine agree, is an outcome backed, does a stop end it, is the contract kept? |
| `kubernetes_placement` | 1 attempt with and without account and pull Secret, 1 lost deletion, 1 cut, fairness | Is a released pod complete, does a sweep take only what is over, does anything leak? |
| `container_placement` | 1 attempt, kept when failed, 4 engines, 2 networks, 2 moves, 2 lives, 1 lost call | Do the rules mean the policy when a job starts, do they stand while they are rewritten, is a started container complete and confined, is a failed one kept? |
| `play_content` | every layout of 2 playbooks and 2 roles that the snapshot follows, qualified keys where all of it is kept; 3 sets of requirements over 3 sets of cached entries, and a Galaxy role with and without one of the repository by its name; 2 releases or pushes of each source named; fairness | Does the play find what the repository has or a role staged in its place, is what is staged accounted for, is it current, does the install end? |
| `cache` | 2 keys, 2 jobs sharing one, limit 1, queue 1, 1 crash, 2 faults, fairness | Is the copy bounded, does it keep what the job being placed reads, is every promotion settled once? |
| `launcher_fails_live`, `launcher_reap_race`, `container_unstarted`, `snapshot_misses` | small | Four statements of the code's own comments that do not hold; see below. |

Why the bounds are enough. The launcher's jobs interact through capacity only,
so two of them over one slot show every way room can be counted wrongly, and one
of them with two attempts every way two placements of a job meet. Two lives are
one restart with something to find; a third would find what the second could
have left. One lost call can be any one of the API's, a Kill's or a Remove's; two
that fail together are what the theorems with any losses are for. An
attempt's objects carry its name, so attempts share nothing but the launcher,
which places one at a time, and the host's rules, which every placement passes.
Two networks, one behind a bridge the engine isolates and one behind none, and
two moves are a network that appears, or goes and comes back with its subnet, on
either side of a listing. Two playbooks and two roles are the shortest chain of
imports and of dependencies; what a longer chain adds is the same lookup again.
Two releases of a source let it move before and after its commit is resolved. In the cache, two entries over a limit of one and two
promotions over a queue of one are at the limit at once; entries of one size lose
nothing but the arithmetic of sizes. `CHECK_DEADLOCK FALSE` stands in every
configuration because a launcher whose lives are used up, and an executor that
has exited, are meant to stop.

Fairness. Weak fairness on the steps of a goroutine (it is scheduled, its timers
fire, its calls have timeouts), on the engine's or kubelet's SIGKILL after the
grace, on the monitor, and in `KubernetesPlacement` on the cluster's own
controllers. Strong fairness on `WatchExit`: `select` picks among the ready
channels at random, so a watcher whose ticker also fires is not starved. There
is none on users, on engines ending by themselves, on crashes or on lost calls.
In `PlayContent` a command may hang as long as its context lives: only the
deadline, and the end of a command whose context is over (`galaxyKillGrace`), are
fair. In `KubernetesPlacement` the executor of a settled attempt ends, which is
`StopEnds` of `Executor`; in `Executor` a completion is answered in the end.

### What the properties say

`PlacesWithinCapacity`, `ExecutorsWithinCapacity`: capacity, as a placement finds
it and as the host sees it (`RoomIsReal`, as the loop counts it, is proved).
`EndedIsReported`, `RunningIsWatched`, `WorkSettles`: no job is forgotten.
`FailsOnlyTheDead`, `StopsOnlyTheSettled`: nothing alive is failed or stopped.
`TimeoutIsFailure`, `FailureIsKept`, `CancelIsNotKept`: the outcome of a race is
the one AC12 and AC25 in the code's comments name. `DrainEnds`, `SlotIsFreed`,
`OverStops`: nothing hangs. `WorkSettles` and `OverStops` except an attempt that
lost a report or a token: a placement adopted without a token has no timeout
(`reconcile.go:34-40`), and only the API's own ends it. `DrainEnds` excepts the
same placement where the one Kill that `stopAll` sends it is lost too: a SIGTERM
between reconcile's Status and JobToken is enough for there to be no token, and
drain waits for the watcher of an executor nobody else tells to stop.
`FailureIsKept` and `CancelIsNotKept` except the end whose own Remove lost a call.

`ExitIsReported`, `KeepsContract`: the code and the API's record agree.
`OutcomeIsTrue`, `OutcomeIsBacked`: the record and the engine agree, and what
others build on was handed over. `StopEnds`: a stop.

`ReleasedIsComplete`, `SweepsOnlyTheOver`, `NothingLeaks` of the Kubernetes
placement; `StartedIsReady`, `KeptUntilOld` and, as a finding, `EndedIsSettled` of
the container placement.

`PlacedIsThePolicy` compares, for every connection a job can try, what the host
does with what the policy says, when a placement has closed the networks it
listed. `RulesStand` is the same on the nftables backend for jobs that run while
the rules are written again; it is not stated for iptables, where the chain is
flushed and refilled rule by rule.

`PlayFindsWhatTheRepoHas` compares lookups in the snapshot and the staged roles,
with the search paths the install sets, with lookups in the repository: a role
lies where it lay, or is the staged one where an install staged that name and the
repository's does not lie beside the playbook. `InstallIsAccounted` relates the
staging directories, the manifest and what the job says it reused: all that a
server gave is reported, but for a role that `unlisted` names;
`CachedIsCurrent` and `InstallEnds` are about sources that move or hang.

`NodeIsBounded`, `KeepsItsOwn`, `PromotedOnce`,
`PromotionsSettle` of the caches.

Each property of a passing run has a mutant: a definition of the module changed
the way a plausible bug would, with which the run fails.

### Where the code and its comments part

1. `launcher_fails_live` (`FailsOnlyTheDead`): reconcile reads status and token
   by job, so a kept placement of an earlier attempt makes it fail the attempt
   that is running. The executor of that attempt stops as for a cancel, so its
   placement is not kept either.
2. `launcher_reap_race` (`EndedIsReported`): the Kubernetes sweep deletes through
   `Kill`, so a watcher that finds the pod gone takes a crash for a stop and
   nobody reports it. `RunningIsWatched` and `WorkSettles` are therefore not
   checked on Kubernetes.
3. `container_unstarted` (`EndedIsSettled`): `List` counts a created container as
   running, so a container whose launcher died before it started it is adopted;
   its wait answers 0 at once, which counts as reported.
4. `snapshot_misses` (`PlayFindsWhatTheRepoHas`): roles are looked for at the root
   and beside the top playbook only, imports are followed everywhere. The run's
   repositories also have items under a fully qualified key, which the walk
   neither follows nor takes for a reason to keep the whole repository
   (`snapshot.go:81,173,183`), a second way to miss what a play needs.

Met while modelling, without a run of their own.

In the launcher: an `inspect` that fails makes `Remove` delete the container of a
failed job it should keep (`container.go:455-462`, the same on Kubernetes with
`Get`), and a pod of a canceled job whose deletion fails is kept for the failures'
window (`supervise.go:153-155` only logs); one status call that fails at a restart makes reconcile stop a
running placement of an active job (`reconcile.go:29,50`); a peer that has not
heard an answer since still reaps a runner that is back under its identity
(`launcher.go:240`, against the comment at 388-390); a placement adopted without
a token has no timeout; an answer that says nothing of
job tokens leaves the offers of the same answer to be claimed
(`launcher.go:385-402`); a timed-out pod is deleted by `Kill`, so it is never
kept; an executor that is stopped and whose completion is lost exits as a stop,
which the launcher does not report on; `Remove` in reconcile does not know that a
job was canceled and keeps its placement; pods whose executor never ended have no
finish time and are swept at once (`kubernetes.go:419-421`); reconcile's one
failed `List` is final; a claim whose answer is lost orphans the job; `isStuck`
takes `ErrImagePull` as final; a Prepare that is interrupted skips its eviction;
a source that cannot be reached drops a promotion as refused; `tofu apply` that
fails uploads no state, and OpenTofu may use the whole kill grace to stop, which
leaves none to upload and report; SIGTERM while a phase or a play is still fetching is
reported as a failure, not as a cancellation (`tofuexec/run.go:211`).

In the container driver: an executor volume is removed before the copy container
that still holds it, so a failed copy leaves it (`container.go:322-330`), and one
that a killed launcher made before the job container carries no label a sweep
looks for; the copy container has no role label, although `List`'s comment names
it among what it leaves out (`container.go:310,517`); the iptables chains are
flushed and refilled rule by rule, so jobs that outlive their launcher run with
fewer rules meanwhile; two launchers of one host are not serialised.

In the play's content: a snapshot leaves out symlinks, the roles only a role's
own tasks include, and the dependencies of a role whose meta is a `meta/main.yaml`
or does not parse (`snapshot.go:241-250`), and of a role in two places keeps the
root's where Ansible takes the playbook's; cached roles whose list cannot be
written are held for installed, so the one a server then gives is not reported
(`galaxy_cache.go:126,158,297`); a cached role of another version than the one
required stays, and is what the play runs; a seed of cached roles that fails leaves what it staged
(`galaxy_cache.go:159-162`), unlike the collections'; a branch that moves between
`git ls-remote` and the clone is reported at the commit it was resolved to, not
the one installed; a role from a git URL under a Galaxy name is reported as a
Galaxy role, because `nonGalaxy` is keyed by URL (`galaxy_cache.go:265-269`);
`extractTarGz` cuts a file at 256 MiB without an error.

## The proofs

Each theorem holds for every value of the constants its module's assumption
admits (any jobs, capacities, attempts, entries, networks, bounds); further
hypotheses are named below, with why the code needs them. All follow one
pattern: an inductive invariant, shown for `Init` and for each action of `Next`,
and the property from it. TLC checked each invariant on the component's run
before it was proved.

**LauncherProofs** (from `LauncherAssumption`: the jobs are finitely many,
capacity and bounds are numbers).
`TypeCorrect` proves `[]TypeOK`, one step per action; every other proof about the
launcher stands on it. `RoomCorrect` and `PlacementCorrect` prove
`[]RoomIsReal` and `[]PlacesWithinCapacity` for every capacity. Neither is
inductive: what is free says nothing of the claim in hand, and the guard of a
placement was looked at several steps earlier. `CapacityInv` adds that a claim in
hand was begun with room and for a job that is not in flight, which every step
keeps because only the claiming goroutine adds to `inflight` and the watchers
only take from it. The counting rests on `FiniteSetTheorems`.

**LauncherReportProofs.** `ReportInv` (`ReportCorrect`) ties the API's record of
an attempt to the executor's token and report, the watcher's flags and the
signals sent, in whatever order the four arrive. On it stand
* `EndedOrDeletedCorrect`, every driver: what the launcher is done with is over,
  or a report of it was lost, or this life deleted its pod. So a
  deletion of its own (the sweep's in `launcher_reap_race`, a drain's) is the only
  way to an end that nobody reports. `EndedCorrect` is its case without pods;
* `TimeoutCorrect`, without a hypothesis;
* `StopsSettledCorrect` where no call is lost, and `StopsCorrect` with any losses,
  for the weaker `StopsOnlyTheOverOrLost`;
* `CancelCorrect` where a wait fails only with the placement gone, or no call is
  lost: a container whose wait failed is settled as failed while its executor
  still runs, which then stops and is kept. Like the property, it excepts the end
  whose Remove lost a call;
* `SingleCorrect`, for any capacity: a launcher for one job (`Config.Single`)
  claims and places nothing once it supervises a job it claimed. `SingleInv`: such
  a launcher is at no claim, and has room for none until its answer is dealt with;
  before, it has room for one. A life is meant: a restart finds the job of the
  last one and takes one of its own beside it.

**LauncherSlotProofs.** `SlotInv` (`SlotCorrect`) says that every executor at work
in the loop's phase is one the launcher supervises, once reconcile is through.
It needs `NothingEscapes`: the in-process driver, or the container driver with no
lost call, since a restart whose one `List` fails leaves its executors
unsupervised, and beside them it places as many again. From it and `CapacityInv`,
`ExecutorsCorrect`. `WatchedCorrect` is for the container driver and a pool that
keeps its failures: of a pool that does not, the sweep may take a placement that
ended before its watcher saw it, and a crash then leaves nothing to find it by.
`FailsCorrect` holds where no job is retried or the launcher does not restart;
beyond that it is false (`launcher_fails_live`), and `FailsOwnCorrect` says what
stays true: of a job's first attempt, and in a launcher's first life.

`KeptCorrect` and `OwnKeptCorrect` say the same of what is kept, for the container
driver. A failure is settled in one step and kept or removed several steps later,
by what the launcher then remembers, so the invariant `KeepInv` follows an attempt
in between: what was failed while it is watched was not stopped, but for its
timeout (`FailInv`), and what the launcher holds for canceled is not failed
(`CanceledInv`). Of the lost calls only that Remove's own matters, which removes a
container it cannot inspect; a Kill that is lost, or a report, does not. A retry
with a restart does: TLC
finds a first attempt that died and is kept, a second one adopted after a crash,
reconcile failing that second one with its own token because of the first, and
its executor, told that it is over, exiting as a stop, which is taken for a cancel
and not kept.

**ExecutorProofs** (from `ExecutorAssumption`). `ExecutorInv` is inductive:
types; a report carries a decided result (`ResultKnown`); the code follows
`reported` (`CodeIsTrue`); a result was earned by the engine when it was decided
(`OutcomeIsEarned`), and stays true of what the API holds (`OutcomeIsTrue`); what
a result stands for was handed over before the report (`WorkIsHanded`,
`OutcomeIsBacked`). The outcome properties alone are not inductive, because they
speak of the API's record, which `Report` copies from a result decided steps
earlier. From it follow `ExitCorrect`, `OutcomeCorrect`, `BackedCorrect`, and
`ContractKept`: `Spec => KeepsContract`, the refinement of `ExecutorContract`,
with each step of `Next` mapped to a step of the contract or to a stutter.

**KubernetesProofs.** `OwnedInv`: past the write of an object, a pod still at its
gate owns it; `SweepInv`: of what a sweep has listed nothing is being written, and
what a launcher listed of its own has ended or is gone. They stand on `PlacedInv`
(the attempt being placed is young and its gate closed), `FreshInv` and
`NamedInv`. `ReleasedCorrect` and `SweepsCorrect` are action properties: they
speak of a deletion by name, which may come long after its list.

**ContainerProofs** (from `NetworkAssumption` and `ContainerAssumption`). Three
layers. *What the rules decide*: `FirstDecides` and its companions reduce
`Verdict` to the first rule that matches; `FirewallLayout`, `NFTablesLayout` and
`PodmanLayout` say of the three scripts which rule a hook holds at which place;
`PolicyHolds` then proves, connection by connection, that behind a script's rules
and any denials appended since, `Reaches(c) <=> Policy(c)` for every network they
deny. *What stands*: `Stands(L)` is a script's rules with appended denials;
`NetInv` says that a launcher that is up has such rules and that they deny all of
`known`, `StandInv` that on the nftables backend they stand as long as a job
runs, whatever the launcher is at. *Where a placement is*: `StepInv` says what the
attempt being placed has made by each call, `BoxInv` what any container mounts and
sees, `FreshInv` that a pending attempt has nothing; the steps are proved in
groups, by what each leaves alone (`PlaceStepIsSound`, `EngineStepIsSound`,
`BesideStepIsSound`). `ContainerInvariant` is their sum; from it follow
`PolicyCorrect`, `RulesStandCorrect`, `ReadyCorrect` and the action property
`KeptCorrect`.

**PlayContentProofs** (from `ContentAssumption`, `IsRepository` and `Unambiguous`
among it).
`SnapshotIsOfTheRepo` and the lemmas on `Placed` and `After` say what the
operators return; `SeededInv`, `PlacedInv`, `ManifestInv` and `CommitInv` say at
each step of the install where what is staged came from and at which commit. From
them `AccountedCorrect` and `CurrentCorrect`. For `AccountedCorrect` the
invariant says that a server's role is staged only under a name that no cached
role was staged under: `ansible-galaxy` keeps what is there, and a role held to be
the cache's is there unless its list was not written.

`FindsCorrect` is for any graph of imports and dependencies and any place of the
roles in it, as `Followed` limits it: no link among what is kept and the playbooks
in one directory; and, unless the snapshot keeps the whole repository, items under
short keys, each role in one of the two places it is looked for, a meta that is
read, and no include in a role's own tasks that its meta does not name.
`snapshot_misses` lies outside of it, and every repository of
`play_content` within (`ScopedAssumption`). The proof compares two closures
without an induction: a least set is within any set that is closed, so it is
enough that the roles the snapshot keeps, with what Ansible looks up for them,
are closed under Ansible's steps. `SnapInv` says that a job runs from its
playbook's snapshot.

**CacheProofs** (from `CacheAssumption`). Beside the types, `QueueInv` (what is
queued or verified is marked, and once) gives `PromotedCorrect`; `CopyInv` (a path
holds one file, the file being written is the newest) gives `BoundedCorrect`,
with the eviction's order, and the action property `KeepsCorrect`.

Only model-checked is what holds under fairness, which is out of the prover's
reach: `WorkSettles`, `DrainEnds`, `SlotIsFreed`, `OverStops`, `StopEnds`,
`NothingLeaks`, `PromotionsSettle`, `InstallEnds`. Every invariant and every other
action property of the passing runs is proved.

`RoomIsReal`, `SingleTakesOne` and the executor's `TypeOK` are proved and have no
run: the proofs subsume what a small instance would say.

## The plan

Done: `Launcher`, `ExecutorContract`, `Executor`, `KubernetesPlacement`, `Cache`,
`JobsNetwork` with `ContainerPlacement`, `Snapshot` with `PlayContent`, and the
proofs of each. In this order, next:

1. `Ensure` and `Inventory` of the Kubernetes driver's long-lived objects.
2. The in-process driver as an instance of `Launcher`, and a launcher for one job
   that restarts.

The launcher's executor steps are not related to `ExecutorContract` by a
refinement. That they take only steps the contract allows would say that the
launcher assumes no more than the contract's words; that it may assume as much
is `ContractKept`. That every step of the contract has its counterpart in the
launcher is a matter of ENABLED, out of the prover's reach.

## Not modelled

Durations (a timer may fire whenever it is armed), the log stream, image digests
and limits reports, health endpoints, configuration, manifests' contents,
signature and checksum formats, archives, environment and credential files,
workload identity exchanges, and the API's own decisions beyond what the runner
sees of them; of the container driver, two launchers on one host, a second
address family, and limits and users beyond their refusing a placement; of the
snapshot, everything a path's contents say beyond the names a play uses; of a
play, the modules, plugins and templates it reads, and roles that lie beside it
outside a `roles` directory; of every process, failures of its local disk but for
those its module names.
`PROJECT.json` lists each component with its reason, and under
`hazards` what is hard to test in this code, with the property that watches it
or why none does.
