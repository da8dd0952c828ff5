------------------------ MODULE KubernetesPlacement ------------------------
(***************************************************************************)
(* What the Kubernetes driver writes for one attempt and who removes it    *)
(* (launcher/driver/kubernetes.go, launcher.go's sweeps).  A launcher       *)
(* places attempts, one at a time: a ServiceAccount, a gated pod, Secrets   *)
(* the pod owns, the account's owner, the gate lifted.  Its own sweep, and  *)
(* that of a peer the API named it lost to, run beside it.  It can stop     *)
(* between any two writes, and any call to the API server can fail, having  *)
(* taken effect or not.                                                     *)
(*                                                                          *)
(* A placement in progress is younger than gateAbandonedAfter (2 minutes)   *)
(* and unownedSweepAfter (5 minutes), as their comments say: an attempt's   *)
(* objects age only once nobody is placing it.                              *)
(***************************************************************************)
EXTENDS Naturals, FiniteSets

CONSTANTS
  Attempts,  \* the attempts, each with a name of its own for its objects
  Asked,     \* what a placement may ask for besides its pod and Secret
  Losses,    \* bound: deletions that fail, pods somebody else deletes
  Cuts,      \* bound: how often the API stops hearing the launcher
  None

ASSUME PlacementAssumption ==
  /\ IsFiniteSet(Attempts) /\ None \notin Attempts
  /\ Asked \subseteq SUBSET {"sa", "pull"}
  /\ Losses \in Nat /\ Cuts \in Nat

VARIABLES
  launcher,  \* "up", "cut" (the API hears nothing of it) or "down"
  cur,       \* the attempt it is placing, or None
  step,      \* the write Place makes next, or "undo"
  asks,      \* the optional objects of the placement: its account, its pull Secret
  written,   \* what Place remembers having written
  watched,   \* the attempts its watchers supervise
  state,     \* the API's status of each attempt
  named,     \* the API names the launcher lost
  known,     \* ... and the peer heard so last
  pod, sa, secret, pull,  \* the objects of each attempt
  age,       \* 1: older than gateAbandonedAfter, 2: than unownedSweepAfter
  sweep,     \* for each sweeper: what its sweep does, and to what
  losses, cuts

placeVars == <<cur, step, asks, written>>
apiVars   == <<state, named>>
objVars   == <<pod, sa, secret, pull, age>>
bounds    == <<losses, cuts>>
vars == <<launcher, placeVars, watched, apiVars, known, objVars, sweep, bounds>>

Sweepers == {"own", "peer"}
Steps    == {"sa", "pod", "secret", "pull", "owner", "gate", "undo", "none"}
Objects  == {"sa", "pod", "secret", "pull"}

TypeOK ==
  /\ launcher \in {"up", "cut", "down"}
  /\ cur \in Attempts \cup {None} /\ step \in Steps
  /\ asks \subseteq {"sa", "pull"} /\ written \subseteq Objects
  /\ watched \subseteq Attempts
  /\ state \in [Attempts -> {"pending", "active", "settled"}]
  /\ named \in BOOLEAN /\ known \in BOOLEAN
  /\ pod \in [Attempts -> {"none", "gated", "released", "running", "stuck", "ok", "failed", "expired"}]
  /\ sa \in [Attempts -> {"none", "unowned", "owned", "stale"}]
  /\ secret \in [Attempts -> {"none", "owned", "stale"}]
  /\ pull \in [Attempts -> {"none", "owned", "stale"}]
  /\ age \in [Attempts -> 0 .. 2]
  /\ sweep \in [Sweepers -> [does : {"idle", "kill", "pods", "accounts"}, todo : SUBSET Attempts]]
  /\ losses \in 0 .. Losses /\ cuts \in 0 .. Cuts

Lose == losses < Losses /\ losses' = losses + 1

\* What the pod's status alone says.
EndedByStatus(x) == pod[x] \in {"ok", "failed", "expired", "stuck"}
\* exitOf: ended, or stuck, or still gated by a launcher that stopped placing it.
Ended(x) == pod[x] \in {"ok", "failed", "expired", "stuck"} \/ (pod[x] = "gated" /\ age[x] >= 1)

\* A deleted pod's objects keep naming it as their owner.
Orphan(obj, x) == [obj EXCEPT ![x] = IF @ = "owned" THEN "stale" ELSE @]
DeletePod(x) ==
  /\ pod' = [pod EXCEPT ![x] = "none"]
  /\ sa' = Orphan(sa, x) /\ secret' = Orphan(secret, x) /\ pull' = Orphan(pull, x)

-----------------------------------------------------------------------------
(* The launcher places. *)

Claim(x) ==
  /\ launcher = "up" /\ cur = None
  /\ state[x] = "pending"
  /\ state' = [state EXCEPT ![x] = "active"]
  /\ cur' = x /\ written' = {}
  /\ asks' \in Asked
  /\ step' = IF "sa" \in asks' THEN "sa" ELSE "pod"
  /\ UNCHANGED <<launcher, watched, named, known, objVars, sweep, bounds>>

\* Place's order.
StepAfter ==
  CASE step = "sa" -> "pod"
    [] step = "pod" -> "secret"
    [] step = "secret" -> IF "pull" \in asks THEN "pull" ELSE IF "sa" \in asks THEN "owner" ELSE "gate"
    [] step = "pull" -> IF "sa" \in asks THEN "owner" ELSE "gate"
    [] step = "owner" -> "gate"
    [] step = "gate" -> "none"

\* An object written before its owner.
OwnedByNone == "unowned"
\* An object owned by the pod of its placement, which may be gone by now.
Owned == IF pod[cur] = "none" THEN "stale" ELSE "owned"

\* The API server admits a new pod only with its account present.
Admitted == step \in {"pod", "gate"} /\ pod[cur] = "none" /\ "sa" \in asks => sa[cur] # "none"

\* What the step's server-side apply does: it creates what is missing, a pod deleted meanwhile too.
Applied ==
  /\ sa' = CASE step = "sa" -> [sa EXCEPT ![cur] = "unowned"]
             [] step = "owner" -> [sa EXCEPT ![cur] = Owned]
             [] OTHER -> sa
  /\ pod' = CASE step = "pod" -> [pod EXCEPT ![cur] = "gated"]
              [] step = "gate" /\ pod[cur] \in {"none", "gated"} -> [pod EXCEPT ![cur] = "released"]
              [] OTHER -> pod
  /\ secret' = IF step = "secret" THEN [secret EXCEPT ![cur] = Owned] ELSE secret
  /\ pull' = IF step = "pull" THEN [pull EXCEPT ![cur] = Owned] ELSE pull

Write ==
  /\ launcher # "down" /\ cur # None /\ step \notin {"undo", "none"}
  /\ Admitted /\ Applied
  /\ step' = StepAfter
  /\ written' = written \cup ({step} \cap Objects)
  /\ UNCHANGED <<launcher, cur, asks, watched, apiVars, known, age, sweep, bounds>>

\* A refusal, an error or an interrupted call, which may have taken effect all the same.
WriteFails ==
  /\ launcher # "down" /\ cur # None /\ step \notin {"undo", "none"}
  /\ UNCHANGED <<pod, sa, secret, pull>> \/ (Admitted /\ Applied)
  /\ step' = "undo"
  /\ UNCHANGED <<launcher, cur, asks, written, watched, apiVars, known, age, sweep, bounds>>

\* Place returned, and supervise follows.
Placed ==
  /\ launcher # "down" /\ step = "none" /\ cur # None
  /\ watched' = watched \cup {cur}
  /\ cur' = None /\ asks' = {} /\ written' = {}
  /\ UNCHANGED <<launcher, step, apiVars, known, objVars, sweep, bounds>>

LastWritten ==
  CASE "pull" \in written -> "pull"
    [] "secret" \in written -> "secret"
    [] "pod" \in written -> "pod"
    [] OTHER -> "sa"

\* undo deletes one more object; it ignores a deletion that fails.
Undo ==
  /\ launcher # "down" /\ step = "undo" /\ written # {}
  /\ \/ UNCHANGED losses
        /\ CASE LastWritten = "pod" -> DeletePod(cur)
             [] LastWritten = "sa" -> sa' = [sa EXCEPT ![cur] = "none"] /\ UNCHANGED <<pod, secret, pull>>
             [] LastWritten = "secret" -> secret' = [secret EXCEPT ![cur] = "none"] /\ UNCHANGED <<pod, sa, pull>>
             [] LastWritten = "pull" -> pull' = [pull EXCEPT ![cur] = "none"] /\ UNCHANGED <<pod, sa, secret>>
     \/ Lose /\ UNCHANGED <<pod, sa, secret, pull>>
  /\ written' = written \ {LastWritten}
  /\ UNCHANGED <<launcher, cur, step, asks, watched, apiVars, known, age, sweep, cuts>>

\* Place failed; claim reports it, if the API can be reached.
PlaceFailed ==
  /\ launcher # "down" /\ step = "undo" /\ written = {}
  /\ state' = IF launcher = "up" THEN [state EXCEPT ![cur] = "settled"] ELSE state
  /\ cur' = None /\ step' = "none" /\ asks' = {}
  /\ UNCHANGED <<launcher, written, watched, named, known, objVars, sweep, bounds>>

\* The watcher of an ended or vanished pod: ended's report, and Remove, which keeps a failed pod.
Watch(x) ==
  /\ launcher # "down" /\ x \in watched
  /\ Ended(x) \/ pod[x] = "none"
  /\ watched' = watched \ {x}
  /\ state' = IF launcher = "up" THEN [state EXCEPT ![x] = "settled"] ELSE state
  /\ \/ pod[x] # "none" /\ DeletePod(x)
     \/ pod[x] \in {"none", "failed", "expired", "stuck"} /\ UNCHANGED <<pod, sa, secret, pull>>
  /\ UNCHANGED <<launcher, placeVars, named, known, age, sweep, bounds>>

-----------------------------------------------------------------------------
(* The sweeps: Reap of a launcher's own placements, reapLostPeers of a peer's. *)

\* Whatever has ended, and what is about to start.
ReapableAll(x) == pod[x] # "none"
\* Ended, and neither failed and within its window; only a pod whose executor ended has a finish time.
Reapable(x) == Ended(x) /\ pod[x] # "failed"

\* An account without an owner, whoever is placing it.
UnownedAny(x) == sa[x] = "unowned"
\* ... older than any placement in progress.  The per-job Secrets have an owner from their first write.
Unowned(x) == sa[x] = "unowned" /\ age[x] = 2

Sweeping(w, does) == sweep[w].does = does /\ sweep[w].todo = {}
Sweeps(w, does, todo) == sweep' = [sweep EXCEPT ![w] = [does |-> does, todo |-> todo]]

SweepOwn ==
  /\ launcher # "down" /\ Sweeping("own", "idle")
  /\ Sweeps("own", "pods", {x \in Attempts : Reapable(x)})
  /\ UNCHANGED <<launcher, placeVars, watched, apiVars, known, objVars, bounds>>

\* The peer lists what runs under the lost launcher's label.
SweepPeer ==
  /\ known /\ Sweeping("peer", "idle")
  /\ Sweeps("peer", "kill", {x \in Attempts : pod[x] # "none" /\ ~Ended(x)})
  /\ UNCHANGED <<launcher, placeVars, watched, apiVars, known, objVars, bounds>>

\* The next list of the sweep, or its end.
SweepNext(w) ==
  /\ w = "own" => launcher # "down"
  /\ \/ Sweeping(w, "kill") /\ Sweeps(w, "pods", {x \in Attempts : Reapable(x)})
     \/ Sweeping(w, "pods") /\ Sweeps(w, "accounts", {x \in Attempts : Unowned(x)})
     \/ Sweeping(w, "accounts") /\ Sweeps(w, "idle", {})
  /\ UNCHANGED <<launcher, placeVars, watched, apiVars, known, objVars, bounds>>

\* One deletion, by name, of what was listed; a failed one is left to the next sweep.
SweepDelete(w, x) ==
  /\ w = "own" => launcher # "down"
  /\ x \in sweep[w].todo
  /\ sweep' = [sweep EXCEPT ![w].todo = @ \ {x}]
  /\ \/ UNCHANGED losses
        /\ IF sweep[w].does = "accounts"
           THEN sa' = [sa EXCEPT ![x] = "none"] /\ UNCHANGED <<pod, secret, pull>>
           ELSE DeletePod(x)
     \/ Lose /\ UNCHANGED <<pod, sa, secret, pull>>
  /\ UNCHANGED <<launcher, placeVars, watched, apiVars, known, age, cuts>>

-----------------------------------------------------------------------------
(* Around them: the API, the cluster, and time. *)

\* The API server's garbage collector.
Collect(x) ==
  /\ "stale" \in {sa[x], secret[x], pull[x]}
  /\ sa' = [sa EXCEPT ![x] = IF @ = "stale" THEN "none" ELSE @]
  /\ secret' = [secret EXCEPT ![x] = IF @ = "stale" THEN "none" ELSE @]
  /\ pull' = [pull EXCEPT ![x] = IF @ = "stale" THEN "none" ELSE @]
  /\ UNCHANGED <<launcher, placeVars, watched, apiVars, known, pod, age, sweep, bounds>>

\* The kubelet: a released pod starts, or its image or a Secret is missing; it ends or is evicted.
PodStarts(x) ==
  /\ pod[x] = "released"
  /\ \/ secret[x] # "none" /\ pod' = [pod EXCEPT ![x] = "running"]
     \/ pod' = [pod EXCEPT ![x] = "stuck"]
  /\ UNCHANGED <<launcher, placeVars, watched, apiVars, known, sa, secret, pull, age, sweep, bounds>>

\* The executor ends having reported, or without; one whose attempt is over ends.
PodEnds(x) ==
  /\ pod[x] = "running"
  /\ \/ pod' = [pod EXCEPT ![x] = "ok"] /\ state' = [state EXCEPT ![x] = "settled"]
     \/ \E end \in {"failed", "stuck"} : pod' = [pod EXCEPT ![x] = end] /\ UNCHANGED state
  /\ UNCHANGED <<launcher, placeVars, watched, named, known, sa, secret, pull, age, sweep, bounds>>

\* A node that is drained or lost, or somebody with kubectl.
PodDeleted(x) ==
  /\ pod[x] # "none" /\ Lose
  /\ DeletePod(x)
  /\ UNCHANGED <<launcher, placeVars, watched, apiVars, known, age, sweep, cuts>>

Ages(x) ==
  /\ x # cur /\ state[x] # "pending" /\ age[x] < 2
  /\ age' = [age EXCEPT ![x] = @ + 1]
  /\ UNCHANGED <<launcher, placeVars, watched, apiVars, known, pod, sa, secret, pull, sweep, bounds>>

\* keep_failed_jobs_for has passed, at once where nothing is kept.
KeepOver(x) ==
  /\ pod[x] = "failed"
  /\ pod' = [pod EXCEPT ![x] = "expired"]
  /\ UNCHANGED <<launcher, placeVars, watched, apiVars, known, sa, secret, pull, age, sweep, bounds>>

\* SIGKILL, or a replaced launcher pod: its successor registers under another identity.
Crash ==
  /\ launcher # "down"
  /\ launcher' = "down"
  /\ cur' = None /\ step' = "none" /\ asks' = {} /\ written' = {} /\ watched' = {}
  /\ sweep' = [sweep EXCEPT !["own"] = [does |-> "idle", todo |-> {}]]
  /\ UNCHANGED <<apiVars, known, objVars, bounds>>

Cut ==
  /\ launcher = "up" /\ cuts < Cuts
  /\ launcher' = "cut" /\ cuts' = cuts + 1
  /\ UNCHANGED <<placeVars, watched, apiVars, known, objVars, sweep, losses>>

\* The monitor marks it offline, settles its work and names it to its pool.
Lost ==
  /\ launcher # "up" /\ ~named
  /\ named' = TRUE
  /\ state' = [x \in Attempts |-> IF state[x] = "active" THEN "settled" ELSE state[x]]
  /\ UNCHANGED <<launcher, placeVars, watched, known, objVars, sweep, bounds>>

\* A heartbeat of the launcher arrives again: it is back under the same identity.
Back ==
  /\ launcher = "cut"
  /\ launcher' = "up" /\ named' = FALSE
  /\ UNCHANGED <<placeVars, watched, state, known, objVars, sweep, bounds>>

\* A heartbeat of the peer is answered: the answer's list replaces the one it had.
PeerHears ==
  /\ known # named
  /\ known' = named
  /\ UNCHANGED <<launcher, placeVars, watched, apiVars, objVars, sweep, bounds>>

-----------------------------------------------------------------------------
(* The specification. *)

Init ==
  /\ launcher = "up" /\ cur = None /\ step = "none" /\ asks = {} /\ written = {} /\ watched = {}
  /\ state = [x \in Attempts |-> "pending"] /\ named = FALSE /\ known = FALSE
  /\ pod = [x \in Attempts |-> "none"] /\ sa = [x \in Attempts |-> "none"]
  /\ secret = [x \in Attempts |-> "none"] /\ pull = [x \in Attempts |-> "none"]
  /\ age = [x \in Attempts |-> 0]
  /\ sweep = [w \in Sweepers |-> [does |-> "idle", todo |-> {}]]
  /\ losses = 0 /\ cuts = 0

Placing == Write \/ WriteFails \/ Placed \/ Undo \/ PlaceFailed
Swept(w) == SweepNext(w) \/ \E x \in Attempts : SweepDelete(w, x)

Next ==
  \/ Placing \/ SweepOwn \/ SweepPeer \/ \E w \in Sweepers : Swept(w)
  \/ Crash \/ Cut \/ Lost \/ Back \/ PeerHears
  \/ \E x \in Attempts :
       \/ Claim(x) \/ Watch(x) \/ Collect(x) \/ PodStarts(x) \/ PodEnds(x) \/ PodDeleted(x)
       \/ Ages(x) \/ KeepOver(x)

Spec == Init /\ [][Next]_vars

\* Timers run, calls return, time passes, the cluster does its part, and an executor whose attempt is
\* over ends (Executor's StopEnds).
Fairness ==
  /\ WF_vars(Placing) /\ WF_vars(SweepOwn) /\ WF_vars(SweepPeer)
  /\ \A w \in Sweepers : WF_vars(Swept(w))
  /\ WF_vars(Lost) /\ WF_vars(PeerHears)
  /\ \A x \in Attempts :
       /\ WF_vars(Watch(x)) /\ WF_vars(Collect(x)) /\ WF_vars(PodStarts(x))
       /\ WF_vars(state[x] = "settled" /\ PodEnds(x))
       /\ WF_vars(Ages(x)) /\ WF_vars(KeepOver(x))

FairSpec == Spec /\ Fairness

-----------------------------------------------------------------------------
(* Properties. *)

Complete(x) ==
  /\ secret[x] = "owned"
  /\ "sa" \in asks => sa[x] = "owned"
  /\ "pull" \in asks => pull[x] = "owned"

\* A gate is lifted only from a pod that owns everything it needs, whatever sweeps beside it: the
\* kubelet never starts one whose account a sweep took or whose Secrets are to come (Place, Reap).
ReleasedIsComplete ==
  [][\A x \in Attempts : pod[x] = "gated" /\ pod'[x] = "released" => Complete(x)]_vars

SweepsRunning(w, x) ==
  SweepDelete(w, x) /\ pod[x] # "none" /\ pod'[x] = "none" /\ ~Ended(x) /\ state[x] = "active"

\* No sweep deletes the pod of an active attempt that has not ended: a launcher's own never, a peer's
\* only from a list that is out of date (Reap, reapLostPeers).
SweepsOnlyTheOver ==
  [][\A w \in Sweepers, x \in Attempts : SweepsRunning(w, x) => w = "peer" /\ ~named]_vars

Clean(x) == pod[x] = "none" /\ sa[x] = "none" /\ secret[x] = "none" /\ pull[x] = "none"

\* Nothing of an attempt that is over stays, wherever its launcher stopped and whichever deletion
\* failed: the owner, the sweep or the peer takes it (Place, Reap, AC46).
NothingLeaks == \A x \in Attempts : state[x] = "settled" /\ x # cur ~> Clean(x)

=============================================================================
