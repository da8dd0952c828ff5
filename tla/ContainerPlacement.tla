------------------------ MODULE ContainerPlacement ------------------------
(***************************************************************************)
(* What the container driver does on the engine for one attempt, and who    *)
(* removes it (launcher/driver/container.go, engineapi.go), beside the jobs *)
(* network it places into.  A launcher places attempts one at a time: the   *)
(* new networks closed, the image pulled, the executor copied into a volume *)
(* for a custom image, the job container created, what it sees of the cache *)
(* checked, the container started.  The launcher can stop between any two   *)
(* calls, and a call can fail, having taken effect or not.  A restart       *)
(* prepares the network and reconciles the containers it finds (launcher's   *)
(* reconcile.go); watchers and the sweep run beside the placing.            *)
(***************************************************************************)
EXTENDS JobsNetwork

CONSTANTS
  Attempts,   \* the attempts, each with a container name of its own
  Kept,       \* those of a pool that keeps its failed jobs for a while
  Asked,      \* what a placement may ask for: its image and its cache
  MaxLosses   \* bound: calls that fail without ending what made them

ASSUME ContainerAssumption ==
  /\ IsFiniteSet(Attempts) /\ None \notin Attempts
  /\ Kept \subseteq Attempts
  /\ Asked \subseteq [custom : BOOLEAN, cache : {"none", "dir", "volume"}]
  /\ MaxLosses \in Nat

VARIABLES
  cur, step, \* the attempt Place is at, and the call it makes next
  asks,      \* what it was asked for
  box,       \* each attempt's job container: its state, exit code and what it sees of the cache
  vol,       \* each attempt's executor volume, and how far it is filled
  copy,      \* each attempt's copy container
  state,     \* the API's status of each attempt
  watch,     \* where each attempt's supervision is
  canceled,  \* placements marked Canceled
  old,       \* ended for longer than their keep window
  todo, dead,\* what reconcile listed and has yet to go through, and what it saw ended
  lost,      \* history: attempts with a report that never got through
  losses

placeVars == <<cur, step, asks>>
boxVars   == <<box, vol, copy, old>>
jobVars   == <<state, watch, canceled, lost, losses>>
recVars   == <<todo, dead>>
vars == <<netVars, placeVars, boxVars, jobVars, recVars>>

Steps == {"idle", "close", "pull", "volume", "copy", "copystart", "copywait", "create", "confine",
          "bind", "checkbind", "bare", "start", "list", "reconcile"}
Box(st, code, sees) == [st |-> st, code |-> code, sees |-> sees]
NoBox == Box("none", "none", "none")

TypeOK ==
  /\ nets \subseteq Subnets /\ jobsnet \in {"none", "isolated", "open"}
  /\ rules \in Seq(HostRule)
  /\ phase \in {"down", "network", "list", "write", "up", "close", "append", "closed", "refused"}
  /\ listed \subseteq Subnets /\ (known = None \/ known \subseteq Subnets)
  /\ cur \in Attempts \cup {None} /\ step \in Steps
  /\ cur # None => phase \in {"close", "append", "closed", "refused"} /\ step \notin {"idle", "list", "reconcile"}
  /\ phase \in {"close", "append", "closed", "refused"} => cur # None
  /\ box \in [Attempts -> [st : {"none", "created", "running", "ended"},
                           code : {"none", "completed", "failed", "stopped", "killed"},
                           sees : {"none", "own", "other", "every"}]]
  /\ vol \in [Attempts -> {"none", "empty", "partial", "whole"}]
  /\ copy \in [Attempts -> {"none", "created", "running", "ended"}]
  /\ state \in [Attempts -> {"pending", "active", "canceled", "settled"}]
  /\ watch \in [Attempts -> {"none", "watch", "removing", "done"}]
  /\ canceled \cup old \cup todo \cup lost \subseteq Attempts /\ dead \subseteq todo
  /\ losses \in Nat

Lose == losses < MaxLosses /\ losses' = losses + 1
Up == phase \notin {"down", "network", "list", "write"}

-----------------------------------------------------------------------------
(* The launcher's claim, and the end of a placement. *)

Claim(x) ==
  /\ phase = "up" /\ step = "idle" /\ state[x] = "pending"
  /\ state' = [state EXCEPT ![x] = "active"]
  /\ cur' = x /\ asks' \in Asked /\ step' = "close" /\ phase' = "close"
  /\ UNCHANGED <<still, nets, jobsnet, rules, listed, known, moves, boots,
                 boxVars, watch, canceled, lost, losses, recVars>>

Rest == <<still, nets, jobsnet, rules, listed, known, moves, boots, asks, recVars, old, canceled>>

PlacingHeld == cur' = None /\ step' = "idle" /\ UNCHANGED phase
PlacingOver == cur' = None /\ step' = "idle" /\ phase' = "up"
\* Place answered with an error: the launcher fails the job, or its report is lost.
PlaceFails ==
  /\ PlacingOver
  /\ \/ /\ state' = [state EXCEPT ![cur] = IF @ = "active" THEN "settled" ELSE @]
        /\ UNCHANGED <<lost, losses>>
     \/ Lose /\ lost' = lost \cup {cur} /\ UNCHANGED state
  /\ UNCHANGED <<Rest, watch>>

GoesOn(next) == step' = next /\ UNCHANGED <<Rest, phase, cur, state, watch, lost>>

-----------------------------------------------------------------------------
(* Place, one call to the engine after the other. *)

PlaceClosed ==
  /\ step = "close"
  /\ \/ phase = "closed" /\ GoesOn("pull") /\ UNCHANGED losses
     \/ phase = "refused" /\ PlaceFails
  /\ UNCHANGED <<box, vol, copy>>

\* The image is pulled, its user and the limits checked: each may refuse the placement.
PullImage ==
  /\ step = "pull"
  /\ \/ GoesOn(IF asks.custom THEN "volume" ELSE "create") /\ UNCHANGED losses
     \/ PlaceFails
  /\ UNCHANGED <<box, vol, copy>>

\* injectExecutor.  A volume is removed only where no container holds it.
createVolume ==
  /\ step = "volume"
  /\ \/ vol' = [vol EXCEPT ![cur] = "empty"] /\ GoesOn("copy") /\ UNCHANGED losses
     \/ PlaceFails /\ vol' \in {vol, [vol EXCEPT ![cur] = "empty"]}
  /\ UNCHANGED <<box, copy>>

CreateCopy ==
  /\ step = "copy"
  /\ \/ copy' = [copy EXCEPT ![cur] = "created"] /\ GoesOn("copystart") /\ UNCHANGED <<vol, losses>>
     \/ PlaceFails /\ UNCHANGED copy /\ vol' = [vol EXCEPT ![cur] = "none"]
     \/ PlaceFails /\ copy' = [copy EXCEPT ![cur] = "created"] /\ UNCHANGED vol
  /\ UNCHANGED box

\* The volume's removal comes before the copy container's, which still holds it.
StartCopy ==
  /\ step = "copystart"
  /\ \/ copy' = [copy EXCEPT ![cur] = "running"] /\ GoesOn("copywait") /\ UNCHANGED losses
     \/ PlaceFails /\ copy' = [copy EXCEPT ![cur] = "none"]
  /\ UNCHANGED <<box, vol>>

\* The copy ends, with the whole executor in the volume or an exit code other than 0.
CopyEnds(x) ==
  /\ copy[x] = "running"
  /\ copy' = [copy EXCEPT ![x] = "ended"]
  /\ vol' \in {[vol EXCEPT ![x] = v] : v \in {"partial", "whole"}}
  /\ UNCHANGED <<netVars, placeVars, box, old, jobVars, recVars>>

\* The wait answers the copy's exit code, or is cut off; the copy container goes either way, unless
\* its removal, which nothing waits for, fails.
CopyIsDone == copy[cur] = "ended" /\ vol[cur] = "whole"
CopyEnded ==
  /\ step = "copywait"
  /\ \/ CopyIsDone /\ GoesOn("create") /\ copy' = [copy EXCEPT ![cur] = "none"] /\ UNCHANGED losses
     \/ CopyIsDone /\ GoesOn("create") /\ Lose /\ UNCHANGED copy
     \/ ~CopyIsDone /\ PlaceFails /\ copy' = [copy EXCEPT ![cur] = "none"]
  /\ UNCHANGED <<box, vol>>

\* A container's name is the attempt's: a second one is refused while the first is there.
Creates(sees, next) ==
  \/ /\ box[cur] = NoBox /\ box' = [box EXCEPT ![cur] = Box("created", "none", sees)]
     /\ GoesOn(next) /\ UNCHANGED losses
  \/ box[cur] = NoBox /\ PlaceFails /\ box' \in {box, [box EXCEPT ![cur] = Box("created", "none", sees)]}
  \/ box[cur] # NoBox /\ PlaceFails /\ UNCHANGED box

\* A volume's subpath the engine does not honour shows the whole volume.
CreateBox ==
  /\ step = "create"
  /\ Creates(CASE asks.cache = "none" -> "none"
               [] asks.cache = "dir" -> "own"
               [] asks.cache = "volume" -> IF engine.subpath THEN "own" ELSE "every",
             IF asks.cache = "volume" THEN "confine" ELSE "start")
  /\ UNCHANGED <<vol, copy>>

\* Whatever the engine mounted.
ConfineTrusts == step = "confine" /\ GoesOn("start") /\ UNCHANGED <<box, losses, vol, copy>>

\* confineCacheVolume: a container that may see more than its organization's part is removed and
\* made again, with the part bound from the host where the engine tells where it is, or without.
Unmade(next) ==
  \/ GoesOn(next) /\ box' = [box EXCEPT ![cur] = NoBox] /\ UNCHANGED losses
  \/ GoesOn(next) /\ Lose /\ UNCHANGED box
Confine ==
  /\ step = "confine"
  /\ \/ box[cur].sees = "own" /\ GoesOn("start") /\ UNCHANGED <<box, losses>>
     \/ box[cur].sees # "own" /\ (Unmade("bind") \/ Unmade("bare"))
     \/ box[cur].sees = "own" /\ Lose /\ box' = [box EXCEPT ![cur] = NoBox] /\ (GoesOn("bind") \/ GoesOn("bare"))
  /\ UNCHANGED <<vol, copy>>

BindPart == step = "bind" /\ (Creates("own", "checkbind") \/ Creates("other", "checkbind")) /\ UNCHANGED <<vol, copy>>
CheckBind ==
  /\ step = "checkbind"
  /\ \/ box[cur].sees = "own" /\ GoesOn("start") /\ UNCHANGED <<box, losses>>
     \/ box[cur].sees # "own" /\ Unmade("bare")
     \/ box[cur].sees = "own" /\ Lose /\ box' = [box EXCEPT ![cur] = NoBox] /\ GoesOn("bare")
  /\ UNCHANGED <<vol, copy>>
CreateBare == step = "bare" /\ Creates("none", "start") /\ UNCHANGED <<vol, copy>>

\* The job runs and is supervised; or the start failed, and the container is removed, unless that
\* fails as well, whether or not it runs.
StartBox ==
  /\ step = "start"
  /\ \/ /\ box[cur].st = "created"
        /\ box' = [box EXCEPT ![cur].st = "running"]
        /\ PlacingOver /\ watch' = [watch EXCEPT ![cur] = "watch"]
        /\ UNCHANGED <<Rest, state, lost, losses>>
     \/ PlaceFails /\ box' = [box EXCEPT ![cur] = NoBox]
     \/ /\ Lose /\ PlacingOver
        /\ box' \in {box, [box EXCEPT ![cur].st = "running"]}
        /\ state' = [state EXCEPT ![cur] = IF @ = "active" THEN "settled" ELSE @]
        /\ UNCHANGED <<Rest, watch, lost>>
  /\ UNCHANGED <<vol, copy>>

Place == PlaceClosed \/ PullImage \/ createVolume \/ CreateCopy \/ StartCopy \/ CopyEnded
           \/ CreateBox \/ Confine \/ BindPart \/ CheckBind \/ CreateBare \/ StartBox

-----------------------------------------------------------------------------
(* The job's executor, and the API beside it. *)

\* The executor reports and exits with a code of its own, or dies before it reports.
ExecutorEnds(x) ==
  /\ box[x].st = "running"
  /\ \/ /\ box' \in {[box EXCEPT ![x].st = "ended", ![x].code = k] : k \in {"completed", "failed"}}
        /\ state' = [state EXCEPT ![x] = IF @ = "active" THEN "settled" ELSE @]
     \/ /\ box' = [box EXCEPT ![x].st = "ended", ![x].code = "killed"]
        /\ UNCHANGED state
  /\ UNCHANGED <<netVars, placeVars, vol, copy, old, watch, canceled, lost, losses, recVars>>

\* Somebody cancels the job.
Cancel(x) ==
  /\ state[x] = "active"
  /\ state' = [state EXCEPT ![x] = "canceled"]
  /\ UNCHANGED <<netVars, placeVars, boxVars, watch, canceled, lost, losses, recVars>>

\* An ended container outlives its keep window.
Ages(x) ==
  /\ box[x].st = "ended" /\ x \in Kept \ old
  /\ old' = old \cup {x}
  /\ UNCHANGED <<netVars, placeVars, box, vol, copy, jobVars, recVars>>

\* The next attempt takes the place of one that is over and left nothing.
NextAttempt(x) ==
  /\ state[x] \in {"settled", "canceled"} /\ x # cur /\ watch[x] \in {"none", "done"}
  /\ box[x] = NoBox /\ vol[x] = "none" /\ copy[x] = "none" /\ x \notin todo
  /\ state' = [state EXCEPT ![x] = "pending"]
  /\ watch' = [watch EXCEPT ![x] = "none"]
  /\ lost' = lost \ {x} /\ canceled' = canceled \ {x}
  /\ UNCHANGED <<netVars, placeVars, boxVars, losses, recVars>>

-----------------------------------------------------------------------------
(* Wait, Kill, Remove, Reap and List, called by the launcher's watchers, sweep and restart. *)

beside == <<netVars, placeVars, recVars>>

\* What Wait answers: the exit code of a container that is not running, 0 for one that never ran;
\* nothing of one that is gone.
WaitResults(x) ==
  CASE box[x].st = "ended"   -> {box[x].code}
    [] box[x].st = "created" -> {"completed"}
    [] box[x].st = "none"    -> {"lost"}
    [] OTHER                 -> {}

\* The engine stops the container: the executor turns the signal into a stop, or is killed.
Stopped(x) ==
  IF box[x].st # "running" THEN {box}
  ELSE {[box EXCEPT ![x].st = "ended", ![x].code = k] : k \in {"stopped", "killed"}}

\* The watcher finds the job canceled.
WatchStops(x) ==
  /\ Up /\ watch[x] = "watch" /\ state[x] = "canceled" /\ x \notin canceled
  /\ canceled' = canceled \cup {x}
  /\ box' \in Stopped(x)
  /\ UNCHANGED <<beside, vol, copy, old, state, watch, lost, losses>>

\* An exit code that is not one of the executor's own is reported here, or the report is lost.
WatchEnds(x) ==
  /\ Up /\ watch[x] = "watch"
  /\ \E r \in WaitResults(x) :
       /\ canceled' = IF r = "stopped" THEN canceled \cup {x} ELSE canceled
       /\ \/ /\ r \in {"killed", "lost"}
             /\ state' = [state EXCEPT ![x] = IF @ = "active" THEN "settled" ELSE @]
             /\ UNCHANGED <<lost, losses>>
          \/ r \in {"killed", "lost"} /\ Lose /\ lost' = lost \cup {x} /\ UNCHANGED state
          \/ r \notin {"killed", "lost"} /\ UNCHANGED <<state, lost, losses>>
  /\ watch' = [watch EXCEPT ![x] = "removing"]
  /\ UNCHANGED <<beside, boxVars>>

\* removeContainer: the container by force, then its volume by the label it carries.
Deleted(x) ==
  /\ box' = [box EXCEPT ![x] = NoBox]
  /\ vol' = IF box[x] # NoBox /\ copy[x] = "none" THEN [vol EXCEPT ![x] = "none"] ELSE vol
  /\ old' = old \ {x}
KeepsIt(b, x) == x \in Kept /\ x \notin canceled /\ b[x].code \in {"failed", "stopped", "killed"}
\* Remove.  Where the inspect fails the container goes without a look at its labels.
RemovePlacement(x) ==
  \/ KeepsIt(box, x) /\ UNCHANGED <<boxVars, losses>>
  \/ ~KeepsIt(box, x) /\ Deleted(x) /\ UNCHANGED <<copy, losses>>
  \/ Lose /\ box' = [box EXCEPT ![x] = NoBox] /\ old' = old \ {x} /\ UNCHANGED <<vol, copy>>
  \/ Lose /\ UNCHANGED boxVars

WatchRemoves(x) ==
  /\ Up /\ watch[x] = "removing"
  /\ RemovePlacement(x)
  /\ watch' = [watch EXCEPT ![x] = "done"]
  /\ UNCHANGED <<beside, state, canceled, lost>>

\* Every ended container, whatever its pool keeps.
ReapsEveryWindow(x) == box[x].st = "ended"
\* Reap: ended for the keep window of its own pool.
ReapsIt(x) == box[x].st = "ended" /\ (x \in Kept => x \in old)
Reap(x) ==
  /\ Up /\ ReapsIt(x)
  /\ Deleted(x)
  /\ UNCHANGED <<beside, copy, jobVars>>

-----------------------------------------------------------------------------
(* The launcher stops and starts again. *)

Crash ==
  /\ phase # "down"
  /\ phase' = "down" /\ cur' = None /\ step' = "list"
  /\ todo' = {} /\ dead' = {} /\ canceled' = {}
  /\ watch' = [x \in Attempts |-> IF watch[x] = "done" THEN "done" ELSE "none"]
  /\ UNCHANGED <<still, nets, jobsnet, rules, listed, known, moves, boots,
                 asks, boxVars, state, lost, losses>>

\* reconcile lists this launcher's containers, or does not go on if that fails.
ListBoxes ==
  /\ phase = "up" /\ step = "list"
  /\ \/ /\ todo' = {x \in Attempts : box[x] # NoBox}
        /\ dead' = {x \in Attempts : box[x].st = "ended"}
        /\ step' = "reconcile" /\ UNCHANGED <<lost, losses>>
     \/ /\ Lose /\ step' = "idle"
        /\ lost' = lost \cup {x \in Attempts : box[x] # NoBox} /\ UNCHANGED recVars
  /\ UNCHANGED <<netVars, cur, asks, boxVars, state, watch, canceled>>

\* Kill, then Remove.
StopAndRemove(x) ==
  \E b \in Stopped(x) :
    \/ KeepsIt(b, x) /\ box' = b /\ UNCHANGED <<vol, copy, old>>
    \/ ~KeepsIt(b, x) /\ Deleted(x) /\ UNCHANGED copy

\* A kill that fails leaves the force of the removal; a removal that fails leaves the container, or its
\* volume.
RemovalFails(x) ==
  /\ Lose /\ UNCHANGED copy
  /\ \/ box[x].st = "running" /\ Deleted(x)
     \/ box' \in Stopped(x) /\ UNCHANGED <<vol, old>>
     \/ box' = [box EXCEPT ![x] = NoBox] /\ old' = old \ {x} /\ UNCHANGED vol

\* A running placement of an active job is supervised again; one listed as ended fails its job; any
\* other is stopped and removed.  A status that cannot be read counts as not active.
Reconcile(x) ==
  /\ phase = "up" /\ step = "reconcile" /\ x \in todo
  /\ todo' = todo \ {x} /\ dead' = dead \ {x}
  /\ \/ /\ state[x] = "active" /\ x \notin dead
        /\ watch' = [watch EXCEPT ![x] = "watch"]
        /\ UNCHANGED <<boxVars, state, lost, losses>>
     \/ /\ state[x] # "active" \/ x \in dead
        /\ state' = [state EXCEPT ![x] = IF @ = "active" THEN "settled" ELSE @]
        /\ (StopAndRemove(x) /\ UNCHANGED losses) \/ RemovalFails(x)
        /\ UNCHANGED <<watch, lost>>
     \/ /\ state[x] = "active" /\ Lose /\ lost' = lost \cup {x}
        /\ StopAndRemove(x) /\ UNCHANGED <<state, watch>>
  /\ UNCHANGED <<netVars, placeVars, canceled>>

Reconciled ==
  /\ step = "reconcile" /\ todo = {}
  /\ step' = "idle"
  /\ UNCHANGED <<netVars, cur, asks, boxVars, jobVars, recVars>>

-----------------------------------------------------------------------------

Init ==
  /\ NetInit
  /\ cur = None /\ step = "list" /\ asks = CHOOSE a \in Asked : TRUE
  /\ box = [x \in Attempts |-> NoBox]
  /\ vol = [x \in Attempts |-> "none"] /\ copy = [x \in Attempts |-> "none"]
  /\ state = [x \in Attempts |-> "pending"]
  /\ watch = [x \in Attempts |-> "none"]
  /\ canceled = {} /\ old = {} /\ todo = {} /\ dead = {} /\ lost = {}
  /\ losses = 0

NetNext == (EnsureNetwork \/ closeNewNetworks \/ NetworkMoves)
             /\ UNCHANGED <<placeVars, boxVars, jobVars, recVars>>

Next ==
  \/ NetNext \/ Place \/ Crash \/ ListBoxes \/ Reconciled
  \/ \E x \in Attempts :
       \/ Claim(x) \/ CopyEnds(x) \/ ExecutorEnds(x) \/ Cancel(x) \/ Ages(x) \/ NextAttempt(x)
       \/ WatchStops(x) \/ WatchEnds(x) \/ WatchRemoves(x) \/ Reap(x) \/ Reconcile(x)

Spec == Init /\ [][Next]_vars

-----------------------------------------------------------------------------
(* Properties. *)

\* A placement that closed the new networks starts its job behind rules that let it open exactly
\* what the policy promises, on every engine with a firewall, wherever the API is, whatever networks
\* came and went before and whichever writer failed on the way (EnsureNetwork, closeNewNetworks).
PlacedIsThePolicy ==
  phase = "closed" /\ ~engine.rootless => \A c \in Connections(listed) : Reaches(c) <=> Policy(c)

\* On the nftables backend a job that outlived its launcher is never left with less than the rules,
\* also while the next one writes them again or fails to ("replaces in one transaction").
RulesStand ==
  detectFirewall = "nftables" /\ ~engine.rootless /\ (\E x \in Attempts : box[x].st = "running")
    => \A c \in Connections({}) : Reaches(c) <=> Policy(c)

\* A job container runs with the whole executor in the volume it mounts, and sees of the cache
\* nothing but its organization's part, also where the engine ignored what it was asked for and a
\* removal before failed (injectExecutor, confineCacheVolume).
StartedIsReady ==
  \A x \in Attempts :
    box[x].st = "running" => box[x].sees \in {"none", "own"} /\ vol[x] \in {"none", "whole"}

\* A failed job's container is there until its pool's window has passed, whichever of the watcher,
\* the sweep and a restart comes across it, unless the engine fails a call of its removal
\* (Remove, Reap, reconcile).
KeptUntilOld ==
  [][\A x \in Kept \ (old \cup canceled) :
       box[x].st = "ended" /\ box[x].code \in {"failed", "killed"}
         => box'[x].st # "none" \/ losses' > losses]_vars

\* The launcher is done with a placement only once the job is settled: "an executor that exited
\* with one of its own codes has already reported; anything else is reported here" (ended).
EndedIsSettled ==
  \A x \in Attempts : watch[x] = "done" /\ x \notin lost => state[x] \in {"canceled", "settled"}

=============================================================================
