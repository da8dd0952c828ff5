------------------------------ MODULE Launcher ------------------------------
(***************************************************************************)
(* The launcher (backend/internal/launcher): one main goroutine that       *)
(* registers, reconciles what an earlier life left, heartbeats, claims and *)
(* drains; one watcher goroutine per placement; the executors they place;  *)
(* and the API that holds the jobs.  An attempt of a job has at most one   *)
(* placement, so a placement is named by the pair <<job, attempt>>.        *)
(*                                                                         *)
(* Time is left out: a timer is an action that may fire once it is armed.  *)
(***************************************************************************)
EXTENDS Integers, FiniteSets

CONSTANTS
  Jobs,        \* the jobs of the pool
  MaxAttempt,  \* bound: attempts a job is retried up to
  Capacity,    \* Config.Capacity
  Single,      \* Config.Single: one job, then drain
  Driver,      \* the driver's name
  KeepFailed,  \* the pool keeps failed placements (keep_failed_jobs_for > 0)
  MaxBoots,    \* bound: lives of the launcher process
  MaxLosses,   \* bound: calls of the API or the driver that fail
  None         \* no placement

Drivers == {"container", "kubernetes", "inprocess"}

Attempts   == 1..MaxAttempt
Placements == Jobs \X Attempts
JobOf(p)     == p[1]
AttemptOf(p) == p[2]

ASSUME LauncherAssumption ==
  /\ IsFiniteSet(Jobs)
  /\ MaxAttempt \in Nat \ {0}
  /\ Capacity \in Nat \ {0}
  /\ Single \in BOOLEAN
  /\ KeepFailed \in BOOLEAN
  /\ Driver \in Drivers
  /\ MaxBoots \in Nat
  /\ MaxLosses \in Nat
  /\ None \notin Placements

VARIABLES
  api,       \* the API's record of each job
  main,      \* where the main goroutine is
  term,      \* Run's context has ended (SIGTERM)
  apiReady,  \* Launcher.apiReady
  free,      \* the beat's free capacity
  claimed,   \* loop's claimed > 0, which only Config.Single reads
  offers,    \* the answer's offers not yet looked at
  cur,       \* the placement being claimed or reconciled
  todo,      \* placements List returned and reconcile has not handled
  sawEnded,  \* those of them List returned with Ended
  active,    \* reconcile's reading of the job's status
  token,     \* attempt of the job token in hand, 0 for none
  inflight,  \* Launcher.inflight
  watch,     \* where each placement's watcher is
  tok,       \* supervised.token: its attempt, 0 for none
  timedOut, deleted, canceled,  \* flags of the watchers
  ex,        \* each placement's executor
  code,      \* its exit code
  sig,       \* why it was first told to stop
  killed,    \* Kubernetes.killed: the pods this life of the launcher deleted
  tostop,    \* stopAll's copy of the in-flight placements
  lost,      \* history: placements with a report or a listing that never got through
  boots, losses

apiVars   == <<api>>
mainVars  == <<main, term, apiReady, free, claimed, offers, cur, todo, sawEnded, active, token, tostop>>
watchVars == <<inflight, watch, tok, timedOut, deleted, canceled>>
exVars    == <<ex, code, sig, killed>>
histVars  == <<lost, boots, losses>>
vars == <<apiVars, mainVars, watchVars, exVars, histVars>>

Statuses == {"pending", "running", "completed", "failed", "canceled", "deleted"}
Settlers == {"none", "executor", "launcher", "user", "monitor"}
MainAt   == {"down", "list", "reconcile", "mint", "decide", "stop", "remove", "beat", "poll",
             "claim", "start", "token", "place", "supervise", "drain", "stopping", "stopped", "gone"}
WatchAt  == {"idle", "watch", "deadline", "killing", "removing", "done"}
ExStates == {"none", "working", "reported", "exited", "removed"}
Codes    == {"none", "completed", "failed", "unreported", "stopped", "killed"}
Signals  == {"none", "cancel", "deadline", "drain", "restart"}

ApiType == api \in [Jobs -> [status : Statuses, attempt : Attempts, mine : BOOLEAN, by : Settlers]]

MainType ==
  /\ main \in MainAt
  /\ term \in BOOLEAN /\ apiReady \in BOOLEAN /\ claimed \in BOOLEAN /\ active \in BOOLEAN
  /\ free \in Int
  /\ offers \subseteq Jobs
  /\ cur \in Placements \cup {None}
  /\ main \in {"mint", "decide", "stop", "remove", "start", "token", "place", "supervise"} => cur \in Placements
  /\ todo \subseteq Placements /\ sawEnded \subseteq Placements /\ tostop \subseteq Placements
  /\ token \in 0..MaxAttempt

WatchType ==
  /\ inflight \in [Jobs -> Placements \cup {None}]
  /\ watch \in [Placements -> WatchAt]
  /\ tok \in [Placements -> 0..MaxAttempt]
  /\ timedOut \subseteq Placements /\ deleted \subseteq Placements /\ canceled \subseteq Placements

ExType ==
  /\ ex \in [Placements -> ExStates]
  /\ code \in [Placements -> Codes]
  /\ sig \in [Placements -> Signals]
  /\ killed \subseteq Placements

HistType == lost \subseteq Placements /\ boots \in 0..MaxBoots /\ losses \in 0..MaxLosses

TypeOK == ApiType /\ MainType /\ WatchType /\ ExType /\ HistType

Busy     == {j \in Jobs : inflight[j] # None}
Watching == {p \in Placements : watch[p] \notin {"idle", "done"}}
Alive(p) == ex[p] \in {"working", "reported"}
\* An executor with p's job token is told the job is over: canceled, deleted, settled or revoked.
Over(p)  == ~(api[JobOf(p)].status = "running" /\ api[JobOf(p)].attempt = AttemptOf(p))
\* A status reconcile forgot: only a queued job is adopted again.
IsActiveQueued(status) == status = "pending"
\* isActive: "pending" stands for the queued statuses, "running" for the others.
IsActive(status) == status \in {"pending", "running"}

Reattaches == Driver # "inprocess"   \* Capabilities().SupportsReattach
KillWaits  == Driver = "container"   \* Kill returns once the executor has stopped

-----------------------------------------------------------------------------
(* The API, as the launcher's calls use it. *)

\* The first completion wins, and only the running attempt's job token is accepted.
Settle(j, n, outcome, who) ==
  api' = IF api[j].status = "running" /\ api[j].mine /\ api[j].attempt = n
         THEN [api EXCEPT ![j].status = outcome, ![j].by = who]
         ELSE api

Lose == losses < MaxLosses /\ losses' = losses + 1

\* FailWith: no job token means the runner token, which the API refuses.
FailWith(p, n) ==
  \/ /\ Settle(JobOf(p), n, "failed", "launcher")
     /\ lost' = IF n = 0 THEN lost \cup {p} ELSE lost
     /\ UNCHANGED <<losses, boots>>
  \/ Lose /\ lost' = lost \cup {p} /\ UNCHANGED <<api, boots>>

\* A report made with Run's own context is never sent once that context has ended.
FailWithRunCtx(p, n) ==
  IF term THEN lost' = lost \cup {p} /\ UNCHANGED <<api, losses, boots>>
          ELSE FailWith(p, n)

ApiStep(j) ==
  /\ \/ /\ api[j].status \in {"pending", "running"}
        /\ api' = [api EXCEPT ![j].status = "canceled", ![j].by = "user"]
     \/ /\ api[j].status \in {"pending", "running"}
        /\ api' = [api EXCEPT ![j].status = "deleted", ![j].by = "user"]
     \/ /\ api[j].status \in {"failed", "canceled"} /\ api[j].attempt < MaxAttempt
        /\ api' = [api EXCEPT ![j] = [status |-> "pending", attempt |-> @.attempt + 1,
                                      mine |-> FALSE, by |-> "none"]]
     \/ /\ api[j].status = "pending"
        /\ api' = [api EXCEPT ![j].status = "running"]
  /\ UNCHANGED <<mainVars, watchVars, exVars, histVars>>

\* The monitor settles the work of a runner that is offline.
MonitorSettles(j) ==
  /\ main \in {"down", "gone"}
  /\ api[j].status = "running" /\ api[j].mine
  /\ api' = [api EXCEPT ![j].status = "failed", ![j].by = "monitor"]
  /\ UNCHANGED <<mainVars, watchVars, exVars, histVars>>

-----------------------------------------------------------------------------
(* Executors and the driver that holds them. *)

\* The engine ended by itself; the executor reports its outcome and takes its exit code.
ExecFinish(p) ==
  /\ ex[p] = "working"
  /\ ex' = [ex EXCEPT ![p] = "reported"]
  /\ \E o \in {"completed", "failed"} :
       \/ /\ api[JobOf(p)].attempt = AttemptOf(p)
          /\ Settle(JobOf(p), AttemptOf(p), o, "executor")
          /\ code' = [code EXCEPT ![p] = o]
          /\ UNCHANGED <<lost, losses>>
       \/ /\ \/ api[JobOf(p)].attempt # AttemptOf(p) /\ UNCHANGED <<lost, losses>>
             \/ Lose /\ UNCHANGED lost
          /\ code' = [code EXCEPT ![p] = "unreported"]
          /\ UNCHANGED api
  /\ UNCHANGED <<mainVars, watchVars, sig, killed, boots>>

\* An executor that does not poll its job's status.
HearsSignal(p) == sig[p] # "none"
HearsStop(p) == sig[p] # "none" \/ Over(p)

\* Stopped, by SIGTERM or by its own status poll: it reports canceled and exits as a stop either way.
ExecStop(p) ==
  /\ ex[p] = "working" /\ HearsStop(p)
  /\ ex' = [ex EXCEPT ![p] = "reported"]
  /\ code' = [code EXCEPT ![p] = "stopped"]
  /\ \/ Settle(JobOf(p), AttemptOf(p), "canceled", "executor") /\ UNCHANGED <<lost, losses>>
     \/ Lose /\ lost' = lost \cup {p} /\ UNCHANGED api
  /\ UNCHANGED <<mainVars, watchVars, sig, killed, boots>>

ExecExit(p) ==
  /\ ex[p] = "reported"
  /\ ex' = [ex EXCEPT ![p] = "exited"]
  /\ UNCHANGED <<apiVars, mainVars, watchVars, code, sig, killed, histVars>>

\* A crash, an out-of-memory kill, or SIGKILL after the grace.
ExecDie(p) ==
  /\ Alive(p) /\ Driver # "inprocess"
  /\ ex' = [ex EXCEPT ![p] = "exited"]
  /\ code' = [code EXCEPT ![p] = "killed"]
  /\ UNCHANGED <<apiVars, mainVars, watchVars, sig, killed, histVars>>

GraceOver(p) == sig[p] # "none" /\ ExecDie(p)

\* Kill: SIGTERM to the executor, or its pod deleted.
Kill(p, why) ==
  /\ sig' = [sig EXCEPT ![p] = IF @ = "none" THEN why ELSE @]
  /\ killed' = IF Driver = "kubernetes" THEN killed \cup {p} ELSE killed

\* A Kill that never arrives; the Kubernetes driver has marked the pod as killed before it calls.
KillLost(p) ==
  /\ Driver # "inprocess" /\ Lose
  /\ killed' = IF Driver = "kubernetes" THEN killed \cup {p} ELSE killed
  /\ UNCHANGED sig

\* A kill that waits for the executor to end by itself.
KillDoneIfReported(p) == KillWaits => ~Alive(p) /\ code[p] # "killed"
\* What Kill waits for: a container has stopped, whether or not it took SIGKILL.
KillDone(p) == KillWaits => ~Alive(p)

\* What the driver's Remove leaves: a failed placement of a pool that keeps them, unless it was
\* canceled; a pod is gone once Kill deleted it.
Kept(p) ==
  /\ ex[p] = "exited" /\ code[p] # "completed"
  /\ KeepFailed /\ p \notin canceled /\ Driver # "inprocess"
  /\ Driver = "kubernetes" => sig[p] = "none"

\* A placement that is gone takes its exit code with it, unless its watcher still has to read it.
Gone(p) ==
  /\ ex' = [ex EXCEPT ![p] = "removed"]
  /\ IF watch[p] \in {"watch", "deadline", "killing"} THEN UNCHANGED <<code, sig>>
     ELSE code' = [code EXCEPT ![p] = "none"] /\ sig' = [sig EXCEPT ![p] = "none"]

\* Remove, whose error its callers only log: a placement it could not look at is removed even when
\* it should be kept, and one it could not delete stays.
RemovePlacement(p) ==
  \/ /\ IF Kept(p) THEN UNCHANGED <<ex, code, sig>> ELSE Gone(p)
     /\ UNCHANGED losses
  \/ Driver # "inprocess" /\ Lose /\ Gone(p)
  \/ Driver # "inprocess" /\ Lose /\ ~Kept(p) /\ UNCHANGED <<ex, code, sig>>

\* A pod that was deleted is gone once its executor has ended.
PodDeleted(p) ==
  /\ Driver = "kubernetes" /\ ex[p] = "exited" /\ sig[p] # "none"
  /\ Gone(p)
  /\ UNCHANGED <<apiVars, mainVars, watchVars, killed, histVars>>

-----------------------------------------------------------------------------
(* The watchers: supervise.go. *)

Supervise(p, n) ==
  /\ inflight' = [inflight EXCEPT ![JobOf(p)] = p]
  /\ watch' = [watch EXCEPT ![p] = "watch"]
  /\ tok' = [tok EXCEPT ![p] = n]
  /\ timedOut' = timedOut \ {p} /\ deleted' = deleted \ {p} /\ canceled' = canceled \ {p}

\* The kill without the report before it.
DeadlineUnreported(p) ==
  /\ watch[p] = "watch" /\ tok[p] # 0 /\ p \notin timedOut
  /\ timedOut' = timedOut \cup {p}
  /\ watch' = [watch EXCEPT ![p] = "deadline"]
  /\ UNCHANGED <<apiVars, mainVars, inflight, tok, deleted, canceled, exVars, histVars>>

\* watch's deadline, armed by the token's timeout: the failure is reported before the kill.
Deadline(p) ==
  /\ watch[p] = "watch" /\ tok[p] # 0 /\ p \notin timedOut
  /\ FailWith(p, tok[p])
  /\ timedOut' = timedOut \cup {p}
  /\ watch' = [watch EXCEPT ![p] = "deadline"]
  /\ UNCHANGED <<mainVars, inflight, tok, deleted, canceled, exVars>>

DeadlineKill(p) ==
  /\ watch[p] = "deadline"
  /\ \/ Kill(p, "deadline") /\ watch' = [watch EXCEPT ![p] = "killing"] /\ UNCHANGED losses
     \/ KillLost(p) /\ watch' = [watch EXCEPT ![p] = "watch"]
  /\ UNCHANGED <<apiVars, mainVars, inflight, tok, timedOut, deleted, canceled, ex, code, lost, boots>>

\* watch's ticker found the job canceled, or deleted (404).
TickStops(p) ==
  LET status == api[JobOf(p)].status
  IN  /\ watch[p] = "watch"
      /\ status \in {"canceled", "deleted"}
      /\ deleted' = IF status = "deleted" THEN deleted \cup {p} ELSE deleted \ {p}
      /\ canceled' = canceled \cup {p}
      /\ \/ Kill(p, "cancel") /\ watch' = [watch EXCEPT ![p] = "killing"] /\ UNCHANGED losses
         \/ KillLost(p) /\ UNCHANGED watch
      /\ UNCHANGED <<apiVars, mainVars, inflight, tok, timedOut, ex, code, lost, boots>>

\* watch's ticker failed to read the status of a job it had found deleted: deleted is read afresh.
TickPasses(p) ==
  /\ watch[p] = "watch" /\ p \in deleted
  /\ Lose
  /\ deleted' = deleted \ {p}
  /\ UNCHANGED <<apiVars, mainVars, inflight, watch, tok, timedOut, canceled, exVars, lost, boots>>

KillReturns(p) ==
  /\ watch[p] = "killing" /\ KillDone(p)
  /\ watch' = [watch EXCEPT ![p] = "watch"]
  /\ UNCHANGED <<apiVars, mainVars, inflight, tok, timedOut, deleted, canceled, exVars, histVars>>

\* A wait that gives up on the first error.
WaitResultsAnyError(p) == IF ex[p] = "exited" THEN {code[p]} ELSE {"lost"}
\* What Wait returns: the exit code; a stop for a pod this process deleted and that is gone; an
\* error ("lost") for any other placement that is gone, unless the engine had answered before.
WaitResults(p) ==
  CASE ex[p] = "exited"  -> {code[p]}
    [] ex[p] = "removed" -> IF Driver = "kubernetes"
                            THEN {IF p \in killed THEN "stopped" ELSE "lost"}
                            ELSE {code[p], "lost"}
    [] OTHER -> {}

\* Every exit code taken for one of the executor's own.
ReportsOnlyTheLost(result) == result = "lost"
\* An exit that is not one of the executor's own codes, or no exit at all.
NeedsReport(result) == result \notin {"completed", "failed", "stopped"}

\* A stop taken for a cancel after the timeout too; and never taken for one.
MarksTimeoutCanceled(p, r) == r = "stopped" /\ p \notin deleted
MarksNoneCanceled(p, r) == FALSE
\* The executor saw the cancel on its own poll.
MarksCanceled(p, r) == r = "stopped" /\ p \notin timedOut \cup deleted

\* watch's exit and ended up to the report.  A timeout was reported at the deadline, and a deleted
\* job has nobody to report to.
EndReport(p, r) ==
  /\ watch[p] = "watch"
  /\ canceled' = IF MarksCanceled(p, r) THEN canceled \cup {p} ELSE canceled
  /\ IF NeedsReport(r) /\ (r = "lost" \/ p \notin timedOut \cup deleted)
     THEN FailWith(p, tok[p])
     ELSE UNCHANGED <<api, lost, losses, boots>>
  /\ watch' = [watch EXCEPT ![p] = "removing"]
  /\ UNCHANGED <<mainVars, inflight, tok, timedOut, deleted, exVars>>

WatchExit(p) == \E r \in WaitResults(p) : EndReport(p, r)

\* Wait failed although the placement is there (the engine's connection was cut).
WaitFails(p) ==
  /\ Driver = "container" /\ ex[p] # "removed"
  /\ losses < MaxLosses
  /\ watch[p] = "watch"
  /\ losses' = losses + 1
  /\ Settle(JobOf(p), tok[p], "failed", "launcher")
  /\ lost' = IF tok[p] = 0 THEN lost \cup {p} ELSE lost
  /\ watch' = [watch EXCEPT ![p] = "removing"]
  /\ UNCHANGED <<mainVars, inflight, tok, timedOut, deleted, canceled, exVars, boots>>

\* ended's Remove, then finished: the job's entry is deleted whichever placement it names, and the
\* supervised struct is gone.
Finish(p) ==
  /\ watch[p] = "removing"
  /\ RemovePlacement(p)
  /\ watch' = [watch EXCEPT ![p] = "done"]
  /\ inflight' = [inflight EXCEPT ![JobOf(p)] = None]
  /\ tok' = [tok EXCEPT ![p] = 0]
  /\ timedOut' = timedOut \ {p} /\ deleted' = deleted \ {p} /\ canceled' = canceled \ {p}
  /\ UNCHANGED <<apiVars, mainVars, killed, lost, boots>>

\* The reap sweep removes an ended placement, watched or not, once its window has passed: at once
\* on a pool that keeps none, and a pod that completed or has no finish time.
Reap(p) ==
  /\ main \notin {"down", "gone", "list", "reconcile", "mint", "decide", "stop", "remove"} /\ ~term
  /\ Reattaches
  /\ ex[p] = "exited"
  /\ (watch[p] \in {"idle", "done"} /\ p # cur) \/ ~KeepFailed \/ Driver = "kubernetes"
  /\ Gone(p)
  /\ killed' = IF Driver = "kubernetes" THEN killed \cup {p} ELSE killed
  /\ UNCHANGED <<apiVars, mainVars, watchVars, histVars>>

-----------------------------------------------------------------------------
(* The main goroutine: a life of the process, and reconcile.go. *)

\* The state of a process that has just started.
FreshProcess ==
  /\ term' = FALSE /\ claimed' = FALSE /\ free' = 0
  /\ offers' = {} /\ cur' = None /\ todo' = {} /\ sawEnded' = {} /\ tostop' = {}
  /\ active' = FALSE /\ token' = 0
  /\ inflight' = [j \in Jobs |-> None]
  /\ watch' = [p \in Placements |-> "idle"]
  /\ tok' = [p \in Placements |-> 0]
  /\ timedOut' = {} /\ deleted' = {} /\ canceled' = {} /\ killed' = {}

\* Run up to reconcile: the launcher registers, under the identity of its earlier lives.
Boot ==
  /\ main \in {"down", "gone"} /\ boots < MaxBoots
  /\ boots' = boots + 1
  /\ main' = IF Reattaches THEN "list" ELSE "beat"
  /\ apiReady' \in BOOLEAN
  /\ FreshProcess
  /\ UNCHANGED <<api, ex, code, sig, lost, losses>>

\* The process dies; only the in-process driver's executors die with it.  A job that is claimed and
\* not placed leaves nothing a later life could find it by.
Crash ==
  /\ main \notin {"down", "gone"}
  /\ main' = "down"
  /\ apiReady' = FALSE
  /\ ex' = IF Reattaches THEN ex
           ELSE [p \in Placements |-> IF ex[p] = "none" THEN "none" ELSE "removed"]
  /\ lost' = IF main \in {"token", "place"} THEN lost \cup {cur} ELSE lost
  /\ FreshProcess
  /\ UNCHANGED <<api, code, sig, boots, losses>>

Terminate ==
  /\ main \notin {"down", "drain", "stopping", "stopped", "gone"} /\ ~term
  /\ term' = TRUE
  /\ UNCHANGED <<apiVars, main, apiReady, free, claimed, offers, cur, todo, sawEnded, active, token,
                 tostop, watchVars, exVars, histVars>>

restVars == <<term, apiReady, free, claimed, offers, tostop>>

\* A listing that leaves the running placements out.
ListedEnded == {p \in Placements : ex[p] = "exited"}
Listed == {p \in Placements : ex[p] \notin {"none", "removed"}}

\* A failed List is not tried again: what it would have returned is never adopted by this process.
ListMine ==
  /\ main = "list"
  /\ \/ /\ ~term
        /\ todo' = Listed
        /\ sawEnded' = {p \in Placements : ex[p] = "exited"}
        /\ main' = "reconcile"
        /\ UNCHANGED <<lost, losses>>
     \/ /\ term \/ losses < MaxLosses
        /\ losses' = IF term THEN losses ELSE losses + 1
        /\ lost' = lost \cup Listed
        /\ main' = "beat"
        /\ UNCHANGED <<todo, sawEnded>>
  /\ UNCHANGED <<apiVars, restVars, cur, active, token, watchVars, exVars, boots>>

\* Status: a job whose status cannot be read counts as over.
ReconcileStatus(p) ==
  LET answered == IsActive(api[JobOf(p)].status)
  IN  /\ main = "reconcile" /\ p \in todo
      /\ cur' = p
      /\ \/ ~term /\ active' = answered /\ UNCHANGED losses
         \/ ~term /\ Lose /\ active' = FALSE
         \/ term /\ active' = FALSE /\ UNCHANGED losses
      /\ main' = IF active' THEN "mint" ELSE "decide"
      /\ lost' = IF active' = answered THEN lost ELSE lost \cup {p}
      /\ UNCHANGED <<apiVars, restVars, todo, sawEnded, token, watchVars, exVars, boots>>

\* JobToken for a job that is active: the token is of the job's running attempt.
ReconcileToken ==
  LET job == api[JobOf(cur)]
  IN  /\ main = "mint"
      /\ main' = "decide"
      /\ \/ /\ ~term /\ UNCHANGED losses
            /\ token' = IF job.status = "running" /\ job.mine THEN job.attempt ELSE 0
         \/ ~term /\ Lose /\ token' = 0
         \/ term /\ token' = 0 /\ UNCHANGED losses
      /\ UNCHANGED <<apiVars, restVars, cur, todo, sawEnded, active, watchVars, exVars, lost, boots>>

\* The next turn of reconcile's loop, its variables fresh.
NextListed ==
  /\ todo' = todo \ {cur} /\ sawEnded' = sawEnded \ {cur}
  /\ cur' = None /\ active' = FALSE /\ token' = 0
  /\ main' = "reconcile"

Reattach ==
  /\ main = "decide" /\ active /\ cur \notin sawEnded
  /\ Supervise(cur, token)
  /\ NextListed
  /\ UNCHANGED <<apiVars, restVars, exVars, histVars>>

\* The placement died while the launcher was down: its job is failed, with the token of the
\* attempt the API has running.
ReconcileFail ==
  /\ main = "decide" /\ active /\ cur \in sawEnded
  /\ FailWithRunCtx(cur, token)
  /\ main' = "stop"
  /\ UNCHANGED <<restVars, cur, todo, sawEnded, active, token, watchVars, exVars>>

ReconcileSkip ==
  /\ main = "decide" /\ ~active
  /\ main' = "stop"
  /\ UNCHANGED <<apiVars, restVars, cur, todo, sawEnded, active, token, watchVars, exVars, histVars>>

ReconcileKill ==
  /\ main = "stop"
  /\ \/ term /\ UNCHANGED <<sig, killed, losses>>
     \/ ~term /\ Kill(cur, "restart") /\ UNCHANGED losses
     \/ ~term /\ KillLost(cur)
  /\ main' = "remove"
  /\ UNCHANGED <<apiVars, restVars, cur, todo, sawEnded, active, token, watchVars, ex, code, lost, boots>>

\* Remove; a pod still terminating is deleted again, with no grace.
ReconcileRemove ==
  /\ main = "remove"
  /\ term \/ sig[cur] = "none" \/ KillDone(cur)
  /\ \/ ~term /\ RemovePlacement(cur)
     \/ (term \/ (Driver = "kubernetes" /\ Alive(cur))) /\ UNCHANGED <<ex, code, sig, losses>>
  /\ NextListed
  /\ UNCHANGED <<apiVars, restVars, watchVars, killed, lost, boots>>

Reconciled ==
  /\ main = "reconcile" /\ todo = {}
  /\ main' = "beat"
  /\ UNCHANGED <<apiVars, restVars, cur, todo, sawEnded, active, token, watchVars, exVars, histVars>>

-----------------------------------------------------------------------------
(* The main goroutine: loop, claim and drain (launcher.go). *)

recVars == <<todo, sawEnded, active>>

SingleDone == Single /\ claimed

\* The head of loop: what is free decides how the next heartbeat is sent.
Beat ==
  LET room == Capacity - Cardinality(Busy)
  IN  /\ main = "beat" /\ ~term
      /\ ~SingleDone
      /\ free' = IF ~apiReady THEN 0 ELSE IF Single /\ room > 1 THEN 1 ELSE room
      /\ main' = "poll"
      /\ UNCHANGED <<apiVars, term, apiReady, claimed, offers, cur, recVars, token, tostop, watchVars,
                     exVars, histVars>>

\* loop returns: the context ended, or its one job is over.
LoopEnds ==
  /\ main \in {"beat", "poll"}
  /\ term \/ (main = "beat" /\ SingleDone /\ Busy = {})
  /\ main' = "drain"
  /\ UNCHANGED <<apiVars, term, apiReady, free, claimed, offers, cur, recVars, token, tostop, watchVars,
                 exVars, histVars>>

\* The heartbeat's answer: whether the API issues job tokens, a drain, the pending jobs.
Answer ==
  /\ main = "poll"
  /\ \E ready \in BOOLEAN, drain \in BOOLEAN, pending \in SUBSET {j \in Jobs : api[j].status = "pending"} :
       /\ apiReady' = ready
       /\ offers' = IF drain THEN {} ELSE pending
       /\ main' = IF drain THEN "drain" ELSE "claim"
  /\ UNCHANGED <<apiVars, term, free, claimed, cur, recVars, token, tostop, watchVars, exVars, histVars>>

\* A plain heartbeat failed: the loop waits and beats again.
BeatLost ==
  /\ main = "poll" /\ free <= 0
  /\ main' = "beat" /\ free' = 0
  /\ UNCHANGED <<apiVars, term, apiReady, claimed, offers, cur, recVars, token, tostop, watchVars,
                 exVars, histVars>>

\* No limit on the offers taken; the attempt that is not there yet.
NoLimit == TRUE
OfferedNext(j) == <<j, api[j].attempt + 1>>
HasRoom == free > 0
AlreadyHere(j) == j \in Busy
Offered(j) == <<j, api[j].attempt>>

\* The offers are used up, or no capacity is left for them.
OffersDone ==
  /\ main = "claim"
  /\ offers = {} \/ ~HasRoom \/ term
  /\ offers' = {} /\ free' = 0
  /\ main' = "beat"
  /\ UNCHANGED <<apiVars, term, apiReady, claimed, cur, recVars, token, tostop, watchVars, exVars,
                 histVars>>

\* claim's first check: a job that is in flight here is not claimed again.
Offer(j) ==
  /\ main = "claim" /\ j \in offers /\ HasRoom /\ ~term
  /\ offers' = offers \ {j}
  /\ IF AlreadyHere(j) THEN UNCHANGED <<main, cur>>
     ELSE main' = "start" /\ cur' = Offered(j)
  /\ UNCHANGED <<apiVars, term, apiReady, free, claimed, recVars, token, tostop, watchVars, exVars, histVars>>

ClaimReturns == main' = "claim" /\ cur' = None /\ token' = 0

Claimable == api[JobOf(cur)].status = "pending"

\* Start: the API's atomic claim.  The launcher skips the job when the claim is lost to another
\* runner, and when the call failed, whether or not the API had taken it.
Start ==
  LET j == JobOf(cur)
      taken == [api EXCEPT ![j].status = "running", ![j].mine = TRUE]
  IN  /\ main = "start"
      /\ \/ ~term /\ Claimable /\ api' = taken /\ cur' = <<j, api[j].attempt>> /\ main' = "token"
            /\ UNCHANGED <<token, lost, losses>>
         \/ (term \/ ~Claimable) /\ ClaimReturns /\ UNCHANGED <<api, lost, losses>>
         \/ Claimable /\ Lose /\ api' = taken /\ lost' = lost \cup {<<j, api[j].attempt>>} /\ ClaimReturns
      /\ UNCHANGED <<restVars, recVars, watchVars, exVars, boots>>

\* JobToken.  Without one the failure goes out with the runner token, which the API refuses.
Token ==
  LET j == JobOf(cur)
      held == api[j].status = "running" /\ api[j].mine /\ api[j].attempt = AttemptOf(cur)
  IN  /\ main = "token"
      /\ \/ ~term /\ held /\ token' = AttemptOf(cur) /\ main' = "place" /\ UNCHANGED <<cur, lost, losses>>
         \/ (term \/ ~held) /\ ClaimReturns /\ lost' = lost \cup {cur} /\ UNCHANGED losses
         \/ Lose /\ ClaimReturns /\ lost' = lost \cup {cur}
      /\ UNCHANGED <<apiVars, restVars, recVars, watchVars, exVars, boots>>

\* The driver placed the executor, which starts at once.
Place ==
  /\ main = "place"
  /\ ex' = [ex EXCEPT ![cur] = "working"]
  /\ main' = "supervise"
  /\ UNCHANGED <<apiVars, restVars, recVars, cur, token, watchVars, code, sig, killed, histVars>>

\* The pull credential could not be read or the driver refused: nothing is placed.
PlaceFails ==
  /\ main = "place"
  /\ FailWithRunCtx(cur, token)
  /\ ClaimReturns
  /\ UNCHANGED <<restVars, recVars, watchVars, exVars>>

RoomLeft == free - 1

SupervisePlaced ==
  /\ main = "supervise"
  /\ Supervise(cur, token)
  /\ free' = RoomLeft /\ claimed' = Single
  /\ ClaimReturns
  /\ UNCHANGED <<apiVars, term, apiReady, offers, tostop, recVars, exVars, histVars>>

\* drain: the grace is over, stopAll copies the in-flight placements and kills them in turn.
DrainDeadline ==
  /\ main = "drain" /\ Watching # {}
  /\ tostop' = {inflight[j] : j \in Busy}
  /\ main' = IF Busy = {} THEN "stopped" ELSE "stopping"
  /\ UNCHANGED <<apiVars, term, apiReady, free, claimed, offers, cur, recVars, token, watchVars, exVars,
                 histVars>>

StopsNext(p) ==
  /\ tostop' = tostop \ {p}
  /\ main' = IF tostop = {p} THEN "stopped" ELSE main

StopOne(p) ==
  /\ main = "stopping" /\ p \in tostop
  /\ ex[p] # "removed" /\ sig[p] = "none"
  /\ \/ Kill(p, "drain") /\ UNCHANGED <<main, tostop, losses>>
     \/ KillLost(p) /\ StopsNext(p)
  /\ UNCHANGED <<apiVars, term, apiReady, free, claimed, offers, cur, recVars, token, watchVars, ex, code,
                 lost, boots>>

StopReturns(p) ==
  /\ main = "stopping" /\ p \in tostop
  /\ sig[p] # "none" \/ ex[p] = "removed"
  /\ KillDone(p)
  /\ StopsNext(p)
  /\ UNCHANGED <<apiVars, term, apiReady, free, claimed, offers, cur, recVars, token, watchVars, exVars,
                 histVars>>

\* Every watcher has returned (wg.Wait): the launcher deregisters and the process ends.
Deregister ==
  /\ main \in {"drain", "stopped"} /\ Watching = {}
  /\ main' = "gone"
  /\ UNCHANGED <<apiVars, term, apiReady, free, claimed, offers, cur, recVars, token, tostop, watchVars,
                 exVars, histVars>>

-----------------------------------------------------------------------------
(* The specification. *)

Init ==
  /\ api = [j \in Jobs |-> [status |-> "pending", attempt |-> 1, mine |-> FALSE, by |-> "none"]]
  /\ main = "down" /\ apiReady = FALSE
  /\ term = FALSE /\ claimed = FALSE /\ free = 0
  /\ offers = {} /\ cur = None /\ todo = {} /\ sawEnded = {} /\ tostop = {}
  /\ active = FALSE /\ token = 0
  /\ inflight = [j \in Jobs |-> None]
  /\ watch = [p \in Placements |-> "idle"]
  /\ tok = [p \in Placements |-> 0]
  /\ timedOut = {} /\ deleted = {} /\ canceled = {} /\ killed = {}
  /\ ex = [p \in Placements |-> "none"]
  /\ code = [p \in Placements |-> "none"]
  /\ sig = [p \in Placements |-> "none"]
  /\ lost = {} /\ boots = 0 /\ losses = 0

ReconcileNext ==
  \/ ListMine \/ ReconcileToken \/ Reattach \/ ReconcileFail \/ ReconcileSkip
  \/ ReconcileKill \/ ReconcileRemove \/ Reconciled
  \/ \E p \in Placements : ReconcileStatus(p)

LoopNext ==
  \/ Beat \/ LoopEnds \/ Answer \/ BeatLost \/ OffersDone
  \/ Start \/ Token \/ Place \/ PlaceFails \/ SupervisePlaced
  \/ \E j \in Jobs : Offer(j)

DrainNext ==
  \/ DrainDeadline \/ Deregister
  \/ \E p \in Placements : StopOne(p) \/ StopReturns(p)

WatchNext(p) ==
  \/ Deadline(p) \/ DeadlineKill(p) \/ TickStops(p) \/ TickPasses(p) \/ KillReturns(p)
  \/ WatchExit(p) \/ WaitFails(p) \/ Finish(p)

ExNext(p) == ExecFinish(p) \/ ExecStop(p) \/ ExecExit(p) \/ ExecDie(p) \/ PodDeleted(p) \/ Reap(p)

Next ==
  \/ \E j \in Jobs : ApiStep(j) \/ MonitorSettles(j)
  \/ \E p \in Placements : WatchNext(p) \/ ExNext(p)
  \/ ReconcileNext \/ LoopNext \/ DrainNext
  \/ Boot \/ Crash \/ Terminate

Spec == Init /\ [][Next]_vars

\* Goroutines run, timers fire, a call returns, SIGKILL follows the grace, the monitor sees an
\* offline runner.  Nobody has to cancel or retry a job, no engine has to end by itself, nothing
\* has to crash.
Fairness ==
  /\ WF_vars(ReconcileNext) /\ WF_vars(LoopNext) /\ WF_vars(DrainNext) /\ WF_vars(Boot)
  /\ \A p \in Placements :
       /\ WF_vars(Deadline(p)) /\ WF_vars(DeadlineKill(p)) /\ WF_vars(TickStops(p))
       /\ WF_vars(KillReturns(p)) /\ SF_vars(WatchExit(p)) /\ WF_vars(Finish(p))
       /\ WF_vars(ExecStop(p)) /\ WF_vars(ExecExit(p)) /\ WF_vars(GraceOver(p))
       /\ WF_vars(PodDeleted(p))
  /\ \A j \in Jobs : WF_vars(MonitorSettles(j))

FairSpec == Spec /\ Fairness

-----------------------------------------------------------------------------
(* Properties. *)

InClaim == main \in {"start", "token", "place", "supervise"}

\* What an answer's claims may still take is free: the beat's count, read before the heartbeat and
\* the API's answer, never promises more than Capacity, whatever ended meanwhile (loop, claim).
RoomIsReal ==
  main \in {"poll", "claim"} \/ InClaim => free <= 0 \/ free + Cardinality(Busy) <= Capacity

\* A job is placed only while there is room for it, and never while an earlier attempt of it is
\* still supervised here, which would lose that attempt's entry in flight (claim, supervise).
PlacesWithinCapacity ==
  InClaim => Cardinality(Busy) < Capacity /\ JobOf(cur) \notin Busy

\* However often the launcher restarts, no more executors than Capacity run at once: a restart
\* finds what the last life left before it claims (reconcile, Run).
ExecutorsWithinCapacity == Cardinality({p \in Placements : Alive(p)}) <= Capacity

\* A placement the launcher is done with is no longer the API's running work, unless a report of it
\* was lost: whoever ended it, someone settled it (watch, ended).
EndedIsReported ==
  \A p \in Placements : watch[p] = "done" /\ p \notin lost => Over(p)

\* Every job the API believes is running here is watched here, once the launcher has reconciled,
\* unless the launcher died or lost a call on the way there (Run, claim, reconcile).
RunningIsWatched ==
  \A j \in Jobs :
    LET p == <<j, api[j].attempt>>
    IN  /\ api[j].status = "running" /\ api[j].mine
        /\ main \in {"beat", "poll", "claim"} \/ InClaim
        /\ ~term
        => p \in Watching \/ p \in lost \/ (InClaim /\ cur = p)

\* The launcher reports an attempt failed only when that attempt's own executor is not at work any
\* more, or has passed its timeout (watch, ended, reconcile).
FailsOnlyTheDead ==
  [][\A j \in Jobs :
       LET p == <<j, api[j].attempt>>
       IN  api'[j].by = "launcher" /\ api[j].by # "launcher" => ex[p] # "working" \/ p \in timedOut']_vars

\* A job that passed its timeout is failed: the executor its kill stops reports itself canceled, and
\* that report never becomes the attempt's outcome (watch, AC12).
TimeoutIsFailure ==
  [][\A p \in Placements :
       LET j == JobOf(p)
       IN  sig[p] = "deadline" /\ p \notin lost /\ api[j].attempt = AttemptOf(p) /\ api'[j] # api[j]
             => ~(api'[j].status = "canceled" /\ api'[j].by = "executor")]_vars

\* On a pool that keeps failed placements, the end of supervision leaves the placement of a failed
\* attempt for inspection, unless its executor had completed, or Remove could not look at it (ended,
\* Remove, AC25).
FailureIsKept ==
  [][\A p \in Placements :
       /\ watch[p] = "removing" /\ watch'[p] = "done" /\ ex[p] = "exited" /\ KeepFailed
       /\ api[JobOf(p)].status = "failed" /\ api[JobOf(p)].attempt = AttemptOf(p)
       /\ code[p] # "completed" /\ losses' = losses
       => ex'[p] = "exited"]_vars

\* The placement of a job that was canceled goes with the end of its supervision and is never kept
\* as a failure, whether the launcher's poll or the executor's own saw the cancel, unless a call of
\* Remove failed (watch, Remove, AC12).
CancelIsNotKept ==
  [][\A p \in Placements :
       /\ watch[p] = "removing" /\ watch'[p] = "done" /\ code[p] = "stopped" /\ p \notin timedOut
       /\ losses' = losses
       => ex'[p] = "removed"]_vars

\* A restart and a status poll stop only what is over: never an executor whose attempt the API
\* still has running (reconcile, watch).
StopsOnlyTheSettled ==
  [][\A p \in Placements :
       sig[p] = "none" /\ sig'[p] \in {"restart", "cancel"} => Over(p)]_vars

\* An executor at work does not work for ever: it ends, times out or is stopped, and its attempt is
\* settled, across restarts of the launcher, unless a call about it was lost, or a restart could not
\* fetch its token: it has no deadline then (supervise, reconcile).
WorkSettles ==
  \A p \in Placements : ex[p] = "working" ~> Over(p) \/ p \in lost \/ (p \in Watching /\ tok[p] = 0)

\* A drain ends: what is in flight finishes or is stopped, and the process goes, unless the call that
\* stops it was lost for a placement a restart could give no deadline (drain, stopAll).
NoDeadline == \E p \in Watching : tok[p] = 0
DrainEnds == main = "drain" ~> main \in {"gone", "down"} \/ (losses > 0 /\ NoDeadline)

\* Capacity is not leaked: a placement under supervision leaves it once its attempt is over.
SlotIsFreed == \A p \in Placements : (p \in Watching /\ Over(p)) ~> p \notin Watching

\* A placement of this launcher's pool that a restart finds is not left running for ever with its
\* attempt over: its executor stops, unless the call that would stop it was lost (reconcile).
OverStops == \A p \in Placements : (Alive(p) /\ Over(p)) ~> ~Alive(p) \/ p \in lost

=============================================================================
