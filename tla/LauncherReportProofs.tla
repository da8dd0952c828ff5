------------------------ MODULE LauncherReportProofs ------------------------
(***************************************************************************)
(* Theorems about what a launcher reports and stops, for every set of jobs, *)
(* every bound on attempts, and any number of lives and losses.  Where a    *)
(* theorem holds for some drivers or pools only, it says which.             *)
(***************************************************************************)
EXTENDS LauncherProofs

-----------------------------------------------------------------------------
(* The invariants. *)

JobsOf(p) == api[JobOf(p)]
ReportedCodes == {"completed", "failed", "stopped"}

\* A placement of this launcher, from the claim that made the attempt its own.
Ours(p) == ex[p] # "none" \/ (main \in {"token", "place"} /\ cur = p)

\* An attempt that is ours stays so for as long as it is the job's latest.
OursInv ==
  /\ \A j \in Jobs : api[j].status = "pending" => ~api[j].mine
  /\ \A p \in Placements : Ours(p) =>
       /\ AttemptOf(p) <= JobsOf(p).attempt
       /\ AttemptOf(p) = JobsOf(p).attempt => JobsOf(p).status # "pending" /\ JobsOf(p).mine

\* What is watched, told to stop, listed or looked at by reconcile was placed.
PlacedInv ==
  /\ \A p \in Placements :
       watch[p] # "idle" \/ code[p] # "none" \/ sig[p] # "none" \/ p \in todo => ex[p] # "none"
  /\ \A j \in Jobs : inflight[j] # None => ex[inflight[j]] # "none"
  /\ \A p \in tostop : ex[p] # "none"
  /\ main \in {"mint", "decide", "stop", "remove", "supervise"} => ex[cur] # "none"

\* A job token is of its placement's attempt or a later one, and no later than the job's.
TokenInv ==
  /\ \A p \in Placements : tok[p] # 0 => AttemptOf(p) <= tok[p] /\ tok[p] <= JobsOf(p).attempt
  /\ token # 0 => /\ main \in {"decide", "stop", "remove", "place", "supervise"}
                  /\ AttemptOf(cur) <= token /\ token <= JobsOf(cur).attempt

\* The flags are a watcher's.
FlagInv ==
  /\ \A p \in timedOut \cup deleted : watch[p] # "idle"
  /\ \A p \in deleted : JobsOf(p).status = "deleted"
  /\ \A p \in Placements : watch[p] = "deadline" => p \in timedOut

\* Whoever reported an attempt's end, or failed it at its deadline, left it settled or its report lost.
OverInv ==
  \A p \in Placements \ lost :
    code[p] \in ReportedCodes \/ p \in timedOut \/ sig[p] = "deadline" => Over(p)

\* What reconcile is about to stop is over, or a call about it was lost.
StopInv ==
  /\ main = "mint" => active
  /\ main = "decide" /\ ~active => Over(cur) \/ cur \in lost
  /\ main \in {"stop", "remove"} => Over(cur) \/ cur \in lost
  /\ main = "decide" /\ ~term /\ (~active \/ token = 0) => Over(cur) \/ losses > 0
  /\ main = "stop" /\ ~term => Over(cur) \/ losses > 0

\* A claim makes a new placement.
NewInv == main \in {"token", "place"} => ex[cur] = "none"

ReportInv == OursInv /\ PlacedInv /\ TokenInv /\ FlagInv /\ OverInv /\ StopInv /\ NewInv

\* A watcher that has reported leaves an attempt that is over, but for a pod deleted behind its back.
EndInv ==
  /\ Driver # "kubernetes" => killed = {}
  /\ \A p \in Placements \ (lost \cup killed) : watch[p] \in {"removing", "done"} => Over(p)

\* A watcher past its report has an executor that ended, and saw its cancel.
CancelInv ==
  /\ deleted \subseteq canceled
  /\ \A p \in Placements :
       watch[p] = "removing" =>
         /\ ex[p] \in {"exited", "removed"}
         /\ ex[p] = "exited" /\ code[p] = "stopped" => p \in timedOut \cup canceled

-----------------------------------------------------------------------------
(* How far a step can go. *)

\* What a step can make of a job's record: a later attempt, or the same one further on its way.
Grows(j) ==
  /\ api[j].attempt <= api'[j].attempt
  /\ api'[j].attempt = api[j].attempt /\ api[j].status # "pending" =>
       /\ api'[j].status # "pending" /\ api'[j].mine = api[j].mine
       /\ api'[j].status = "running" => api[j].status = "running"
  /\ api[j].status = "deleted" => api'[j].status = "deleted"
  /\ api'[j].status = "pending" => api'[j] = api[j] \/ ~api'[j].mine

LEMMA SettleGrows ==
  ASSUME TypeOK, NEW h \in Jobs, NEW n, NEW o \in {"completed", "failed", "canceled"}, NEW w,
         Settle(h, n, o, w)
  PROVE  \A j \in Jobs : Grows(j)
BY DEF Settle, TypeOK, ApiType, Attempts, Grows

LEMMA FailGrows ==
  ASSUME TypeOK, NEW p \in Placements, NEW n, FailWith(p, n) \/ FailWithRunCtx(p, n)
  PROVE  \A j \in Jobs : Grows(j)
<1>1. JobOf(p) \in Jobs BY DEF JobOf, Placements
<1>2. CASE Settle(JobOf(p), n, "failed", "launcher") BY <1>1, <1>2, SettleGrows
<1>3. CASE UNCHANGED api BY <1>3 DEF Grows, TypeOK, ApiType, Attempts
<1> QED BY <1>2, <1>3 DEF FailWith, FailWithRunCtx

LEMMA ApiGrows == TypeOK /\ [Next]_vars => \A j \in Jobs : Grows(j)
<1> SUFFICES ASSUME TypeOK, [Next]_vars PROVE \A j \in Jobs : Grows(j)
  OBVIOUS
<1>1. CASE UNCHANGED api BY <1>1 DEF Grows, TypeOK, ApiType, Attempts
<1>2. ASSUME NEW h \in Jobs, ApiStep(h) PROVE \A j \in Jobs : Grows(j)
  BY <1>2, LauncherAssumption DEF ApiStep, Grows, TypeOK, ApiType, Attempts
<1>3. ASSUME NEW h \in Jobs, MonitorSettles(h) PROVE \A j \in Jobs : Grows(j)
  BY <1>3 DEF MonitorSettles, Grows, TypeOK, ApiType, Attempts
<1>4. CASE Start
  <2>1. JobOf(cur) \in Jobs BY <1>4 DEF Start, TypeOK, MainType, Placements, JobOf
  <2> QED BY <1>4, <2>1 DEF Start, Claimable, Grows, TypeOK, ApiType, Attempts
<1>5. ASSUME NEW p \in Placements, NEW n, FailWith(p, n) \/ FailWithRunCtx(p, n)
      PROVE  \A j \in Jobs : Grows(j)
  BY <1>5, FailGrows
<1>6. ASSUME NEW p \in Placements, NEW n, NEW o \in {"completed", "failed", "canceled"}, NEW w,
             Settle(JobOf(p), n, o, w)
      PROVE  \A j \in Jobs : Grows(j)
  BY <1>6, SettleGrows DEF JobOf, Placements
<1>7. main \in {"decide", "place"} => cur \in Placements BY DEF TypeOK, MainType
<1> QED
  BY <1>1, <1>2, <1>3, <1>4, <1>5, <1>6, <1>7
  DEF Next, ReconcileNext, LoopNext, DrainNext, WatchNext, ExNext, ListMine, Reattach,
    ReconcileFail, ReconcileSkip, ReconcileKill, ReconcileRemove, Reconciled, ReconcileStatus,
    ReconcileToken, Beat, LoopEnds, Answer, BeatLost, OffersDone, Token, Place, PlaceFails,
    SupervisePlaced, Offer, DrainDeadline, Deregister, StopOne, StopReturns, StopsNext, KillLost,
    Deadline, DeadlineKill, TickStops, TickPasses, KillReturns, WatchExit, EndReport, WaitFails,
    Finish, ExecFinish, ExecStop, ExecExit, ExecDie, PodDeleted, Reap, Boot, Crash, Terminate, vars,
    apiVars

\* A placement stays placed, and what is lost stays so.
LEMMA HistoryGrows ==
  TypeOK /\ [Next]_vars => lost \subseteq lost' /\ \A p \in Placements : ex[p] # "none" => ex'[p] # "none"
<1> SUFFICES ASSUME TypeOK, [Next]_vars
             PROVE  lost \subseteq lost' /\ \A p \in Placements : ex[p] # "none" => ex'[p] # "none"
  OBVIOUS
<1>1. lost \subseteq lost'
  BY
  DEF Next, ReconcileNext, LoopNext, DrainNext, WatchNext, ExNext, ListMine, Reattach,
    ReconcileFail, ReconcileSkip, ReconcileKill, ReconcileRemove, Reconciled, ReconcileStatus,
    ReconcileToken, Beat, LoopEnds, Answer, BeatLost, OffersDone, Start, Token, Place, PlaceFails,
    SupervisePlaced, Offer, DrainDeadline, Deregister, StopOne, StopReturns, StopsNext, KillLost,
    Deadline, DeadlineKill, TickStops, TickPasses, KillReturns, WatchExit, EndReport, WaitFails,
    Finish, ExecFinish, ExecStop, ExecExit, ExecDie, PodDeleted, Reap, Boot, Crash, Terminate,
    ApiStep, MonitorSettles, vars, exVars, histVars, FailWith, FailWithRunCtx
<1>2. ASSUME NEW p \in Placements, NEW x \in ExStates \ {"none"}, ex' = [ex EXCEPT ![p] = x]
      PROVE  \A q \in Placements : ex[q] # "none" => ex'[q] # "none"
  BY <1>2 DEF TypeOK, ExType
<1>3. ASSUME NEW p \in Placements, Gone(p) \/ RemovePlacement(p)
      PROVE  \A q \in Placements : ex[q] # "none" => ex'[q] # "none"
  BY <1>3, <1>2 DEF Gone, RemovePlacement, ExStates
<1>4. ASSUME Crash \/ UNCHANGED ex PROVE \A q \in Placements : ex[q] # "none" => ex'[q] # "none"
  BY <1>4 DEF Crash
<1>5. main \in {"place", "remove"} => cur \in Placements BY DEF TypeOK, MainType
<1>6. \A p \in Placements : ex[p] # "none" => ex'[p] # "none"
  BY <1>2, <1>3, <1>4, <1>5
  DEF Next, ReconcileNext, LoopNext, DrainNext, WatchNext, ExNext, ListMine, Reattach,
    ReconcileFail, ReconcileSkip, ReconcileKill, ReconcileRemove, Reconciled, ReconcileStatus,
    ReconcileToken, Beat, LoopEnds, Answer, BeatLost, OffersDone, Start, Token, Place, PlaceFails,
    SupervisePlaced, Offer, DrainDeadline, Deregister, StopOne, StopReturns, StopsNext, KillLost,
    Deadline, DeadlineKill, TickStops, TickPasses, KillReturns, WatchExit, EndReport, WaitFails,
    Finish, ExecFinish, ExecStop, ExecExit, ExecDie, PodDeleted, Reap, Boot, Terminate, ApiStep,
    MonitorSettles, vars, exVars, ExStates
<1> QED BY <1>1, <1>6

\* The end of an attempt that is ours is never undone.
LEMMA OverStays ==
  ASSUME TypeOK, OursInv, [Next]_vars, NEW p \in Placements, Ours(p), Over(p)
  PROVE  Over(p)'
<1>1. JobOf(p) \in Jobs /\ AttemptOf(p) \in Attempts BY DEF JobOf, AttemptOf, Placements
<1>2. Grows(JobOf(p)) BY <1>1, ApiGrows
<1>3. api[JobOf(p)].attempt \in Int /\ api'[JobOf(p)].attempt \in Int /\ AttemptOf(p) \in Int
  BY <1>1, NextTyped DEF TypeOK, ApiType, Attempts
<1> QED BY <1>1, <1>2, <1>3 DEF Over, Grows, OursInv, JobsOf

-----------------------------------------------------------------------------
(* Each part of the invariant is kept. *)

\* A placement comes into being with Place, and becomes ours with the claim before it.
LEMMA OursComes ==
  ASSUME TypeOK, PlacedInv, [Next]_vars, NEW p \in Placements, Ours(p)'
  PROVE  Ours(p) \/ (Start /\ main' = "token" /\ cur' = p)
<1>1. CASE ex'[p] # "none" /\ ex[p] = "none"
  <2>1. CASE Place BY <1>1, <2>1 DEF Place, Ours, TypeOK, ExType
  <2>2. ASSUME NEW q \in Placements, ex[q] # "none", Gone(q) \/ RemovePlacement(q) PROVE FALSE
    BY <1>1, <2>2 DEF Gone, RemovePlacement, TypeOK, ExType
  <2>3. ASSUME NEW q \in Placements, NEW x, ex[q] # "none", ex' = [ex EXCEPT ![q] = x] PROVE FALSE
    BY <1>1, <2>3 DEF TypeOK, ExType
  <2>4. ASSUME Crash PROVE FALSE BY <1>1, <2>4 DEF Crash
  <2>5. ASSUME UNCHANGED ex PROVE FALSE BY <1>1, <2>5
  <2>6. main = "remove" => cur \in Placements /\ ex[cur] # "none"
    BY DEF TypeOK, MainType, PlacedInv
  <2>7. \A q \in Placements : watch[q] = "removing" => ex[q] # "none" BY DEF PlacedInv
  <2> QED
    BY <2>1, <2>2, <2>3, <2>4, <2>5, <2>6, <2>7
    DEF Next, ReconcileNext, LoopNext, DrainNext, WatchNext, ExNext, ListMine, Reattach,
      ReconcileFail, ReconcileSkip, ReconcileKill, ReconcileRemove, Reconciled, ReconcileStatus,
      ReconcileToken, Beat, LoopEnds, Answer, BeatLost, OffersDone, Start, Token, PlaceFails,
      SupervisePlaced, Offer, DrainDeadline, Deregister, StopOne, StopReturns, StopsNext, KillLost,
      Deadline, DeadlineKill, TickStops, TickPasses, KillReturns, WatchExit, EndReport, WaitFails,
      Finish, ExecFinish, ExecStop, ExecExit, ExecDie, PodDeleted, Reap, Boot, Terminate, ApiStep,
      MonitorSettles, vars, exVars, Alive
<1>2. CASE ex[p] # "none" BY <1>2 DEF Ours
<1>3. CASE ex'[p] = "none" /\ ex[p] = "none"
  <2>1. main' \in {"token", "place"} /\ cur' = p BY <1>3 DEF Ours
  <2>2. CASE UNCHANGED <<main, cur>> BY <2>1, <2>2 DEF Ours
  <2>3. CASE Token BY <2>1, <2>3 DEF Token, ClaimReturns, Ours
  <2>4. CASE Start BY <2>1, <2>4 DEF Start, ClaimReturns
  <2> QED
    BY <2>1, <2>2, <2>3, <2>4
    DEF Next, ReconcileNext, LoopNext, DrainNext, WatchNext, ExNext, ListMine, Reattach,
      ReconcileFail, ReconcileSkip, ReconcileKill, ReconcileRemove, Reconciled, ReconcileStatus,
      ReconcileToken, Beat, LoopEnds, Answer, BeatLost, OffersDone, Place, PlaceFails,
      SupervisePlaced, Offer, DrainDeadline, Deregister, StopOne, StopReturns, StopsNext, KillLost,
      Deadline, DeadlineKill, TickStops, TickPasses, KillReturns, WatchExit, EndReport, WaitFails,
      Finish, ExecFinish, ExecStop, ExecExit, ExecDie, PodDeleted, Reap, Boot, Crash, Terminate,
      ApiStep, MonitorSettles, vars, mainVars, ClaimReturns, NextListed, FreshProcess, restVars,
      recVars
<1> QED BY <1>1, <1>2, <1>3

LEMMA OursNext == TypeOK /\ OursInv /\ PlacedInv /\ [Next]_vars => OursInv'
<1> SUFFICES ASSUME TypeOK, OursInv, PlacedInv, [Next]_vars PROVE OursInv'
  OBVIOUS
<1>1. \A j \in Jobs : Grows(j) BY ApiGrows
<1>2. \A j \in Jobs : api[j].attempt \in Int /\ api'[j].attempt \in Int
  BY NextTyped DEF TypeOK, ApiType, Attempts
<1>3. ASSUME NEW j \in Jobs, api'[j].status = "pending" PROVE ~api'[j].mine
  BY <1>1, <1>3 DEF Grows, OursInv
<1>4. ASSUME NEW p \in Placements, Ours(p)'
      PROVE  /\ AttemptOf(p) <= api'[JobOf(p)].attempt
             /\ AttemptOf(p) = api'[JobOf(p)].attempt =>
                  api'[JobOf(p)].status # "pending" /\ api'[JobOf(p)].mine
  <2>1. JobOf(p) \in Jobs /\ AttemptOf(p) \in Int BY DEF JobOf, AttemptOf, Placements, Attempts
  <2>2. CASE Ours(p) BY <1>1, <1>2, <2>1, <2>2 DEF Grows, OursInv, JobsOf
  <2>3. CASE Start /\ main' = "token" /\ cur' = p
    <3>1. /\ JobOf(cur) \in Jobs /\ p = <<JobOf(cur), api[JobOf(cur)].attempt>>
          /\ api' = [api EXCEPT ![JobOf(cur)].status = "running", ![JobOf(cur)].mine = TRUE]
      BY <2>3 DEF Start, ClaimReturns, TypeOK, MainType, Placements, JobOf
    <3> QED BY <3>1, <1>2 DEF JobOf, AttemptOf, TypeOK, ApiType
  <2> QED BY <1>4, <2>2, <2>3, OursComes
<1> QED BY <1>3, <1>4 DEF OursInv, JobsOf

LEMMA PlacedNext == TypeOK /\ PlacedInv /\ [Next]_vars => PlacedInv'
<1> SUFFICES ASSUME TypeOK, PlacedInv, [Next]_vars PROVE PlacedInv'
  OBVIOUS
<1>1. \A p \in Placements : ex[p] # "none" => ex'[p] # "none" BY HistoryGrows
<1>2. main \in {"mint", "decide", "stop", "remove", "supervise"} => cur \in Placements /\ ex[cur] # "none"
  BY DEF TypeOK, MainType, PlacedInv
<1>3. ASSUME NEW p \in Placements, watch'[p] # "idle" PROVE ex'[p] # "none"
  <2>1. CASE watch[p] # "idle" BY <1>1, <2>1 DEF PlacedInv
  <2>2. CASE (Reattach \/ SupervisePlaced) /\ p = cur
    BY <1>1, <1>2, <2>2 DEF Reattach, SupervisePlaced
  <2>3. ASSUME NEW q \in Placements, NEW n, Supervise(q, n), watch[p] = "idle" PROVE p = q
    BY <1>3, <2>3 DEF Supervise, TypeOK, WatchType
  <2>4. ASSUME NEW q \in Placements, watch[q] # "idle", NEW x, watch' = [watch EXCEPT ![q] = x]
        PROVE  watch[p] # "idle"
    BY <1>3, <2>4 DEF TypeOK, WatchType
  <2>5. CASE UNCHANGED watch BY <1>3, <2>1, <2>5
  <2>6. CASE FreshProcess BY <1>3, <2>6 DEF FreshProcess
  <2> QED
    BY <1>2, <2>1, <2>2, <2>3, <2>4, <2>5, <2>6
    DEF Next, ReconcileNext, LoopNext, DrainNext, WatchNext, ExNext, ListMine, Reattach,
      ReconcileFail, ReconcileSkip, ReconcileKill, ReconcileRemove, Reconciled, ReconcileStatus,
      ReconcileToken, Beat, LoopEnds, Answer, BeatLost, OffersDone, Start, Token, Place, PlaceFails,
      SupervisePlaced, Offer, DrainDeadline, Deregister, StopOne, StopReturns, StopsNext, KillLost,
      Deadline, DeadlineKill, TickStops, TickPasses, KillReturns, WatchExit, EndReport, WaitFails,
      Finish, ExecFinish, ExecStop, ExecExit, ExecDie, PodDeleted, Reap, Boot, Crash, Terminate,
      ApiStep, MonitorSettles, vars, watchVars
<1>4. ASSUME NEW p \in Placements, code'[p] # "none" PROVE ex'[p] # "none"
  <2>1. CASE code[p] # "none" BY <1>1, <2>1 DEF PlacedInv
  <2>2. CASE ex[p] # "none" BY <1>1, <2>2
  <2>3. ASSUME NEW q \in Placements, NEW x, code' = [code EXCEPT ![q] = x], q # p
        PROVE  code[p] # "none"
    BY <1>4, <2>3 DEF TypeOK, ExType
  <2>4. CASE UNCHANGED code BY <1>4, <2>1, <2>4
  <2>5. ASSUME NEW q \in Placements, Gone(q) \/ RemovePlacement(q) PROVE code[p] # "none"
    BY <1>4, <2>5 DEF Gone, RemovePlacement, TypeOK, ExType
  <2> QED
    BY <1>2, <2>1, <2>2, <2>3, <2>4, <2>5
    DEF Next, ReconcileNext, LoopNext, DrainNext, WatchNext, ExNext, ListMine, Reattach,
      ReconcileFail, ReconcileSkip, ReconcileKill, ReconcileRemove, Reconciled, ReconcileStatus,
      ReconcileToken, Beat, LoopEnds, Answer, BeatLost, OffersDone, Start, Token, Place, PlaceFails,
      SupervisePlaced, Offer, DrainDeadline, Deregister, StopOne, StopReturns, StopsNext, KillLost,
      Deadline, DeadlineKill, TickStops, TickPasses, KillReturns, WatchExit, EndReport, WaitFails,
      Finish, ExecFinish, ExecStop, ExecExit, ExecDie, PodDeleted, Reap, Boot, Crash, Terminate,
      ApiStep, MonitorSettles, vars, exVars, Alive
<1>5. ASSUME NEW p \in Placements, sig'[p] # "none" PROVE ex'[p] # "none"
  <2>1. CASE sig[p] # "none" BY <1>1, <2>1 DEF PlacedInv
  <2>2. CASE ex[p] # "none" BY <1>1, <2>2
  <2>3. ASSUME NEW q \in Placements, NEW why, Kill(q, why), q # p PROVE sig[p] # "none"
    BY <1>5, <2>3 DEF Kill, TypeOK, ExType
  <2>4. CASE UNCHANGED sig BY <1>5, <2>1, <2>4
  <2>5. ASSUME NEW q \in Placements, Gone(q) \/ RemovePlacement(q) PROVE sig[p] # "none"
    BY <1>5, <2>5 DEF Gone, RemovePlacement, TypeOK, ExType
  <2>6. /\ \A q \in Placements : watch[q] # "idle" => ex[q] # "none"
        /\ \A q \in tostop : ex[q] # "none"
    BY DEF PlacedInv
  <2> QED
    BY <1>2, <2>1, <2>2, <2>3, <2>4, <2>5, <2>6
    DEF Next, ReconcileNext, LoopNext, DrainNext, WatchNext, ExNext, ListMine, Reattach,
      ReconcileFail, ReconcileSkip, ReconcileKill, ReconcileRemove, Reconciled, ReconcileStatus,
      ReconcileToken, Beat, LoopEnds, Answer, BeatLost, OffersDone, Start, Token, Place, PlaceFails,
      SupervisePlaced, Offer, DrainDeadline, Deregister, StopOne, StopReturns, StopsNext, KillLost,
      Deadline, DeadlineKill, TickStops, TickPasses, KillReturns, WatchExit, EndReport, WaitFails,
      Finish, ExecFinish, ExecStop, ExecExit, ExecDie, PodDeleted, Reap, Boot, Crash, Terminate,
      ApiStep, MonitorSettles, vars, exVars
<1>6. ASSUME NEW p \in todo' PROVE ex'[p] # "none"
  <2>1. p \in todo \/ p \in Listed
    BY <1>6
    DEF Next, ReconcileNext, LoopNext, DrainNext, WatchNext, ExNext, ListMine, Reattach,
      ReconcileFail, ReconcileSkip, ReconcileKill, ReconcileRemove, Reconciled, ReconcileStatus,
      ReconcileToken, Beat, LoopEnds, Answer, BeatLost, OffersDone, Start, Token, Place, PlaceFails,
      SupervisePlaced, Offer, DrainDeadline, Deregister, StopOne, StopReturns, StopsNext, KillLost,
      Deadline, DeadlineKill, TickStops, TickPasses, KillReturns, WatchExit, EndReport, WaitFails,
      Finish, ExecFinish, ExecStop, ExecExit, ExecDie, PodDeleted, Reap, Boot, Crash, Terminate,
      ApiStep, MonitorSettles, vars, mainVars, NextListed, FreshProcess, restVars, recVars
  <2>2. p \in Placements BY NextTyped DEF TypeOK, MainType
  <2> QED BY <1>1, <2>1, <2>2 DEF Listed, PlacedInv
<1>7. ASSUME NEW j \in Jobs, inflight'[j] # None PROVE ex'[inflight'[j]] # "none"
  <2>1. inflight'[j] = inflight[j] \/ (inflight'[j] = cur /\ (Reattach \/ SupervisePlaced))
    <3>1. ASSUME NEW q \in Placements, NEW n, Supervise(q, n)
          PROVE  inflight'[j] = inflight[j] \/ inflight'[j] = q
      BY <3>1 DEF Supervise, TypeOK, WatchType
    <3>2. ASSUME NEW q \in Placements, inflight' = [inflight EXCEPT ![JobOf(q)] = None]
          PROVE  inflight'[j] = inflight[j]
      BY <1>7, <3>2 DEF TypeOK, WatchType
    <3>3. ASSUME FreshProcess PROVE FALSE BY <1>7, <3>3 DEF FreshProcess
    <3> QED
      BY <1>2, <3>1, <3>2, <3>3
      DEF Next, ReconcileNext, LoopNext, DrainNext, WatchNext, ExNext, ListMine, Reattach,
        ReconcileFail, ReconcileSkip, ReconcileKill, ReconcileRemove, Reconciled, ReconcileStatus,
        ReconcileToken, Beat, LoopEnds, Answer, BeatLost, OffersDone, Start, Token, Place,
        PlaceFails, SupervisePlaced, Offer, DrainDeadline, Deregister, StopOne, StopReturns,
        StopsNext, KillLost, Deadline, DeadlineKill, TickStops, TickPasses, KillReturns, WatchExit,
        EndReport, WaitFails, Finish, ExecFinish, ExecStop, ExecExit, ExecDie, PodDeleted, Reap,
        Boot, Crash, Terminate, ApiStep, MonitorSettles, vars, watchVars
  <2>2. inflight[j] \in Placements \cup {None} BY DEF TypeOK, WatchType
  <2> QED BY <1>1, <1>2, <1>7, <2>1, <2>2 DEF PlacedInv, Reattach, SupervisePlaced
<1>8. ASSUME NEW p \in tostop' PROVE ex'[p] # "none"
  <2>1. p \in tostop \/ \E j \in Busy : p = inflight[j]
    BY <1>8
    DEF Next, ReconcileNext, LoopNext, DrainNext, WatchNext, ExNext, ListMine, Reattach,
      ReconcileFail, ReconcileSkip, ReconcileKill, ReconcileRemove, Reconciled, ReconcileStatus,
      ReconcileToken, Beat, LoopEnds, Answer, BeatLost, OffersDone, Start, Token, Place, PlaceFails,
      SupervisePlaced, Offer, DrainDeadline, Deregister, StopOne, StopReturns, StopsNext, KillLost,
      Deadline, DeadlineKill, TickStops, TickPasses, KillReturns, WatchExit, EndReport, WaitFails,
      Finish, ExecFinish, ExecStop, ExecExit, ExecDie, PodDeleted, Reap, Boot, Crash, Terminate,
      ApiStep, MonitorSettles, vars, mainVars, FreshProcess, restVars, recVars, NextListed,
      ClaimReturns
  <2>2. p \in Placements BY NextTyped DEF TypeOK, MainType
  <2> QED BY <1>1, <2>1, <2>2 DEF PlacedInv, Busy
<1>9. ASSUME main' \in {"mint", "decide", "stop", "remove", "supervise"} PROVE ex'[cur'] # "none"
  <2>1. CASE main \in {"mint", "decide", "stop", "remove", "supervise"} /\ cur' = cur BY <1>1, <1>2, <2>1
  <2>2. ASSUME NEW p \in Placements, ReconcileStatus(p) PROVE ex'[cur'] # "none"
    BY <1>1, <2>2 DEF ReconcileStatus, PlacedInv
  <2>3. CASE Place BY <2>3 DEF Place, TypeOK, MainType, ExType
  <2> QED
    BY <1>9, <2>1, <2>2, <2>3
    DEF Next, ReconcileNext, LoopNext, DrainNext, WatchNext, ExNext, ListMine, Reattach,
      ReconcileFail, ReconcileSkip, ReconcileKill, ReconcileRemove, Reconciled, ReconcileToken,
      Beat, LoopEnds, Answer, BeatLost, OffersDone, Start, Token, PlaceFails, SupervisePlaced,
      Offer, DrainDeadline, Deregister, StopOne, StopReturns, StopsNext, KillLost, Deadline,
      DeadlineKill, TickStops, TickPasses, KillReturns, WatchExit, EndReport, WaitFails, Finish,
      ExecFinish, ExecStop, ExecExit, ExecDie, PodDeleted, Reap, Boot, Crash, Terminate, ApiStep,
      MonitorSettles, vars, mainVars, FreshProcess, restVars, recVars, NextListed, ClaimReturns
<1> QED BY <1>3, <1>4, <1>5, <1>6, <1>7, <1>8, <1>9 DEF PlacedInv

LEMMA TokenNext == TypeOK /\ OursInv /\ PlacedInv /\ TokenInv /\ [Next]_vars => TokenInv'
<1> SUFFICES ASSUME TypeOK, OursInv, PlacedInv, TokenInv, [Next]_vars PROVE TokenInv'
  OBVIOUS
<1>1. \A j \in Jobs : api[j].attempt \in Int /\ api'[j].attempt \in Int /\ api[j].attempt <= api'[j].attempt
  BY ApiGrows, NextTyped DEF TypeOK, ApiType, Attempts, Grows
<1>2. \A p \in Placements : JobOf(p) \in Jobs /\ AttemptOf(p) \in Int
  BY DEF JobOf, AttemptOf, Placements, Attempts
<1>3. main \in {"mint", "decide", "stop", "remove", "token", "place", "supervise"} => cur \in Placements
  BY DEF TypeOK, MainType
<1>4. token \in Int /\ token' \in Int /\ \A p \in Placements : tok[p] \in Int /\ tok'[p] \in Int
  BY NextTyped, LauncherAssumption DEF TypeOK, MainType, WatchType
<1>5. ASSUME NEW p \in Placements, tok'[p] # 0
      PROVE  AttemptOf(p) <= tok'[p] /\ tok'[p] <= api'[JobOf(p)].attempt
  <2>1. CASE tok'[p] = tok[p] BY <1>1, <1>2, <1>4, <1>5, <2>1 DEF TokenInv, JobsOf
  <2>2. CASE (Reattach \/ SupervisePlaced) /\ p = cur /\ tok'[p] = token
    BY <1>1, <1>2, <1>4, <1>5, <2>2 DEF TokenInv, JobsOf
  <2>3. ASSUME NEW q \in Placements, NEW n, Supervise(q, n)
        PROVE  tok'[p] = tok[p] \/ (p = q /\ tok'[p] = n)
    BY <2>3 DEF Supervise, TypeOK, WatchType
  <2>4. ASSUME NEW q \in Placements, tok' = [tok EXCEPT ![q] = 0] PROVE tok'[p] = tok[p]
    BY <1>5, <2>4 DEF TypeOK, WatchType
  <2>5. ASSUME FreshProcess PROVE FALSE BY <1>5, <2>5 DEF FreshProcess
  <2> QED
    BY <1>3, <2>1, <2>2, <2>3, <2>4, <2>5
    DEF Next, ReconcileNext, LoopNext, DrainNext, WatchNext, ExNext, ListMine, Reattach,
      ReconcileFail, ReconcileSkip, ReconcileKill, ReconcileRemove, Reconciled, ReconcileStatus,
      ReconcileToken, Beat, LoopEnds, Answer, BeatLost, OffersDone, Start, Token, Place, PlaceFails,
      SupervisePlaced, Offer, DrainDeadline, Deregister, StopOne, StopReturns, StopsNext, KillLost,
      Deadline, DeadlineKill, TickStops, TickPasses, KillReturns, WatchExit, EndReport, WaitFails,
      Finish, ExecFinish, ExecStop, ExecExit, ExecDie, PodDeleted, Reap, Boot, Crash, Terminate,
      ApiStep, MonitorSettles, vars, watchVars
<1>6. ASSUME token' # 0
      PROVE  /\ main' \in {"decide", "stop", "remove", "place", "supervise"}
             /\ AttemptOf(cur') <= token' /\ token' <= api'[JobOf(cur')].attempt
  <2>1. CASE token' = token /\ cur' = cur /\ main' \in {"decide", "stop", "remove", "place", "supervise"}
    BY <1>1, <1>2, <1>3, <1>4, <1>6, <2>1 DEF TokenInv, JobsOf
  <2>2. CASE ReconcileToken
    <3>1. Ours(cur) BY <2>2 DEF ReconcileToken, PlacedInv, Ours
    <3>2. /\ api' = api /\ token' = api[JobOf(cur)].attempt /\ main' = "decide" /\ cur' = cur
          /\ main = "mint"
      BY <1>6, <2>2 DEF ReconcileToken, apiVars
    <3> QED BY <1>1, <1>2, <1>3, <3>1, <3>2 DEF OursInv, JobsOf
  <2>3. CASE Token
    <3>1. /\ main' = "place" /\ cur' = cur /\ token' = AttemptOf(cur) /\ api' = api
          /\ api[JobOf(cur)].attempt = AttemptOf(cur) /\ main = "token"
      BY <1>6, <2>3 DEF Token, ClaimReturns, apiVars
    <3> QED BY <1>1, <1>2, <1>3, <3>1
  <2>4. token = 0 \/ main \in {"decide", "stop", "remove", "place", "supervise"} BY DEF TokenInv
  <2> QED
    BY <1>6, <2>1, <2>2, <2>3, <2>4
    DEF Next, ReconcileNext, LoopNext, DrainNext, WatchNext, ExNext, ListMine, Reattach,
      ReconcileFail, ReconcileSkip, ReconcileKill, ReconcileRemove, Reconciled, ReconcileStatus,
      Beat, LoopEnds, Answer, BeatLost, OffersDone, Start, Place, PlaceFails, SupervisePlaced,
      Offer, DrainDeadline, Deregister, StopOne, StopReturns, StopsNext, KillLost, Deadline,
      DeadlineKill, TickStops, TickPasses, KillReturns, WatchExit, EndReport, WaitFails, Finish,
      ExecFinish, ExecStop, ExecExit, ExecDie, PodDeleted, Reap, Boot, Crash, Terminate, ApiStep,
      MonitorSettles, vars, mainVars, FreshProcess, restVars, recVars, NextListed, ClaimReturns
<1> QED BY <1>5, <1>6 DEF TokenInv, JobsOf

LEMMA FlagNext == TypeOK /\ FlagInv /\ [Next]_vars => FlagInv'
<1> SUFFICES ASSUME TypeOK, FlagInv, [Next]_vars PROVE FlagInv'
  OBVIOUS
<1>1. ASSUME NEW p \in Placements, p \in timedOut' \cup deleted' PROVE watch'[p] # "idle"
  <2>1. CASE p \in timedOut \cup deleted /\ watch'[p] # "idle" BY <2>1
  <2>2. ASSUME NEW q \in Placements, NEW x \in WatchAt \ {"idle"}, watch' = [watch EXCEPT ![q] = x],
               p = q \/ p \in timedOut \cup deleted
        PROVE  watch'[p] # "idle"
    BY <2>2 DEF TypeOK, WatchType, FlagInv
  <2>3. ASSUME NEW q, NEW n, Supervise(q, n) PROVE watch'[p] # "idle"
    BY <1>1, <2>3 DEF Supervise, FlagInv, TypeOK, WatchType
  <2>4. ASSUME FreshProcess PROVE FALSE BY <1>1, <2>4 DEF FreshProcess
  <2>5. CASE UNCHANGED watch /\ timedOut' \cup deleted' \subseteq timedOut \cup deleted
    BY <1>1, <2>5 DEF FlagInv
  <2>6. ASSUME NEW q \in Placements, TickStops(q) PROVE watch'[p] # "idle"
    BY <1>1, <2>6 DEF TickStops, KillLost, FlagInv, TypeOK, WatchType
  <2> QED
    BY <1>1, <2>2, <2>3, <2>4, <2>5, <2>6
    DEF Next, ReconcileNext, LoopNext, DrainNext, WatchNext, ExNext, ListMine, Reattach,
      ReconcileFail, ReconcileSkip, ReconcileKill, ReconcileRemove, Reconciled, ReconcileStatus,
      ReconcileToken, Beat, LoopEnds, Answer, BeatLost, OffersDone, Start, Token, Place, PlaceFails,
      SupervisePlaced, Offer, DrainDeadline, Deregister, StopOne, StopReturns, StopsNext, KillLost,
      Deadline, DeadlineKill, TickStops, TickPasses, KillReturns, WatchExit, EndReport, WaitFails,
      Finish, ExecFinish, ExecStop, ExecExit, ExecDie, PodDeleted, Reap, Boot, Crash, Terminate,
      ApiStep, MonitorSettles, vars, watchVars, WatchAt
<1>2. ASSUME NEW p \in Placements, p \in deleted' PROVE api'[JobOf(p)].status = "deleted"
  <2>1. JobOf(p) \in Jobs BY DEF JobOf, Placements
  <2>2. api[JobOf(p)].status = "deleted"
    <3>1. CASE p \in deleted BY <3>1 DEF FlagInv, JobsOf
    <3>2. ASSUME FreshProcess PROVE FALSE BY <1>2, <3>2 DEF FreshProcess
    <3>3. ASSUME NEW q, NEW n, Supervise(q, n) PROVE p \in deleted BY <1>2, <3>3 DEF Supervise
    <3> QED
      BY <1>2, <3>1, <3>2, <3>3
      DEF Next, ReconcileNext, LoopNext, DrainNext, WatchNext, ExNext, ListMine, Reattach,
        ReconcileFail, ReconcileSkip, ReconcileKill, ReconcileRemove, Reconciled, ReconcileStatus,
        ReconcileToken, Beat, LoopEnds, Answer, BeatLost, OffersDone, Start, Token, Place,
        PlaceFails, SupervisePlaced, Offer, DrainDeadline, Deregister, StopOne, StopReturns,
        StopsNext, KillLost, Deadline, DeadlineKill, TickStops, TickPasses, KillReturns, WatchExit,
        EndReport, WaitFails, Finish, ExecFinish, ExecStop, ExecExit, ExecDie, PodDeleted, Reap,
        Boot, Crash, Terminate, ApiStep, MonitorSettles, vars, watchVars
  <2> QED BY <2>1, <2>2, ApiGrows DEF Grows
<1>3. ASSUME NEW p \in Placements, watch'[p] = "deadline" PROVE p \in timedOut'
  <2>1. ASSUME NEW q \in Placements, NEW x, watch' = [watch EXCEPT ![q] = x], x # "deadline"
        PROVE  p # q /\ watch[p] = "deadline"
    BY <1>3, <2>1 DEF TypeOK, WatchType
  <2>2. ASSUME NEW q \in Placements, Deadline(q) PROVE p \in timedOut'
    BY <1>3, <2>2 DEF Deadline, FlagInv, TypeOK, WatchType
  <2>3. ASSUME NEW q \in Placements, NEW n, Supervise(q, n) PROVE p \in timedOut'
    BY <1>3, <2>3 DEF Supervise, FlagInv, TypeOK, WatchType
  <2>4. ASSUME FreshProcess PROVE FALSE BY <1>3, <2>4 DEF FreshProcess
  <2>5. watch[p] = "deadline" => p \in timedOut BY DEF FlagInv
  <2>6. CASE watch' = watch /\ timedOut' = timedOut BY <1>3, <2>5, <2>6
  <2>7. main \in {"decide", "supervise"} => cur \in Placements BY DEF TypeOK, MainType
  <2> QED
    BY <2>1, <2>2, <2>3, <2>4, <2>5, <2>6, <2>7
    DEF Next, ReconcileNext, LoopNext, DrainNext, WatchNext, ExNext, ListMine, Reattach,
      ReconcileFail, ReconcileSkip, ReconcileKill, ReconcileRemove, Reconciled, ReconcileStatus,
      ReconcileToken, Beat, LoopEnds, Answer, BeatLost, OffersDone, Start, Token, Place, PlaceFails,
      SupervisePlaced, Offer, DrainDeadline, Deregister, StopOne, StopReturns, StopsNext, KillLost,
      DeadlineKill, TickStops, TickPasses, KillReturns, WatchExit, EndReport, WaitFails, Finish,
      ExecFinish, ExecStop, ExecExit, ExecDie, PodDeleted, Reap, Boot, Crash, Terminate, ApiStep,
      MonitorSettles, vars, watchVars
<1>4. timedOut' \subseteq Placements /\ deleted' \subseteq Placements
  BY NextTyped DEF TypeOK, WatchType
<1> QED BY <1>1, <1>2, <1>3, <1>4 DEF FlagInv, JobsOf

\* A report with the token of an attempt that is ours, or of a later one, leaves the attempt settled.
LEMMA SettledIsOver ==
  ASSUME TypeOK, OursInv, NEW p \in Placements, Ours(p), NEW n \in Int, NEW w,
         AttemptOf(p) <= n, n <= JobsOf(p).attempt,
         NEW o \in {"completed", "failed", "canceled"}, Settle(JobOf(p), n, o, w)
  PROVE  Over(p)'
<1>1. JobOf(p) \in Jobs /\ AttemptOf(p) \in Int /\ api[JobOf(p)].attempt \in Int
  BY DEF JobOf, AttemptOf, Placements, Attempts, TypeOK, ApiType
<1>2. CASE n = AttemptOf(p) /\ n = JobsOf(p).attempt /\ api[JobOf(p)].status = "running"
  <2>1. api[JobOf(p)].mine BY <1>2 DEF OursInv, JobsOf
  <2>2. api' = [api EXCEPT ![JobOf(p)].status = o, ![JobOf(p)].by = w]
    BY <1>2, <2>1 DEF Settle, JobsOf
  <2>3. api'[JobOf(p)].status = o BY <1>1, <2>2 DEF TypeOK, ApiType
  <2> QED BY <2>3 DEF Over
<1>3. CASE api[JobOf(p)].status # "running"
  BY <1>1, <1>3 DEF Settle, Over
<1>4. CASE AttemptOf(p) # JobsOf(p).attempt
  BY <1>1, <1>4 DEF Settle, Over, JobsOf, TypeOK, ApiType
<1> QED BY <1>1, <1>2, <1>3, <1>4 DEF JobsOf

LEMMA FailedIsOver ==
  ASSUME TypeOK, OursInv, NEW p \in Placements, Ours(p), NEW n \in Int,
         n # 0 => AttemptOf(p) <= n /\ n <= JobsOf(p).attempt,
         FailWith(p, n) \/ FailWithRunCtx(p, n)
  PROVE  Over(p)' \/ p \in lost'
<1>1. CASE Settle(JobOf(p), n, "failed", "launcher") /\ n # 0
  BY <1>1, SettledIsOver
<1> QED BY <1>1 DEF FailWith, FailWithRunCtx

LEMMA OverNext == TypeOK /\ ReportInv /\ [Next]_vars => OverInv'
<1> SUFFICES ASSUME TypeOK, ReportInv, [Next]_vars, NEW p \in Placements, p \notin lost',
                    code'[p] \in ReportedCodes \/ p \in timedOut' \/ sig'[p] = "deadline"
             PROVE  Over(p)'
  BY DEF OverInv
<1> USE DEF ReportInv
<1>1. p \notin lost BY HistoryGrows
<1>2. CASE code[p] \in ReportedCodes \/ p \in timedOut \/ sig[p] = "deadline"
  <2>1. Over(p) BY <1>1, <1>2 DEF OverInv
  <2>2. ex[p] # "none" BY <1>2 DEF PlacedInv, FlagInv, ReportedCodes
  <2> QED BY <2>1, <2>2, OverStays DEF Ours
<1>3. CASE code'[p] \in ReportedCodes /\ code[p] \notin ReportedCodes
  <2>1. CASE ExecFinish(p)
    <3>1. Ours(p) /\ AttemptOf(p) <= JobsOf(p).attempt BY <2>1 DEF ExecFinish, Ours, OursInv
    <3>2. /\ api[JobOf(p)].attempt = AttemptOf(p)
          /\ \E o \in {"completed", "failed"} : Settle(JobOf(p), AttemptOf(p), o, "executor")
      BY <1>3, <2>1 DEF ExecFinish, ReportedCodes, TypeOK, ExType
    <3>3. AttemptOf(p) \in Int BY DEF AttemptOf, Placements, Attempts
    <3> QED BY <3>1, <3>2, <3>3, SettledIsOver DEF JobsOf
  <2>2. CASE ExecStop(p)
    <3>1. Ours(p) BY <2>2 DEF ExecStop, Ours
    <3>2. Settle(JobOf(p), AttemptOf(p), "canceled", "executor") BY <2>2 DEF ExecStop
    <3>3. AttemptOf(p) \in Int BY DEF AttemptOf, Placements, Attempts
    <3>4. AttemptOf(p) <= JobsOf(p).attempt BY <3>1 DEF OursInv
    <3> QED BY <3>1, <3>2, <3>3, <3>4, SettledIsOver
  <2>3. ASSUME NEW q \in Placements, ExecFinish(q) \/ ExecStop(q) PROVE p = q
    BY <1>3, <2>3 DEF ExecFinish, ExecStop, TypeOK, ExType
  <2>4. ASSUME NEW q \in Placements, ExecDie(q) PROVE FALSE
    BY <1>3, <2>4 DEF ExecDie, ReportedCodes, TypeOK, ExType
  <2>5. ASSUME NEW q \in Placements, Gone(q) \/ RemovePlacement(q) PROVE FALSE
    BY <1>3, <2>5 DEF Gone, RemovePlacement, ReportedCodes, TypeOK, ExType
  <2>6. ASSUME code' = code PROVE FALSE BY <1>3, <2>6
  <2>7. main = "remove" => cur \in Placements BY DEF TypeOK, MainType
  <2> QED
    BY <2>1, <2>2, <2>3, <2>4, <2>5, <2>6, <2>7
    DEF Next, ReconcileNext, LoopNext, DrainNext, WatchNext, ExNext, ListMine, Reattach,
      ReconcileFail, ReconcileSkip, ReconcileKill, ReconcileRemove, Reconciled, ReconcileStatus,
      ReconcileToken, Beat, LoopEnds, Answer, BeatLost, OffersDone, Start, Token, Place, PlaceFails,
      SupervisePlaced, Offer, DrainDeadline, Deregister, StopOne, StopReturns, StopsNext, KillLost,
      Deadline, DeadlineKill, TickStops, TickPasses, KillReturns, WatchExit, EndReport, WaitFails,
      Finish, ExecExit, PodDeleted, Reap, Boot, Crash, Terminate, ApiStep, MonitorSettles, vars,
      exVars
<1>4. CASE p \in timedOut' /\ p \notin timedOut
  <2>1. Deadline(p)
    <3>1. ASSUME NEW q, NEW n, Supervise(q, n) PROVE FALSE BY <1>4, <3>1 DEF Supervise
    <3>2. ASSUME FreshProcess PROVE FALSE BY <1>4, <3>2 DEF FreshProcess
    <3>3. ASSUME NEW q \in Placements, Deadline(q) PROVE p = q BY <1>4, <3>3 DEF Deadline
    <3> QED
      BY <1>4, <3>1, <3>2, <3>3
      DEF Next, ReconcileNext, LoopNext, DrainNext, WatchNext, ExNext, ListMine, Reattach,
        ReconcileFail, ReconcileSkip, ReconcileKill, ReconcileRemove, Reconciled, ReconcileStatus,
        ReconcileToken, Beat, LoopEnds, Answer, BeatLost, OffersDone, Start, Token, Place,
        PlaceFails, SupervisePlaced, Offer, DrainDeadline, Deregister, StopOne, StopReturns,
        StopsNext, KillLost, DeadlineKill, TickStops, TickPasses, KillReturns, WatchExit, EndReport,
        WaitFails, Finish, ExecFinish, ExecStop, ExecExit, ExecDie, PodDeleted, Reap, Boot, Crash,
        Terminate, ApiStep, MonitorSettles, vars, watchVars
  <2>2. Ours(p) /\ tok[p] \in Int
    BY <2>1, LauncherAssumption DEF Deadline, Ours, PlacedInv, TypeOK, WatchType
  <2> QED BY <2>1, <2>2, FailedIsOver DEF Deadline, TokenInv
<1>5. CASE sig'[p] = "deadline" /\ sig[p] # "deadline"
  <2>1. DeadlineKill(p)
    <3>1. ASSUME NEW q \in Placements, NEW why, Kill(q, why), why # "deadline" PROVE FALSE
      BY <1>5, <3>1 DEF Kill, TypeOK, ExType
    <3>2. ASSUME NEW q \in Placements, DeadlineKill(q) PROVE p = q
      BY <1>5, <3>2 DEF DeadlineKill, Kill, KillLost, TypeOK, ExType
    <3>3. ASSUME NEW q \in Placements, Gone(q) \/ RemovePlacement(q) PROVE FALSE
      BY <1>5, <3>3 DEF Gone, RemovePlacement, TypeOK, ExType
    <3>4. ASSUME sig' = sig PROVE FALSE BY <1>5, <3>4
    <3>5. main \in {"stop", "remove"} => cur \in Placements BY DEF TypeOK, MainType
    <3> QED
      BY <3>1, <3>2, <3>3, <3>4, <3>5
      DEF Next, ReconcileNext, LoopNext, DrainNext, WatchNext, ExNext, ListMine, Reattach,
        ReconcileFail, ReconcileSkip, ReconcileKill, ReconcileRemove, Reconciled, ReconcileStatus,
        ReconcileToken, Beat, LoopEnds, Answer, BeatLost, OffersDone, Start, Token, Place,
        PlaceFails, SupervisePlaced, Offer, DrainDeadline, Deregister, StopOne, StopReturns,
        StopsNext, KillLost, Deadline, TickStops, TickPasses, KillReturns, WatchExit, EndReport,
        WaitFails, Finish, ExecFinish, ExecStop, ExecExit, ExecDie, PodDeleted, Reap, Boot, Crash,
        Terminate, ApiStep, MonitorSettles, vars, exVars
  <2>2. p \in timedOut BY <2>1 DEF DeadlineKill, FlagInv
  <2> QED BY <1>2, <2>2
<1> QED BY <1>2, <1>3, <1>4, <1>5

\* What reconcile is about to stop stays over, while it gets to it.
LEMMA StopQuiet ==
  ASSUME TypeOK, ReportInv, [Next]_vars, main \in {"mint", "decide", "stop", "remove"},
         UNCHANGED <<main, cur, active, token>>, term => term', losses <= losses'
  PROVE  StopInv'
<1> USE DEF ReportInv
<1>1. cur \in Placements /\ Ours(cur) BY DEF TypeOK, MainType, PlacedInv, Ours
<1>2. Over(cur) => Over(cur)' BY <1>1, OverStays
<1>3. lost \subseteq lost' BY HistoryGrows
<1>4. losses \in Int /\ losses' \in Int BY LauncherAssumption, NextTyped DEF TypeOK, HistType
<1> QED BY <1>2, <1>3, <1>4 DEF StopInv, Over

LEMMA StopNext == TypeOK /\ ReportInv /\ [Next]_vars => StopInv'
<1> SUFFICES ASSUME TypeOK, ReportInv, [Next]_vars PROVE StopInv'
  OBVIOUS
<1> USE DEF ReportInv
<1>1. losses \in Int /\ losses' \in Int BY LauncherAssumption, NextTyped DEF TypeOK, HistType
<1>2. lost \subseteq lost' BY HistoryGrows
<1>3. ASSUME NEW p \in Placements, ReconcileStatus(p) PROVE StopInv'
  <2>1. /\ cur' = p /\ main' = (IF active' THEN "mint" ELSE "decide") /\ api' = api /\ p \in todo
        /\ active' \in BOOLEAN /\ UNCHANGED term
    BY <1>3, NextTyped DEF ReconcileStatus, apiVars, restVars, TypeOK, MainType
  <2>2. active' = IsActive(api[JobOf(p)].status) \/ (p \in lost' /\ active' = FALSE)
    BY <1>3, <1>2 DEF ReconcileStatus
  <2>3. ~IsActive(api[JobOf(p)].status) => Over(p) BY DEF IsActive, Over
  <2>4. ASSUME ~term, active' = FALSE PROVE Over(p) \/ losses' > 0
    <3>1. CASE losses' = losses
      <4>1. active' = IsActive(api[JobOf(p)].status)
        BY <1>1, <1>3, <2>4, <3>1 DEF ReconcileStatus, Lose
      <4> QED BY <2>3, <2>4, <4>1
    <3>2. CASE losses' # losses
      BY <1>1, <1>3, <3>2, LauncherAssumption DEF ReconcileStatus, Lose, TypeOK, HistType
    <3> QED BY <3>1, <3>2
  <2>5. CASE active'
    BY <2>1, <2>5 DEF StopInv
  <2>6. CASE ~active'
    BY <2>1, <2>2, <2>3, <2>4, <2>6 DEF StopInv, Over
  <2> QED BY <2>1, <2>5, <2>6
<1>11. CASE ReconcileToken
  <2>1. /\ cur \in Placements /\ Ours(cur) /\ cur' = cur /\ main' = "decide" /\ active /\ active'
        /\ api' = api /\ UNCHANGED term
    BY <1>11 DEF ReconcileToken, restVars, apiVars, TypeOK, MainType, PlacedInv, Ours, StopInv
  <2>2. /\ JobOf(cur) \in Jobs /\ AttemptOf(cur) \in Int /\ api[JobOf(cur)].attempt \in Int
        /\ api[JobOf(cur)].attempt # 0
    BY <2>1 DEF JobOf, AttemptOf, Placements, Attempts, TypeOK, ApiType
  <2>3. ASSUME ~term, token' = 0 PROVE Over(cur) \/ losses' > 0
    <3>1. CASE losses' = losses
      <4>1. token' = IF api[JobOf(cur)].status = "running" /\ api[JobOf(cur)].mine
                     THEN api[JobOf(cur)].attempt ELSE 0
        BY <1>1, <1>11, <2>3, <3>1 DEF ReconcileToken, Lose
      <4>2. ~(api[JobOf(cur)].status = "running" /\ api[JobOf(cur)].mine)
        BY <2>2, <2>3, <4>1
      <4> QED BY <2>1, <2>2, <4>2 DEF OursInv, JobsOf, Over
    <3>2. CASE losses' # losses
      BY <1>1, <1>11, <3>2, LauncherAssumption DEF ReconcileToken, Lose, TypeOK, HistType
    <3> QED BY <3>1, <3>2
  <2> QED BY <2>1, <2>3 DEF StopInv, Over
<1>4. CASE ReconcileFail
  <2>1. /\ cur \in Placements /\ Ours(cur) /\ cur' = cur /\ main' = "stop" /\ main = "decide"
        /\ UNCHANGED term /\ active
    BY <1>4 DEF ReconcileFail, restVars, TypeOK, MainType, PlacedInv, Ours
  <2>2. token \in Int /\ (token # 0 => AttemptOf(cur) <= token /\ token <= JobsOf(cur).attempt)
    BY <2>1, LauncherAssumption DEF TokenInv, TypeOK, MainType
  <2>3. FailWithRunCtx(cur, token) BY <1>4 DEF ReconcileFail
  <2>4. Over(cur)' \/ cur \in lost' BY <2>1, <2>2, <2>3, FailedIsOver
  <2>5. ASSUME ~term PROVE Over(cur)' \/ losses' > 0
    <3>1. CASE Lose BY <3>1, LauncherAssumption DEF Lose, TypeOK, HistType
    <3>2. CASE Settle(JobOf(cur), token, "failed", "launcher") /\ token # 0
      BY <2>1, <2>2, <3>2, SettledIsOver
    <3>3. CASE token = 0 /\ UNCHANGED losses
      <4>1. Over(cur) \/ losses > 0 BY <2>1, <2>5, <3>3 DEF StopInv
      <4>2. Over(cur) => Over(cur)' BY <2>1, OverStays
      <4> QED BY <3>3, <4>1, <4>2
    <3> QED BY <2>3, <2>5, <3>1, <3>2, <3>3 DEF FailWithRunCtx, FailWith
  <2> QED BY <2>1, <2>4, <2>5 DEF StopInv, Over
<1>5. CASE ReconcileSkip
  <2>1. /\ cur' = cur /\ main' = "stop" /\ main = "decide" /\ ~active
        /\ UNCHANGED <<term, lost, losses, api>>
    BY <1>5 DEF ReconcileSkip, restVars, histVars, apiVars
  <2> QED BY <2>1 DEF StopInv, Over
<1>6. CASE ReconcileKill
  <2>1. /\ cur' = cur /\ main' = "remove" /\ main = "stop" /\ UNCHANGED <<lost, api>>
    BY <1>6 DEF ReconcileKill, apiVars
  <2> QED BY <2>1 DEF StopInv, Over
<1>7. losses <= losses'
  <2>1. CASE Lose BY <1>1, <2>1 DEF Lose
  <2>2. CASE losses' = losses BY <1>1, <2>2
  <2>3. CASE losses' = losses + 1 BY <1>1, <2>3
  <2>4. ASSUME NEW p, NEW n, FailWith(p, n) \/ FailWithRunCtx(p, n) PROVE Lose \/ losses' = losses
    BY <2>4 DEF FailWith, FailWithRunCtx
  <2>5. ASSUME NEW p, RemovePlacement(p) PROVE Lose \/ losses' = losses
    BY <2>5 DEF RemovePlacement
  <2> QED
    BY <2>1, <2>2, <2>3, <2>4, <2>5
    DEF Next, ReconcileNext, LoopNext, DrainNext, WatchNext, ExNext, ListMine, Reattach,
      ReconcileFail, ReconcileSkip, ReconcileKill, ReconcileRemove, Reconciled, ReconcileStatus,
      ReconcileToken, Beat, LoopEnds, Answer, BeatLost, OffersDone, Start, Token, Place, PlaceFails,
      SupervisePlaced, Offer, DrainDeadline, Deregister, StopOne, StopReturns, StopsNext, KillLost,
      Deadline, DeadlineKill, TickStops, TickPasses, KillReturns, WatchExit, EndReport, WaitFails,
      Finish, ExecFinish, ExecStop, ExecExit, ExecDie, PodDeleted, Reap, Boot, Crash, Terminate,
      ApiStep, MonitorSettles, vars, histVars
<1>8. CASE main' \notin {"mint", "decide", "stop", "remove"} BY <1>8 DEF StopInv
<1>9. CASE /\ main \in {"mint", "decide", "stop", "remove"} /\ UNCHANGED <<main, cur, active, token>>
           /\ term => term'
  BY <1>7, <1>9, StopQuiet
<1>10. CASE UNCHANGED mainVars
  BY <1>8, <1>9, <1>10 DEF mainVars
<1> QED
  BY <1>3, <1>4, <1>5, <1>6, <1>8, <1>9, <1>10, <1>11
  DEF Next, ReconcileNext, LoopNext, DrainNext, WatchNext, ExNext, ListMine, Reattach,
    ReconcileRemove, Reconciled, Beat, LoopEnds, Answer, BeatLost, OffersDone,
    Start, Token, Place, PlaceFails, SupervisePlaced, Offer, DrainDeadline, Deregister, StopOne,
    StopReturns, StopsNext, KillLost, Deadline, DeadlineKill, TickStops, TickPasses, KillReturns,
    WatchExit, EndReport, WaitFails, Finish, ExecFinish, ExecStop, ExecExit, ExecDie, PodDeleted,
    Reap, Boot, Crash, Terminate, ApiStep, MonitorSettles, vars, mainVars, FreshProcess, restVars,
    recVars, NextListed, ClaimReturns

\* A claim makes a new placement: there is none of the attempt yet.
LEMMA NewNext ==
  TypeOK /\ ReportInv /\ [Next]_vars => NewInv'
<1> SUFFICES ASSUME TypeOK, ReportInv, [Next]_vars, main' \in {"token", "place"}
             PROVE  ex'[cur'] = "none"
  BY DEF NewInv
<1>1. CASE Start
  <2>1. /\ JobOf(cur) \in Jobs /\ api[JobOf(cur)].status = "pending"
        /\ cur' = <<JobOf(cur), api[JobOf(cur)].attempt>> /\ ex' = ex
    BY <1>1 DEF Start, ClaimReturns, Claimable, exVars, TypeOK, MainType, Placements, JobOf
  <2>2. PICK p \in Placements : p = <<JobOf(cur), api[JobOf(cur)].attempt>>
    BY <2>1 DEF Placements, TypeOK, ApiType
  <2>3. JobOf(p) = JobOf(cur) /\ AttemptOf(p) = api[JobOf(p)].attempt
    BY <2>2 DEF JobOf, AttemptOf
  <2>4. ~Ours(p) BY <2>1, <2>3 DEF ReportInv, OursInv, JobsOf
  <2> QED BY <2>1, <2>2, <2>4 DEF Ours
<1>2. CASE main \in {"token", "place"} /\ cur' = cur /\ main' \in {"token", "place"}
  <2>1. cur \in Placements /\ ex[cur] = "none" BY <1>2 DEF ReportInv, NewInv, TypeOK, MainType
  <2>2. ASSUME NEW q \in Placements, NEW x, ex[q] # "none", ex' = [ex EXCEPT ![q] = x]
        PROVE  ex'[cur] = "none"
    BY <2>1, <2>2 DEF TypeOK, ExType
  <2>3. ASSUME NEW q \in Placements, ex[q] # "none", Gone(q) \/ RemovePlacement(q)
        PROVE  ex'[cur] = "none"
    BY <2>1, <2>3, <2>2 DEF Gone, RemovePlacement
  <2>4. ASSUME ex' = ex PROVE ex'[cur] = "none" BY <2>1, <2>4
  <2>5. \A q \in Placements : watch[q] = "removing" => ex[q] # "none"
    BY DEF ReportInv, PlacedInv
  <2> QED
    BY <1>2, <2>2, <2>3, <2>4, <2>5
    DEF Next, ReconcileNext, LoopNext, DrainNext, WatchNext, ExNext, ListMine, Reattach,
      ReconcileFail, ReconcileSkip, ReconcileKill, ReconcileRemove, Reconciled, ReconcileStatus,
      ReconcileToken, Beat, LoopEnds, Answer, BeatLost, OffersDone, Start, Token, Place, PlaceFails,
      SupervisePlaced, Offer, DrainDeadline, Deregister, StopOne, StopReturns, StopsNext, KillLost,
      Deadline, DeadlineKill, TickStops, TickPasses, KillReturns, WatchExit, EndReport, WaitFails,
      Finish, ExecFinish, ExecStop, ExecExit, ExecDie, PodDeleted, Reap, Boot, Crash, Terminate,
      ApiStep, MonitorSettles, vars, exVars, Alive, mainVars
<1> QED
  BY <1>1, <1>2
  DEF Next, ReconcileNext, LoopNext, DrainNext, WatchNext, ExNext, ListMine, Reattach,
    ReconcileFail, ReconcileSkip, ReconcileKill, ReconcileRemove, Reconciled, ReconcileStatus,
    ReconcileToken, Beat, LoopEnds, Answer, BeatLost, OffersDone, Token, Place, PlaceFails,
    SupervisePlaced, Offer, DrainDeadline, Deregister, StopOne, StopReturns, StopsNext, KillLost,
    Deadline, DeadlineKill, TickStops, TickPasses, KillReturns, WatchExit, EndReport, WaitFails,
    Finish, ExecFinish, ExecStop, ExecExit, ExecDie, PodDeleted, Reap, Boot, Crash, Terminate,
    ApiStep, MonitorSettles, vars, mainVars, FreshProcess, restVars, recVars, NextListed,
    ClaimReturns

\* Nothing is ours before the first life.
LEMMA InitReport == Init => ReportInv
<1> SUFFICES ASSUME Init PROVE ReportInv
  OBVIOUS
<1>1. OursInv BY DEF Init, OursInv, Ours
<1>2. PlacedInv BY DEF Init, PlacedInv
<1>3. TokenInv BY DEF Init, TokenInv
<1>4. FlagInv BY DEF Init, FlagInv
<1>5. OverInv BY DEF Init, OverInv, ReportedCodes
<1>6. StopInv /\ NewInv BY DEF Init, StopInv, NewInv
<1> QED BY <1>1, <1>2, <1>3, <1>4, <1>5, <1>6 DEF ReportInv

LEMMA NextReport == TypeOK /\ ReportInv /\ [Next]_vars => ReportInv'
BY OursNext, PlacedNext, TokenNext, FlagNext, OverNext, StopNext, NewNext DEF ReportInv

\* Every placement's record at the API, tokens, flags and signals agree, over every life.
THEOREM ReportCorrect == Spec => []ReportInv
<1>1. Init => ReportInv BY InitReport
<1>2. TypeOK /\ ReportInv /\ [Next]_vars => ReportInv' BY NextReport
<1> QED BY <1>1, <1>2, TypeCorrect, PTL DEF Spec

-----------------------------------------------------------------------------
(* The end of supervision. *)

\* Who takes a watcher to its end.
LEMMA EndsBy ==
  ASSUME TypeOK, [Next]_vars, NEW p \in Placements, watch'[p] \in {"removing", "done"}
  PROVE  \/ watch'[p] = watch[p]
         \/ WatchExit(p) /\ watch'[p] = "removing"
         \/ WaitFails(p) /\ watch'[p] = "removing"
         \/ Finish(p) /\ watch[p] = "removing" /\ watch'[p] = "done"
<1>1. ASSUME NEW q \in Placements, NEW x, watch' = [watch EXCEPT ![q] = x], p # q
      PROVE  watch'[p] = watch[p]
  BY <1>1 DEF TypeOK, WatchType
<1>2. ASSUME NEW q \in Placements, NEW x \in {"watch", "deadline", "killing"},
             watch' = [watch EXCEPT ![q] = x]
      PROVE  watch'[p] = watch[p]
  BY <1>2 DEF TypeOK, WatchType
<1>3. ASSUME NEW q \in Placements, NEW n, Supervise(q, n) PROVE watch'[p] = watch[p]
  BY <1>2, <1>3 DEF Supervise
<1>4. ASSUME FreshProcess PROVE FALSE BY <1>4 DEF FreshProcess
<1>5. CASE watch' = watch BY <1>5
<1>6. ASSUME NEW q \in Placements, WatchExit(q)
      PROVE  watch'[p] = watch[p] \/ (p = q /\ watch'[p] = "removing")
  BY <1>1, <1>6 DEF WatchExit, EndReport, TypeOK, WatchType
<1>7. ASSUME NEW q \in Placements, WaitFails(q)
      PROVE  watch'[p] = watch[p] \/ (p = q /\ watch'[p] = "removing")
  BY <1>1, <1>7 DEF WaitFails, TypeOK, WatchType
<1>8. ASSUME NEW q \in Placements, Finish(q)
      PROVE  watch'[p] = watch[p] \/ (p = q /\ watch[p] = "removing" /\ watch'[p] = "done")
  BY <1>1, <1>8 DEF Finish, TypeOK, WatchType
<1>9. main \in {"decide", "supervise"} => cur \in Placements BY DEF TypeOK, MainType
<1> QED
  BY <1>2, <1>3, <1>4, <1>5, <1>6, <1>7, <1>8, <1>9
  DEF Next, ReconcileNext, LoopNext, DrainNext, WatchNext, ExNext, ListMine, Reattach,
    ReconcileFail, ReconcileSkip, ReconcileKill, ReconcileRemove, Reconciled, ReconcileStatus,
    ReconcileToken, Beat, LoopEnds, Answer, BeatLost, OffersDone, Start, Token, Place, PlaceFails,
    SupervisePlaced, Offer, DrainDeadline, Deregister, StopOne, StopReturns, StopsNext, KillLost,
    Deadline, DeadlineKill, TickStops, TickPasses, KillReturns, ExecFinish, ExecStop, ExecExit,
    ExecDie, PodDeleted, Reap, Boot, Crash, Terminate, ApiStep, MonitorSettles, vars, watchVars

\* The launcher remembers for its life the pods it deleted; other drivers' placements it never does.
LEMMA KilledGrow ==
  ASSUME TypeOK, [Next]_vars
  PROVE  /\ killed \subseteq killed' \/ FreshProcess
         /\ Driver # "kubernetes" /\ killed = {} => killed' = {}
<1>1. ASSUME NEW p, NEW why, Kill(p, why)
      PROVE  killed \subseteq killed' /\ (Driver # "kubernetes" => killed' = killed)
  BY <1>1 DEF Kill
<1>2. CASE FreshProcess BY <1>2 DEF FreshProcess
<1> QED
  BY <1>1, <1>2
  DEF Next, ReconcileNext, LoopNext, DrainNext, WatchNext, ExNext, ListMine, Reattach,
    ReconcileFail, ReconcileSkip, ReconcileKill, ReconcileRemove, Reconciled, ReconcileStatus,
    ReconcileToken, Beat, LoopEnds, Answer, BeatLost, OffersDone, Start, Token, Place, PlaceFails,
    SupervisePlaced, Offer, DrainDeadline, Deregister, StopOne, StopReturns, StopsNext, KillLost,
    Deadline, DeadlineKill, TickStops, TickPasses, KillReturns, WatchExit, EndReport, WaitFails,
    Finish, ExecFinish, ExecStop, ExecExit, ExecDie, PodDeleted, Reap, Boot, Crash, Terminate,
    ApiStep, MonitorSettles, vars, watchVars, exVars

\* A watcher reports what its executor did not: nothing it is done with is left running, unless the
\* launcher deleted its pod behind the watcher's back.
LEMMA EndNext ==
  ASSUME TypeOK, ReportInv, EndInv, [Next]_vars
  PROVE  EndInv'
<1> SUFFICES ASSUME NEW p \in Placements, p \notin lost' \cup killed',
                    watch'[p] \in {"removing", "done"}
             PROVE  Over(p)'
  BY KilledGrow DEF EndInv
<1> USE DEF ReportInv
<1>1. p \notin lost /\ p \notin killed
  <2>1. CASE FreshProcess BY <2>1 DEF FreshProcess
  <2>2. CASE killed \subseteq killed' BY <2>2, HistoryGrows
  <2> QED BY <2>1, <2>2, KilledGrow
<1>2. Ours(p) /\ (Over(p) => Over(p)')
  <2>1. watch[p] # "idle"
    BY EndsBy DEF WatchExit, EndReport, WaitFails
  <2>2. Ours(p) BY <2>1 DEF PlacedInv, Ours
  <2> QED BY <2>2, OverStays
<1>3. tok[p] \in Int /\ (tok[p] # 0 => AttemptOf(p) <= tok[p] /\ tok[p] <= JobsOf(p).attempt)
  BY LauncherAssumption DEF TokenInv, TypeOK, WatchType
<1>4. CASE watch[p] \in {"removing", "done"} BY <1>1, <1>2, <1>4 DEF EndInv
<1>5. CASE WatchExit(p)
  <2>1. PICK r \in WaitResults(p) : EndReport(p, r) BY <1>5 DEF WatchExit
  <2>2. r = code[p] \/ r = "lost"
    <3>1. CASE ex[p] = "exited" BY <2>1, <3>1 DEF WaitResults
    <3>2. CASE ex[p] = "removed" BY <1>1, <2>1, <3>2 DEF WaitResults
    <3>3. CASE ex[p] \notin {"exited", "removed"} BY <2>1, <3>3 DEF WaitResults
    <3> QED BY <3>1, <3>2, <3>3
  <2>3. CASE FailWith(p, tok[p]) BY <1>2, <1>3, <2>3, FailedIsOver
  <2>4. CASE ~NeedsReport(r) \/ (r # "lost" /\ p \in timedOut \cup deleted)
    <3>1. CASE p \in deleted
      BY <1>2, <3>1 DEF FlagInv, Over, JobsOf
    <3>2. CASE p \in timedOut BY <1>1, <1>2, <3>2 DEF OverInv
    <3>3. CASE ~NeedsReport(r)
      <4>1. code[p] \in ReportedCodes BY <2>2, <3>3 DEF NeedsReport, ReportedCodes
      <4> QED BY <1>1, <1>2, <4>1 DEF OverInv
    <3> QED BY <2>4, <3>1, <3>2, <3>3
  <2> QED BY <2>1, <2>3, <2>4 DEF EndReport
<1>6. CASE WaitFails(p)
  <2>1. tok[p] # 0 BY <1>6 DEF WaitFails
  <2> QED BY <1>2, <1>3, <1>6, <2>1, SettledIsOver DEF WaitFails
<1> QED BY <1>4, <1>5, <1>6, EndsBy

\* What the end of a supervision settles under any driver: a pod this life of the launcher deleted
\* may take its executor's exit code with it, whether a drain or the sweep deleted it.
EndedIsReportedOrDeleted ==
  \A p \in Placements : watch[p] = "done" /\ p \notin lost \cup killed => Over(p)

\* For every driver: a placement the launcher is done with is no longer the API's running work,
\* unless a report of it was lost or the launcher deleted its pod (watch, ended).
THEOREM EndedOrDeletedCorrect == Spec => []EndedIsReportedOrDeleted
<1>1. Init => EndInv BY DEF Init, EndInv
<1>2. TypeOK /\ ReportInv /\ EndInv /\ [Next]_vars => EndInv' BY EndNext
<1>3. EndInv => EndedIsReportedOrDeleted BY DEF EndInv, EndedIsReportedOrDeleted
<1> QED BY <1>1, <1>2, <1>3, TypeCorrect, ReportCorrect, PTL DEF Spec

\* For the container and the in-process drivers, which delete no pod: unless a report of it was lost.
THEOREM EndedCorrect ==
  ASSUME Driver # "kubernetes" PROVE Spec => []EndedIsReported
<1>1. Init => EndInv BY DEF Init, EndInv
<1>2. TypeOK /\ ReportInv /\ EndInv /\ [Next]_vars => EndInv' BY EndNext
<1>3. EndInv => EndedIsReported BY DEF EndInv, EndedIsReported
<1> QED BY <1>1, <1>2, <1>3, TypeCorrect, ReportCorrect, PTL DEF Spec

\* A job that passed its timeout is failed: the executor its kill stops reports itself canceled, and
\* that report never becomes the attempt's outcome (watch, AC12).
THEOREM TimeoutCorrect == Spec => TimeoutIsFailure
<1>1. TypeOK /\ ReportInv /\ [Next]_vars =>
        [\A p \in Placements :
           LET j == JobOf(p)
           IN  sig[p] = "deadline" /\ p \notin lost /\ api[j].attempt = AttemptOf(p) /\ api'[j] # api[j]
                 => ~(api'[j].status = "canceled" /\ api'[j].by = "executor")]_vars
  <2> SUFFICES ASSUME TypeOK, ReportInv, [Next]_vars, NEW p \in Placements,
                      sig[p] = "deadline", p \notin lost, api[JobOf(p)].attempt = AttemptOf(p),
                      api'[JobOf(p)] # api[JobOf(p)],
                      api'[JobOf(p)].status = "canceled", api'[JobOf(p)].by = "executor"
               PROVE  FALSE
    OBVIOUS
  <2>1. JobOf(p) \in Jobs /\ api[JobOf(p)].status # "running"
    BY DEF ReportInv, OverInv, Over, JobOf, Placements
  <2>2. ASSUME NEW h \in Jobs, NEW n, NEW o, NEW w, Settle(h, n, o, w) PROVE FALSE
    BY <2>1, <2>2 DEF Settle, TypeOK, ApiType
  <2>3. ASSUME NEW h \in Jobs, ApiStep(h) PROVE FALSE
    BY <2>1, <2>3 DEF ApiStep, TypeOK, ApiType
  <2>4. ASSUME NEW h \in Jobs, MonitorSettles(h) PROVE FALSE
    BY <2>1, <2>4 DEF MonitorSettles, TypeOK, ApiType
  <2>5. ASSUME UNCHANGED api PROVE FALSE BY <2>5
  <2>6. CASE Start
    <3>1. JobOf(cur) \in Jobs BY <2>6 DEF Start, TypeOK, MainType, Placements, JobOf
    <3> QED BY <2>5, <2>6, <3>1, <2>1 DEF Start, TypeOK, ApiType
  <2>7. main \in {"decide", "place"} => cur \in Placements BY DEF TypeOK, MainType
  <2>8. \A q \in Placements : JobOf(q) \in Jobs BY DEF JobOf, Placements
  <2>9. ASSUME NEW q \in Placements, NEW n, FailWith(q, n) \/ FailWithRunCtx(q, n) PROVE FALSE
    BY <2>2, <2>5, <2>8, <2>9 DEF FailWith, FailWithRunCtx
  <2> QED
    BY <2>2, <2>3, <2>4, <2>5, <2>6, <2>7, <2>8, <2>9
    DEF Next, ReconcileNext, LoopNext, DrainNext, WatchNext, ExNext, ListMine, Reattach,
      ReconcileFail, ReconcileSkip, ReconcileKill, ReconcileRemove, Reconciled, ReconcileStatus,
      ReconcileToken, Beat, LoopEnds, Answer, BeatLost, OffersDone, Token, Place, PlaceFails,
      SupervisePlaced, Offer, DrainDeadline, Deregister, StopOne, StopReturns, StopsNext, KillLost,
      Deadline, DeadlineKill, TickStops, TickPasses, KillReturns, WatchExit, EndReport, WaitFails,
      Finish, ExecFinish, ExecStop, ExecExit, ExecDie, PodDeleted, Reap, Boot, Crash, Terminate,
      vars, apiVars
<1> QED BY <1>1, TypeCorrect, ReportCorrect, PTL DEF Spec, TimeoutIsFailure

-----------------------------------------------------------------------------
(* What is stopped, and what is kept. *)

\* What a restart and a status poll stop is over, or a call about it was lost.
StopsOnlyTheOverOrLost ==
  [][\A p \in Placements :
       sig[p] = "none" /\ sig'[p] \in {"restart", "cancel"} => Over(p) \/ p \in lost]_vars

\* The steps that stop for a restart or a cancel.
LEMMA StopsBy ==
  ASSUME TypeOK, [Next]_vars, NEW p \in Placements, sig[p] = "none", sig'[p] \in {"restart", "cancel"}
  PROVE  TickStops(p) \/ (ReconcileKill /\ cur = p /\ ~term)
<1>1. ASSUME NEW q \in Placements, NEW why, Kill(q, why) PROVE p = q /\ sig'[p] = why
  BY <1>1 DEF Kill, TypeOK, ExType
<1>2. ASSUME NEW q \in Placements, Gone(q) \/ RemovePlacement(q) PROVE FALSE
  BY <1>2 DEF Gone, RemovePlacement, TypeOK, ExType
<1>3. ASSUME sig' = sig PROVE FALSE BY <1>3
<1>4. main \in {"stop", "remove"} => cur \in Placements BY DEF TypeOK, MainType
<1>5. ASSUME ReconcileKill PROVE cur = p /\ ~term
  BY <1>1, <1>3, <1>4, <1>5 DEF ReconcileKill, KillLost
<1>6. ASSUME NEW q \in Placements, TickStops(q) PROVE p = q
  BY <1>1, <1>3, <1>6 DEF TickStops, KillLost
<1>7. ASSUME NEW q \in Placements, NEW why \in {"deadline", "drain"}, Kill(q, why) PROVE FALSE
  BY <1>1, <1>7
<1> QED
  BY <1>2, <1>3, <1>4, <1>5, <1>6, <1>7
  DEF Next, ReconcileNext, LoopNext, DrainNext, WatchNext, ExNext, ListMine, Reattach,
    ReconcileFail, ReconcileSkip, ReconcileRemove, Reconciled, ReconcileStatus, ReconcileToken,
    Beat, LoopEnds, Answer, BeatLost, OffersDone, Start, Token, Place, PlaceFails, SupervisePlaced,
    Offer, DrainDeadline, Deregister, StopOne, StopReturns, StopsNext, KillLost, Deadline,
    DeadlineKill, TickPasses, KillReturns, WatchExit, EndReport, WaitFails, Finish, ExecFinish,
    ExecStop, ExecExit, ExecDie, PodDeleted, Reap, Boot, Crash, Terminate, ApiStep, MonitorSettles,
    vars, exVars

\* With calls that fail: what a restart and a status poll stop is over, or a call about it was lost.
THEOREM StopsCorrect == Spec => StopsOnlyTheOverOrLost
<1>1. TypeOK /\ ReportInv /\ [Next]_vars =>
        [\A p \in Placements :
           sig[p] = "none" /\ sig'[p] \in {"restart", "cancel"} => Over(p) \/ p \in lost]_vars
  <2> SUFFICES ASSUME TypeOK, ReportInv, [Next]_vars, NEW p \in Placements,
                      sig[p] = "none", sig'[p] \in {"restart", "cancel"}
               PROVE  Over(p) \/ p \in lost
    OBVIOUS
  <2>1. CASE TickStops(p) BY <2>1 DEF TickStops, Over
  <2>2. CASE ReconcileKill /\ cur = p BY <2>2 DEF ReconcileKill, ReportInv, StopInv
  <2> QED BY <2>1, <2>2, StopsBy
<1> QED BY <1>1, TypeCorrect, ReportCorrect, PTL DEF Spec, StopsOnlyTheOverOrLost

\* Where no call fails, a restart and a status poll stop only what is over: never an executor whose
\* attempt the API still has running (reconcile, watch).
THEOREM StopsSettledCorrect ==
  ASSUME MaxLosses = 0 PROVE Spec => StopsOnlyTheSettled
<1>1. TypeOK /\ ReportInv /\ [Next]_vars =>
        [\A p \in Placements :
           sig[p] = "none" /\ sig'[p] \in {"restart", "cancel"} => Over(p)]_vars
  <2> SUFFICES ASSUME TypeOK, ReportInv, [Next]_vars, NEW p \in Placements,
                      sig[p] = "none", sig'[p] \in {"restart", "cancel"}
               PROVE  Over(p)
    OBVIOUS
  <2>1. CASE TickStops(p) BY <2>1 DEF TickStops, Over
  <2>2. CASE ReconcileKill /\ cur = p /\ ~term
    <3>1. ~(losses > 0) BY DEF TypeOK, HistType
    <3> QED BY <2>2, <3>1 DEF ReconcileKill, ReportInv, StopInv
  <2> QED BY <2>1, <2>2, StopsBy
<1> QED BY <1>1, TypeCorrect, ReportCorrect, PTL DEF Spec, StopsOnlyTheSettled

\* The end of a watch takes the executor's last word with it, and marks its cancel.
LEMMA CancelNext ==
  ASSUME Driver # "container" \/ MaxLosses = 0, TypeOK, ReportInv, CancelInv, [Next]_vars
  PROVE  CancelInv'
<1>1. deleted' \subseteq canceled'
  <2>1. deleted \subseteq canceled BY DEF CancelInv
  <2>2. ASSUME NEW q, NEW n, Supervise(q, n) PROVE deleted' \subseteq canceled'
    BY <2>1, <2>2 DEF Supervise
  <2>3. ASSUME FreshProcess PROVE deleted' \subseteq canceled' BY <2>3 DEF FreshProcess
  <2>4. ASSUME NEW q \in Placements, NEW r, EndReport(q, r) PROVE deleted' \subseteq canceled'
    BY <2>1, <2>4 DEF EndReport
  <2> QED
    BY <2>1, <2>2, <2>3, <2>4
    DEF Next, ReconcileNext, LoopNext, DrainNext, WatchNext, ExNext, ListMine, Reattach,
      ReconcileFail, ReconcileSkip, ReconcileKill, ReconcileRemove, Reconciled, ReconcileStatus,
      ReconcileToken, Beat, LoopEnds, Answer, BeatLost, OffersDone, Start, Token, Place, PlaceFails,
      SupervisePlaced, Offer, DrainDeadline, Deregister, StopOne, StopReturns, StopsNext, KillLost,
      Deadline, DeadlineKill, TickStops, TickPasses, KillReturns, WatchExit, WaitFails, Finish,
      ExecFinish, ExecStop, ExecExit, ExecDie, PodDeleted, Reap, Boot, Crash, Terminate, ApiStep,
      MonitorSettles, vars, watchVars
<1>2. ASSUME NEW p \in Placements, watch'[p] = "removing"
      PROVE  /\ ex'[p] \in {"exited", "removed"}
             /\ ex'[p] = "exited" /\ code'[p] = "stopped" => p \in timedOut' \cup canceled'
  <2>1. CASE watch[p] = "removing" /\ watch'[p] = "removing"
    <3>1. /\ ex[p] \in {"exited", "removed"}
          /\ ex[p] = "exited" /\ code[p] = "stopped" => p \in timedOut \cup canceled
      BY <2>1 DEF CancelInv
    <3>2. /\ ex'[p] = ex[p] \/ ex'[p] = "removed"
          /\ ex'[p] = "exited" => code'[p] = code[p]
      <4>1. ASSUME NEW q \in Placements, q # p, NEW x, ex' = [ex EXCEPT ![q] = x] PROVE ex'[p] = ex[p]
        BY <4>1 DEF TypeOK, ExType
      <4>2. ASSUME NEW q \in Placements, q # p, NEW x, code' = [code EXCEPT ![q] = x]
            PROVE  code'[p] = code[p]
        BY <4>2 DEF TypeOK, ExType
      <4>3. ASSUME NEW q \in Placements, Gone(q) \/ RemovePlacement(q)
            PROVE  /\ ex'[p] = ex[p] \/ ex'[p] = "removed"
                   /\ ex'[p] = "exited" => code'[p] = code[p]
        BY <3>1, <4>3 DEF Gone, RemovePlacement, TypeOK, ExType
      <4>4. ASSUME ex' = ex, code' = code
            PROVE  /\ ex'[p] = ex[p] \/ ex'[p] = "removed"
                   /\ ex'[p] = "exited" => code'[p] = code[p]
        BY <4>4
      <4>5. ASSUME FreshProcess PROVE FALSE BY <2>1, <4>5 DEF FreshProcess
      <4>6. ASSUME Place PROVE p # cur /\ cur \in Placements
        BY <3>1, <4>6 DEF Place, ReportInv, NewInv, TypeOK, MainType
      <4>7. main = "remove" => cur \in Placements BY DEF TypeOK, MainType
      <4> QED
        BY <3>1, <4>1, <4>2, <4>3, <4>4, <4>5, <4>6, <4>7
        DEF Next, ReconcileNext, LoopNext, DrainNext, WatchNext, ExNext, ListMine, Reattach,
          ReconcileFail, ReconcileSkip, ReconcileKill, ReconcileRemove, Reconciled, ReconcileStatus,
          ReconcileToken, Beat, LoopEnds, Answer, BeatLost, OffersDone, Start, Token, Place,
          PlaceFails, SupervisePlaced, Offer, DrainDeadline, Deregister, StopOne, StopReturns,
          StopsNext, KillLost, Deadline, DeadlineKill, TickStops, TickPasses, KillReturns,
          WatchExit, EndReport, WaitFails, Finish, ExecFinish, ExecStop, ExecExit, ExecDie,
          PodDeleted, Reap, Boot, Crash, Terminate, ApiStep, MonitorSettles, vars, exVars, Alive
    <3>3. p \in timedOut \cup canceled => p \in timedOut' \cup canceled'
      <4>1. ASSUME NEW q \in Placements, NEW n, Supervise(q, n) PROVE p # q
        BY <2>1, <4>1 DEF Supervise, TypeOK, WatchType
      <4>2. ASSUME NEW q \in Placements, Finish(q) PROVE p # q
        BY <2>1, <4>2 DEF Finish, TypeOK, WatchType
      <4>3. ASSUME FreshProcess PROVE FALSE BY <2>1, <4>3 DEF FreshProcess
      <4>4. ASSUME NEW q \in Placements, NEW r, EndReport(q, r)
            PROVE  timedOut' = timedOut /\ canceled \subseteq canceled'
        BY <4>4 DEF EndReport
      <4>5. ASSUME NEW q \in Placements, q # p, timedOut' = timedOut \ {q}, canceled' = canceled \ {q}
            PROVE  p \in timedOut \cup canceled => p \in timedOut' \cup canceled'
        BY <4>5
      <4>6. ASSUME NEW q \in Placements, NEW n, Supervise(q, n)
            PROVE  p \in timedOut \cup canceled => p \in timedOut' \cup canceled'
        BY <4>1, <4>5, <4>6 DEF Supervise
      <4>7. main \in {"decide", "supervise"} => cur \in Placements BY DEF TypeOK, MainType
      <4> QED
        BY <4>2, <4>3, <4>4, <4>5, <4>6, <4>7
        DEF Next, ReconcileNext, LoopNext, DrainNext, WatchNext, ExNext, ListMine, Reattach,
          ReconcileFail, ReconcileSkip, ReconcileKill, ReconcileRemove, Reconciled, ReconcileStatus,
          ReconcileToken, Beat, LoopEnds, Answer, BeatLost, OffersDone, Start, Token, Place,
          PlaceFails, SupervisePlaced, Offer, DrainDeadline, Deregister, StopOne, StopReturns,
          StopsNext, KillLost, Deadline, DeadlineKill, TickStops, TickPasses, KillReturns,
          WatchExit, WaitFails, Finish, ExecFinish, ExecStop, ExecExit, ExecDie, PodDeleted, Reap,
          Boot, Crash, Terminate, ApiStep, MonitorSettles, vars, watchVars
    <3> QED BY <3>1, <3>2, <3>3
  <2>2. CASE WatchExit(p)
    <3>1. PICK r \in WaitResults(p) : EndReport(p, r) BY <2>2 DEF WatchExit
    <3>2. ex' = ex /\ code' = code /\ deleted' = deleted /\ timedOut' = timedOut
      BY <3>1 DEF EndReport, exVars
    <3>3. ex[p] \in {"exited", "removed"}
      <4>1. CASE ex[p] \notin {"exited", "removed"} BY <3>1, <4>1 DEF WaitResults
      <4> QED BY <4>1
    <3>4. ex[p] = "exited" => r = code[p] BY <3>1 DEF WaitResults
    <3>5. ASSUME ex[p] = "exited", code[p] = "stopped" PROVE p \in timedOut' \cup canceled'
      <4>1. CASE p \in timedOut BY <3>2, <4>1
      <4>2. CASE p \in deleted BY <1>1, <3>2, <4>2
      <4>3. CASE p \notin timedOut \cup deleted
        BY <3>1, <3>4, <3>5, <4>3 DEF EndReport, MarksCanceled
      <4> QED BY <4>1, <4>2, <4>3
    <3> QED BY <3>2, <3>3, <3>5
  <2>3. ASSUME WaitFails(p) PROVE FALSE
    BY <2>3 DEF WaitFails, TypeOK, HistType
  <2> QED BY <1>2, <2>1, <2>2, <2>3, EndsBy
<1> QED BY <1>1, <1>2 DEF CancelInv

\* For every driver whose wait does not fail while the placement is there: the placement of a job
\* that was canceled goes with the end of its supervision and is never kept as a failure, whether the
\* launcher's poll or the executor's own saw the cancel, unless a call of Remove failed (watch, AC12).
THEOREM CancelCorrect ==
  ASSUME Driver # "container" \/ MaxLosses = 0 PROVE Spec => CancelIsNotKept
<1>1. Init => CancelInv BY DEF Init, CancelInv
<1>2. TypeOK /\ ReportInv /\ CancelInv /\ [Next]_vars => CancelInv' BY CancelNext
<1>3. TypeOK /\ CancelInv /\ [Next]_vars =>
        [\A p \in Placements :
           /\ watch[p] = "removing" /\ watch'[p] = "done" /\ code[p] = "stopped" /\ p \notin timedOut
           /\ losses' = losses
           => ex'[p] = "removed"]_vars
  <2> SUFFICES ASSUME TypeOK, CancelInv, [Next]_vars, NEW p \in Placements, watch[p] = "removing",
                      watch'[p] = "done", code[p] = "stopped", p \notin timedOut,
                      losses' = losses
               PROVE  ex'[p] = "removed"
    OBVIOUS
  <2>1. Finish(p) BY EndsBy
  <2>2. ~Kept(p) BY DEF Kept, CancelInv
  <2>3. ~Lose BY DEF Lose, TypeOK, HistType
  <2> QED BY <2>1, <2>2, <2>3 DEF Finish, RemovePlacement, Gone, TypeOK, ExType
<1> QED BY <1>1, <1>2, <1>3, TypeCorrect, ReportCorrect, PTL DEF Spec, CancelIsNotKept

-----------------------------------------------------------------------------
(* A launcher for one job (Config.Single). *)

\* A launcher that has a job takes no offer; before that, it has room for one whatever its capacity.
SingleInv ==
  Single => /\ free <= 1
            /\ claimed => ~InClaim /\ (main \in {"poll", "claim"} => free <= 0)

LEMMA SingleNext == TypeOK /\ SingleInv /\ [Next]_vars => SingleInv'
<1> SUFFICES ASSUME TypeOK, SingleInv, Single, [Next]_vars PROVE SingleInv'
  BY DEF SingleInv
<1>1. ASSUME UNCHANGED <<main, free, claimed>> PROVE SingleInv'
  BY <1>1 DEF SingleInv, InClaim
<1>2. ASSUME ~Claiming', UNCHANGED free \/ free' = 0 PROVE SingleInv'
  BY <1>2 DEF SingleInv, Claiming
<1>3. ASSUME Claiming, Claiming', UNCHANGED <<free, claimed>>,
             InClaim' => InClaim \/ free > 0
      PROVE  SingleInv'
  BY <1>3 DEF SingleInv, Claiming, InClaim, TypeOK, MainType
<1>4. CASE Beat
  <2>1. main' = "poll" /\ ~claimed /\ claimed' = claimed BY <1>4 DEF Beat, SingleDone
  <2>2. free' <= 1 BY <1>4, BusyFinite, LauncherAssumption DEF Beat
  <2> QED BY <2>1, <2>2 DEF SingleInv, InClaim
<1>5. CASE SupervisePlaced
  <2>1. free <= 1 /\ free \in Int BY DEF SingleInv, TypeOK, MainType
  <2>2. free' = free - 1 /\ main' = "claim"
    BY <1>5 DEF SupervisePlaced, RoomLeft, ClaimReturns
  <2>3. free' <= 0 BY <2>1, <2>2
  <2>4. free' <= 1 BY <2>1, <2>2
  <2> QED BY <2>2, <2>3, <2>4 DEF SingleInv, InClaim
<1>6. ASSUME Terminate \/ UNCHANGED vars PROVE SingleInv'
  BY <1>1, <1>6 DEF Terminate, vars, mainVars
<1>7. CASE UNCHANGED mainVars BY <1>1, <1>7 DEF mainVars
<1>8. ASSUME ReconcileNext \/ LoopEnds \/ BeatLost \/ OffersDone \/ DrainDeadline \/ Deregister
             \/ (\E p \in Placements : StopOne(p) \/ StopReturns(p))
      PROVE  SingleInv'
  BY <1>2, <1>8
  DEF ReconcileNext, ListMine, ReconcileStatus, ReconcileToken, Reattach, ReconcileFail, ReconcileSkip,
    ReconcileKill, ReconcileRemove, Reconciled, NextListed, LoopEnds, BeatLost, OffersDone,
    DrainDeadline, Deregister, StopOne, StopReturns, StopsNext, restVars, Claiming, InClaim
<1>9. CASE Boot \/ Crash BY <1>2, <1>9 DEF Boot, Crash, FreshProcess, Claiming, InClaim
<1>10. CASE Answer
  <2>1. CASE main' = "claim" BY <1>3, <1>10, <2>1 DEF Answer, Claiming, InClaim
  <2>2. CASE main' = "drain" BY <1>2, <1>10, <2>2 DEF Answer, Claiming, InClaim
  <2> QED BY <1>10, <2>1, <2>2 DEF Answer
<1>11. ASSUME Start \/ Token \/ Place \/ PlaceFails PROVE SingleInv'
  BY <1>3, <1>11 DEF Start, Token, Place, PlaceFails, ClaimReturns, restVars, Claiming, InClaim
<1>12. ASSUME NEW j \in Jobs, Offer(j) PROVE SingleInv'
  BY <1>1, <1>3, <1>12 DEF Offer, HasRoom, Claiming, InClaim
<1> QED
  BY <1>4, <1>5, <1>6, <1>7, <1>8, <1>9, <1>10, <1>11, <1>12
  DEF Next, LoopNext, DrainNext, WatchNext, ExNext, Deadline, DeadlineKill, TickStops, TickPasses,
    KillReturns, WatchExit, EndReport, WaitFails, Finish, ExecFinish, ExecStop, ExecExit, ExecDie,
    PodDeleted, Reap, ApiStep, MonitorSettles

\* Only the claim makes a job this launcher's.
LEMMA ClaimsBy ==
  ASSUME TypeOK, [Next]_vars, NEW j \in Jobs, api'[j].mine, ~api[j].mine
  PROVE  Start
<1>1. ASSUME UNCHANGED api PROVE FALSE BY <1>1
<1>2. ASSUME NEW h \in Jobs, NEW n, NEW o, NEW w, Settle(h, n, o, w) PROVE FALSE
  BY <1>2 DEF Settle, TypeOK, ApiType
<1>3. ASSUME NEW h \in Jobs, ApiStep(h) \/ MonitorSettles(h) PROVE FALSE
  BY <1>3 DEF ApiStep, MonitorSettles, TypeOK, ApiType
<1>4. \A p \in Placements : JobOf(p) \in Jobs BY DEF JobOf, Placements
<1>5. ASSUME NEW p \in Placements, NEW n, FailWith(p, n) \/ FailWithRunCtx(p, n) PROVE FALSE
  BY <1>1, <1>2, <1>4, <1>5 DEF FailWith, FailWithRunCtx
<1>6. main \in {"decide", "place"} => cur \in Placements BY DEF TypeOK, MainType
<1> QED
  BY <1>1, <1>2, <1>3, <1>4, <1>5, <1>6
  DEF Next, ReconcileNext, LoopNext, DrainNext, WatchNext, ExNext, ListMine, Reattach,
    ReconcileFail, ReconcileSkip, ReconcileKill, ReconcileRemove, Reconciled, ReconcileStatus,
    ReconcileToken, Beat, LoopEnds, Answer, BeatLost, OffersDone, Token, Place, PlaceFails,
    SupervisePlaced, Offer, DrainDeadline, Deregister, StopOne, StopReturns, StopsNext, KillLost,
    Deadline, DeadlineKill, TickStops, TickPasses, KillReturns, WatchExit, EndReport, WaitFails,
    Finish, ExecFinish, ExecStop, ExecExit, ExecDie, PodDeleted, Reap, Boot, Crash, Terminate, vars,
    apiVars

\* Only the driver's Place makes a placement.
LEMMA PlacedBy ==
  ASSUME TypeOK, PlacedInv, [Next]_vars, NEW p \in Placements, ex[p] = "none", ex'[p] # "none"
  PROVE  Place
<1>1. ASSUME UNCHANGED ex PROVE FALSE BY <1>1
<1>2. ASSUME NEW q \in Placements, NEW x, ex' = [ex EXCEPT ![q] = x], ex[q] # "none" PROVE FALSE
  BY <1>2 DEF TypeOK, ExType
<1>3. ASSUME NEW q \in Placements, Gone(q) \/ RemovePlacement(q), ex[q] # "none" PROVE FALSE
  BY <1>1, <1>2, <1>3 DEF Gone, RemovePlacement
<1>4. ASSUME NEW q \in Placements, watch[q] = "removing" PROVE ex[q] # "none"
  BY <1>4 DEF PlacedInv
<1>5. main = "remove" => cur \in Placements /\ ex[cur] # "none"
  BY DEF PlacedInv, TypeOK, MainType
<1>6. ASSUME Crash PROVE FALSE BY <1>6 DEF Crash, TypeOK, ExType
<1> QED
  BY <1>1, <1>2, <1>3, <1>4, <1>5, <1>6
  DEF Next, ReconcileNext, LoopNext, DrainNext, WatchNext, ExNext, ListMine, Reattach,
    ReconcileFail, ReconcileSkip, ReconcileKill, ReconcileRemove, Reconciled, ReconcileStatus,
    ReconcileToken, Beat, LoopEnds, Answer, BeatLost, OffersDone, Start, Token, PlaceFails,
    SupervisePlaced, Offer, DrainDeadline, Deregister, StopOne, StopReturns, StopsNext, KillLost,
    Deadline, DeadlineKill, TickStops, TickPasses, KillReturns, WatchExit, EndReport, WaitFails,
    Finish, ExecFinish, ExecStop, ExecExit, ExecDie, PodDeleted, Reap, Boot, Terminate, ApiStep,
    MonitorSettles, vars, exVars, Alive

\* A launcher started for one job (RUNNER_SINGLE, D11) claims and places no other in its life, with
\* capacity left or not, whatever it is offered and even when its job has ended meanwhile (loop).
SingleTakesOne ==
  [][Single /\ claimed
       => /\ \A j \in Jobs : api'[j].mine => api[j].mine
          /\ \A p \in Placements : ex'[p] # "none" => ex[p] # "none"]_vars

\* A launcher with Config.Single that supervises a job it claimed takes no second one, for any
\* capacity, offers, losses and restarts; a restart begins a new life (loop, claim).
THEOREM SingleCorrect == Spec => SingleTakesOne
<1>1. Init => SingleInv BY DEF Init, SingleInv, InClaim
<1>2. TypeOK /\ SingleInv /\ [Next]_vars => SingleInv' BY SingleNext
<1>3. TypeOK /\ ReportInv /\ SingleInv /\ [Next]_vars =>
        [Single /\ claimed
           => /\ \A j \in Jobs : api'[j].mine => api[j].mine
              /\ \A p \in Placements : ex'[p] # "none" => ex[p] # "none"]_vars
  <2> SUFFICES ASSUME TypeOK, ReportInv, SingleInv, [Next]_vars, Single, claimed
               PROVE  /\ \A j \in Jobs : api'[j].mine => api[j].mine
                      /\ \A p \in Placements : ex'[p] # "none" => ex[p] # "none"
    OBVIOUS
  <2>1. ~InClaim BY DEF SingleInv
  <2>2. ~Start /\ ~Place BY <2>1 DEF Start, Place, InClaim
  <2>3. PlacedInv BY DEF ReportInv
  <2>4. ASSUME NEW j \in Jobs, api'[j].mine PROVE api[j].mine
    BY <2>2, <2>4, ClaimsBy DEF TypeOK, ApiType
  <2>5. ASSUME NEW p \in Placements, ex'[p] # "none" PROVE ex[p] # "none"
    BY <2>2, <2>3, <2>5, PlacedBy
  <2> QED BY <2>4, <2>5
<1> QED BY <1>1, <1>2, <1>3, TypeCorrect, ReportCorrect, PTL DEF Spec, SingleTakesOne

=============================================================================
