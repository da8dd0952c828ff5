------------------------- MODULE LauncherSlotProofs -------------------------
(***************************************************************************)
(* Theorems about what a launcher holds: the executors at work are the ones *)
(* it supervises, and so is every job the API believes is running here, over *)
(* any number of restarts; and what it fails was dead.                      *)
(***************************************************************************)
EXTENDS LauncherReportProofs

-----------------------------------------------------------------------------
(* The invariants. *)

\* Reconcile's loop, the loop's way to a claim, and a claim on its way to a placement.
Reconciling == main \in {"reconcile", "mint", "decide", "stop", "remove"}
Beating == main \in {"beat", "poll", "claim", "start"}
Placing == main \in {"token", "place", "supervise"}

\* A watcher's placement is its job's entry in flight, and the other way round.
EntryInv ==
  /\ \A j \in Jobs : inflight[j] # None => JobOf(inflight[j]) = j
  /\ \A p \in Placements : p \in Watching <=> inflight[JobOf(p)] = p
  /\ main \in {"down", "list", "gone"} => Watching = {}

\* A job has one executor at work, and reconcile adopts one placement of it.
OneInv ==
  /\ \A p, q \in Placements : Alive(p) /\ Alive(q) /\ JobOf(p) = JobOf(q) => p = q
  /\ Reconciling => \A p, q \in Watching \cup (todo \ sawEnded) : JobOf(p) = JobOf(q) => p = q
  /\ main \in {"mint", "decide", "stop", "remove"} => cur \in todo

\* Supervised, or about to be.
Held(p) == p \in Watching \/ (main = "supervise" /\ cur = p)

\* Every executor at work is listed or supervised, unless the launcher was told to stop meanwhile.
HeldInv ==
  /\ Reconciling /\ ~term => \A p \in Placements : Alive(p) => p \in todo \/ Held(p)
  /\ (Beating /\ ~term) \/ Placing => \A p \in Placements : Alive(p) => Held(p)
  /\ Driver = "inprocess" =>
       /\ ~Reconciling /\ main # "list"
       /\ \A p \in Placements : Alive(p) => main # "down" /\ Held(p)

SlotInv == EntryInv /\ OneInv /\ HeldInv

\* The drivers whose executors a launcher always finds again, or that die with it.
NothingEscapes == Driver = "inprocess" \/ (Driver = "container" /\ MaxLosses = 0)

-----------------------------------------------------------------------------
(* How a step moves watchers and executors. *)

\* A placement is watched from Supervise to Finish, within one life.
LEMMA WatchMoves ==
  ASSUME TypeOK, [Next]_vars
  PROVE  \/ Watching' = Watching /\ inflight' = inflight
         \/ (Reattach \/ SupervisePlaced) /\ cur \in Placements /\ Supervise(cur, token)
         \/ \E p \in Placements : Finish(p)
         \/ (Boot \/ Crash) /\ FreshProcess
<1>1. ASSUME NEW p \in Placements, NEW x \in {"watch", "deadline", "killing", "removing"},
             watch[p] \in {"watch", "deadline", "killing"}, watch' = [watch EXCEPT ![p] = x]
      PROVE  Watching' = Watching
  BY <1>1 DEF Watching, TypeOK, WatchType
<1>2. ASSUME watch' = watch PROVE Watching' = Watching BY <1>2 DEF Watching
<1>3. main \in {"decide", "supervise"} => cur \in Placements BY DEF TypeOK, MainType
<1> QED
  BY <1>1, <1>2, <1>3
  DEF Next, ReconcileNext, LoopNext, DrainNext, WatchNext, ExNext, ListMine, Reattach,
    ReconcileFail, ReconcileSkip, ReconcileKill, ReconcileRemove, Reconciled, ReconcileStatus,
    ReconcileToken, Beat, LoopEnds, Answer, BeatLost, OffersDone, Start, Token, Place, PlaceFails,
    SupervisePlaced, Offer, DrainDeadline, Deregister, StopOne, StopReturns, StopsNext, KillLost,
    Deadline, DeadlineKill, TickStops, TickPasses, KillReturns, WatchExit, EndReport, WaitFails,
    ExecFinish, ExecStop, ExecExit, ExecDie, PodDeleted, Reap, Boot, Crash, Terminate, ApiStep,
    MonitorSettles, vars, watchVars

\* Place alone puts an executor to work.
LEMMA AliveComes ==
  ASSUME TypeOK, [Next]_vars, NEW p \in Placements, Alive(p)'
  PROVE  Alive(p) \/ (Place /\ p = cur)
<1>1. ASSUME NEW q \in Placements, NEW x, x \notin {"working", "reported"}, ex' = [ex EXCEPT ![q] = x]
      PROVE  Alive(p)
  BY <1>1 DEF Alive, TypeOK, ExType
<1>2. ASSUME NEW q \in Placements, Gone(q) \/ RemovePlacement(q) PROVE Alive(p)
  BY <1>1, <1>2 DEF Gone, RemovePlacement, Alive
<1>3. ASSUME NEW q \in Placements, ex[q] = "working", ex' = [ex EXCEPT ![q] = "reported"]
      PROVE  Alive(p)
  BY <1>3 DEF Alive, TypeOK, ExType
<1>4. CASE ex' = ex BY <1>4 DEF Alive
<1>5. ASSUME Place PROVE Alive(p) \/ p = cur BY <1>5 DEF Place, Alive, TypeOK, ExType
<1>6. CASE Crash BY <1>6 DEF Crash, Alive
<1>7. main = "remove" => cur \in Placements BY DEF TypeOK, MainType
<1> QED
  BY <1>1, <1>2, <1>3, <1>4, <1>5, <1>6, <1>7
  DEF Next, ReconcileNext, LoopNext, DrainNext, WatchNext, ExNext, ListMine, Reattach,
    ReconcileFail, ReconcileSkip, ReconcileKill, ReconcileRemove, Reconciled, ReconcileStatus,
    ReconcileToken, Beat, LoopEnds, Answer, BeatLost, OffersDone, Start, Token, PlaceFails,
    SupervisePlaced, Offer, DrainDeadline, Deregister, StopOne, StopReturns, StopsNext, KillLost,
    Deadline, DeadlineKill, TickStops, TickPasses, KillReturns, WatchExit, EndReport, WaitFails,
    Finish, ExecFinish, ExecStop, ExecExit, ExecDie, PodDeleted, Reap, Boot, Terminate, ApiStep,
    MonitorSettles, vars, exVars

\* Where nothing escapes, what Remove leaves is not at work.
LEMMA RemoveEnds ==
  ASSUME NothingEscapes, TypeOK, NEW p \in Placements, RemovePlacement(p)
  PROVE  ~Alive(p)'
<1>1. ~(Driver # "inprocess" /\ Lose) BY DEF NothingEscapes, Lose, TypeOK, HistType
<1>2. (IF Kept(p) THEN UNCHANGED <<ex, code, sig>> ELSE Gone(p)) BY <1>1 DEF RemovePlacement
<1> QED BY <1>2 DEF Kept, Gone, Alive, TypeOK, ExType

\* What supervision leaves is not at work.
LEMMA FinishEnds ==
  ASSUME TypeOK, NEW p \in Placements, Finish(p)
  PROVE  /\ NothingEscapes => ~Alive(p)'
         /\ p \in Watching /\ Watching' = Watching \ {p}
<1>1. ASSUME NothingEscapes PROVE ~Alive(p)'
  <2>1. RemovePlacement(p) BY DEF Finish
  <2> QED BY <1>1, <2>1, RemoveEnds
<1>2. p \in Watching /\ Watching' = Watching \ {p} BY DEF Finish, Watching, TypeOK, WatchType
<1> QED BY <1>1, <1>2

LEMMA FreshWatchesNothing ==
  ASSUME FreshProcess PROVE Watching' = {} /\ \A j \in Jobs : inflight'[j] = None
BY DEF FreshProcess, Watching

LEMMA SuperviseWatches ==
  ASSUME TypeOK, NEW p \in Placements, NEW n, Supervise(p, n)
  PROVE  Watching' = Watching \cup {p} /\ inflight' = [inflight EXCEPT ![JobOf(p)] = p]
BY DEF Supervise, Watching, TypeOK, WatchType

\* A process that is down, has gone or has only just come up watches nothing.
LEMMA QuietStays ==
  ASSUME TypeOK, [Next]_vars, main \in {"down", "list", "gone"} => Watching = {},
         main' \in {"down", "list", "gone"}
  PROVE  Watching' = {}
<1>1. CASE Boot \/ Crash BY <1>1, FreshWatchesNothing DEF Boot, Crash
<1>2. CASE Watching = {} /\ main' # "reconcile" /\ main' # "claim"
  BY <1>2, WatchMoves, FinishEnds, FreshWatchesNothing
  DEF Reattach, SupervisePlaced, NextListed, ClaimReturns
<1>3. CASE main' = main BY <1>2, <1>3
<1> QED
  BY <1>1, <1>2, <1>3
  DEF Next, ReconcileNext, LoopNext, DrainNext, WatchNext, ExNext, ListMine, Reattach,
    ReconcileFail, ReconcileSkip, ReconcileKill, ReconcileRemove, Reconciled, ReconcileStatus,
    ReconcileToken, Beat, LoopEnds, Answer, BeatLost, OffersDone, Start, Token, Place, PlaceFails,
    SupervisePlaced, Offer, DrainDeadline, Deregister, StopOne, StopReturns, StopsNext, KillLost,
    Deadline, DeadlineKill, TickStops, TickPasses, KillReturns, WatchExit, EndReport, WaitFails,
    Finish, ExecFinish, ExecStop, ExecExit, ExecDie, PodDeleted, Reap, Terminate, ApiStep,
    MonitorSettles, vars, mainVars, NextListed, ClaimReturns, recVars, restVars

-----------------------------------------------------------------------------
(* Each part of the invariant is kept. *)

LEMMA EntryNext ==
  TypeOK /\ CapacityInv /\ EntryInv /\ OneInv /\ [Next]_vars => EntryInv'
<1> SUFFICES ASSUME TypeOK, CapacityInv, EntryInv, OneInv, [Next]_vars PROVE EntryInv'
  OBVIOUS
<1>1. inflight \in [Jobs -> Placements \cup {None}] /\ \A p \in Placements : JobOf(p) \in Jobs /\ p # None
  BY LauncherAssumption DEF TypeOK, WatchType, JobOf, Placements
<1>2. ASSUME main' \in {"down", "list", "gone"} PROVE Watching' = {}
  BY <1>2, QuietStays DEF EntryInv
<1>3. CASE Watching' = Watching /\ inflight' = inflight BY <1>2, <1>3 DEF EntryInv
<1>4. CASE (Reattach \/ SupervisePlaced) /\ cur \in Placements /\ Supervise(cur, token)
  <2>1. Watching' = Watching \cup {cur} /\ inflight' = [inflight EXCEPT ![JobOf(cur)] = cur]
    BY <1>4, SuperviseWatches
  <2>2. ASSUME NEW p \in Placements, p \in Watching, JobOf(p) = JobOf(cur) PROVE p = cur
    <3>1. CASE Reattach
      BY <2>2, <3>1 DEF Reattach, OneInv, Reconciling
    <3>2. CASE SupervisePlaced
      BY <1>1, <2>2, <3>2 DEF SupervisePlaced, CapacityInv, ClaimHasRoom, InClaim, Busy, EntryInv
    <3> QED BY <1>4, <3>1, <3>2
  <2>3. \A j \in Jobs : inflight'[j] # None => JobOf(inflight'[j]) = j
    BY <1>1, <2>1 DEF EntryInv
  <2>4. \A p \in Placements : p \in Watching' <=> inflight'[JobOf(p)] = p
    BY <1>1, <2>1, <2>2 DEF EntryInv
  <2> QED BY <1>2, <2>3, <2>4 DEF EntryInv
<1>5. ASSUME NEW p \in Placements, Finish(p) PROVE EntryInv'
  <2>1. p \in Watching /\ Watching' = Watching \ {p} BY <1>5, FinishEnds
  <2>2. inflight' = [inflight EXCEPT ![JobOf(p)] = None] /\ inflight[JobOf(p)] = p
    BY <1>5, <2>1 DEF Finish, EntryInv
  <2>3. \A j \in Jobs : inflight'[j] # None => JobOf(inflight'[j]) = j
    BY <1>1, <2>2 DEF EntryInv
  <2>4. \A q \in Placements : q \in Watching' <=> inflight'[JobOf(q)] = q
    BY <1>1, <2>1, <2>2 DEF EntryInv
  <2> QED BY <1>2, <2>3, <2>4 DEF EntryInv
<1>6. CASE FreshProcess
  BY <1>1, <1>2, <1>6, FreshWatchesNothing DEF EntryInv
<1> QED BY <1>3, <1>4, <1>5, <1>6, WatchMoves

\* Nothing comes under supervision but by Reattach and SupervisePlaced.
LEMMA WatchesGrowBy ==
  ASSUME TypeOK, [Next]_vars, NEW p, p \in Watching'
  PROVE  p \in Watching \/ ((Reattach \/ SupervisePlaced) /\ p = cur)
BY WatchMoves, FinishEnds, SuperviseWatches, FreshWatchesNothing

\* Reconcile is entered from the listing, whose placements it works off one by one.
LEMMA Reconciles ==
  ASSUME [Next]_vars, Reconciling'
  PROVE  \/ ListMine /\ main = "list" /\ todo' = Listed
         \/ Reconciling /\ ~ListMine /\ todo' \subseteq todo /\ todo' \ sawEnded' \subseteq todo \ sawEnded
<1>1. CASE ListMine BY <1>1 DEF ListMine, Reconciling
<1>2. CASE ~ListMine
  <2>1. Reconciling
    <3>1. CASE main' = main BY <3>1 DEF Reconciling
    <3> QED
      BY <1>2, <3>1
      DEF Next, ReconcileNext, LoopNext, DrainNext, WatchNext, ExNext, Reattach, ReconcileFail,
        ReconcileSkip, ReconcileKill, ReconcileRemove, Reconciled, ReconcileStatus, ReconcileToken,
        Beat, LoopEnds, Answer, BeatLost, OffersDone, Start, Token, Place, PlaceFails,
        SupervisePlaced, Offer, DrainDeadline, Deregister, StopOne, StopReturns, StopsNext,
        KillLost, Deadline, DeadlineKill, TickStops, TickPasses, KillReturns, WatchExit, EndReport,
        WaitFails, Finish, ExecFinish, ExecStop, ExecExit, ExecDie, PodDeleted, Reap, Boot, Crash,
        Terminate, ApiStep, MonitorSettles, vars, Reconciling, mainVars, ClaimReturns
  <2>2. todo' \subseteq todo /\ todo' \ sawEnded' \subseteq todo \ sawEnded
    BY <1>2, <2>1
    DEF Next, ReconcileNext, LoopNext, DrainNext, WatchNext, ExNext, Reattach, ReconcileFail,
      ReconcileSkip, ReconcileKill, ReconcileRemove, Reconciled, ReconcileStatus, ReconcileToken,
      Beat, LoopEnds, Answer, BeatLost, OffersDone, Start, Token, Place, PlaceFails,
      SupervisePlaced, Offer, DrainDeadline, Deregister, StopOne, StopReturns, StopsNext, KillLost,
      Deadline, DeadlineKill, TickStops, TickPasses, KillReturns, WatchExit, EndReport, WaitFails,
      Finish, ExecFinish, ExecStop, ExecExit, ExecDie, PodDeleted, Reap, Boot, Crash, Terminate,
      ApiStep, MonitorSettles, vars, Reconciling, mainVars, NextListed, restVars, FreshProcess,
      recVars
  <2> QED BY <1>2, <2>1, <2>2
<1> QED BY <1>1, <1>2

\* What reconcile looks at is on its list.
LEMMA CurIsListed ==
  ASSUME [Next]_vars, main \in {"mint", "decide", "stop", "remove"} => cur \in todo,
         main' \in {"mint", "decide", "stop", "remove"}
  PROVE  cur' \in todo'
<1>1. CASE main \in {"mint", "decide", "stop", "remove"} /\ UNCHANGED <<cur, todo>> BY <1>1
<1>2. ASSUME NEW p \in Placements, ReconcileStatus(p) PROVE cur' \in todo'
  BY <1>2 DEF ReconcileStatus
<1> QED
  BY <1>1, <1>2
  DEF Next, ReconcileNext, LoopNext, DrainNext, WatchNext, ExNext, ListMine, Reattach,
    ReconcileFail, ReconcileSkip, ReconcileKill, ReconcileRemove, Reconciled, ReconcileToken, Beat,
    LoopEnds, Answer, BeatLost, OffersDone, Start, Token, Place, PlaceFails, SupervisePlaced, Offer,
    DrainDeadline, Deregister, StopOne, StopReturns, StopsNext, KillLost, Deadline, DeadlineKill,
    TickStops, TickPasses, KillReturns, WatchExit, EndReport, WaitFails, Finish, ExecFinish,
    ExecStop, ExecExit, ExecDie, PodDeleted, Reap, Boot, Crash, Terminate, ApiStep, MonitorSettles,
    vars, mainVars, NextListed, restVars, FreshProcess, recVars, ClaimReturns

LEMMA OneNext ==
  TypeOK /\ CapacityInv /\ EntryInv /\ OneInv /\ HeldInv /\ [Next]_vars => OneInv'
<1> SUFFICES ASSUME TypeOK, CapacityInv, EntryInv, OneInv, HeldInv, [Next]_vars PROVE OneInv'
  OBVIOUS
<1>1. ASSUME NEW p \in Placements, NEW q \in Placements, Alive(p)', Alive(q)', JobOf(p) = JobOf(q)
      PROVE  p = q
  <2>1. CASE Alive(p) /\ Alive(q) BY <1>1, <2>1 DEF OneInv
  <2>2. ASSUME Place, NEW h \in Placements, Alive(h) PROVE JobOf(h) # JobOf(cur)
    <3>1. h \in Watching BY <2>2 DEF Place, HeldInv, Held, Placing
    <3>2. JobOf(h) \in Busy
      BY <3>1, LauncherAssumption DEF EntryInv, Busy, JobOf, Placements
    <3> QED BY <2>2, <3>2 DEF Place, CapacityInv, ClaimHasRoom, InClaim
  <2> QED BY <1>1, <2>1, <2>2, AliveComes
<1>2. ASSUME Reconciling', NEW p, NEW q, p \in Watching' \cup (todo' \ sawEnded'),
             q \in Watching' \cup (todo' \ sawEnded'), JobOf(p) = JobOf(q)
      PROVE  p = q
  <2>1. CASE ListMine /\ main = "list" /\ todo' = Listed
    <3>1. sawEnded' = {r \in Placements : ex[r] = "exited"}
      BY <1>2, <2>1 DEF ListMine, Reconciling
    <3>2. Watching' = {}
      BY <2>1 DEF ListMine, EntryInv, watchVars, Watching
    <3>3. \A r \in todo' \ sawEnded' : r \in Placements /\ Alive(r)
      BY <2>1, <3>1 DEF Listed, Alive, TypeOK, ExType, ExStates
    <3> QED BY <1>2, <3>2, <3>3 DEF OneInv
  <2>2. CASE Reconciling /\ ~ListMine /\ todo' \ sawEnded' \subseteq todo \ sawEnded
    <3>1. Watching' \subseteq Watching \cup (todo \ sawEnded)
      BY <2>2, WatchesGrowBy DEF OneInv, Reattach, SupervisePlaced, Reconciling
    <3> QED BY <1>2, <2>2, <3>1 DEF OneInv
  <2> QED BY <1>2, <2>1, <2>2, Reconciles
<1>3. ASSUME main' \in {"mint", "decide", "stop", "remove"} PROVE cur' \in todo'
  BY <1>3, CurIsListed DEF OneInv
<1> QED BY <1>1, <1>2, <1>3 DEF OneInv

\* An executor that is still at work stays held, or was one's own to place.
LEMMA HeldStays ==
  ASSUME NothingEscapes, TypeOK, [Next]_vars, ~(Boot \/ Crash), NEW p \in Placements, Alive(p)',
         Held(p)
  PROVE  Held(p)'
<1>1. CASE p \in Watching
  BY <1>1, WatchMoves, SuperviseWatches, FinishEnds DEF Held
<1>2. CASE main = "supervise" /\ cur = p
  <2>1. CASE SupervisePlaced
    BY <1>2, <2>1, SuperviseWatches DEF SupervisePlaced, Held
  <2>2. CASE main' = main /\ cur' = cur BY <1>2, <2>2 DEF Held
  <2> QED
    BY <1>2, <2>1, <2>2
    DEF Next, ReconcileNext, LoopNext, DrainNext, WatchNext, ExNext, ListMine, Reattach,
      ReconcileFail, ReconcileSkip, ReconcileKill, ReconcileRemove, Reconciled, ReconcileStatus,
      ReconcileToken, Beat, LoopEnds, Answer, BeatLost, OffersDone, Start, Token, Place, PlaceFails,
      Offer, DrainDeadline, Deregister, StopOne, StopReturns, StopsNext, KillLost, Deadline,
      DeadlineKill, TickStops, TickPasses, KillReturns, WatchExit, EndReport, WaitFails, Finish,
      ExecFinish, ExecStop, ExecExit, ExecDie, PodDeleted, Reap, Terminate, ApiStep, MonitorSettles,
      vars, mainVars, restVars, recVars
<1> QED BY <1>1, <1>2 DEF Held

\* A process that starts or dies holds nothing: no executor of it is at work, or it can list them.
LEMMA HeldAtStart ==
  ASSUME NothingEscapes, TypeOK, EntryInv, HeldInv, Boot \/ Crash
  PROVE  HeldInv'
<1>1. CASE Driver = "inprocess"
  <2>1. ASSUME NEW p \in Placements, Alive(p)' PROVE FALSE
    <3>1. CASE Boot
      <4>1. Alive(p) /\ main \in {"down", "gone"} BY <2>1, <3>1 DEF Boot, Alive
      <4>2. Watching = {} BY <4>1 DEF EntryInv
      <4> QED BY <1>1, <4>1, <4>2 DEF HeldInv, Held
    <3>2. CASE Crash BY <1>1, <2>1, <3>2 DEF Crash, Alive, Reattaches
    <3> QED BY <3>1, <3>2
  <2>2. main' \in {"down", "beat"} BY <1>1 DEF Boot, Crash, Reattaches
  <2> QED BY <2>1, <2>2 DEF HeldInv, Reconciling
<1>2. CASE Driver = "container"
  <2>1. main' \in {"down", "list"} BY <1>2 DEF Boot, Crash, Reattaches
  <2> QED BY <1>2, <2>1 DEF HeldInv, Reconciling, Beating, Placing
<1> QED BY <1>1, <1>2 DEF NothingEscapes

\* How the main goroutine gets to its loop without having been told to stop.
LEMMA BeatsAfter ==
  ASSUME NothingEscapes, TypeOK, HeldInv, [Next]_vars, ~(Boot \/ Crash),
         (Beating' /\ ~term') \/ Placing'
  PROVE  (Beating /\ ~term) \/ Placing \/ (Reconciling /\ ~term /\ todo = {})
<1>1. ASSUME ListMine PROVE FALSE
  <2>1. term' = term /\ main = "list" /\ main' \in {"reconcile", "beat"} BY <1>1 DEF ListMine, restVars
  <2>2. Driver = "container" /\ MaxLosses = 0 BY <2>1 DEF HeldInv, NothingEscapes
  <2>3. ~(losses < MaxLosses) BY <2>2 DEF TypeOK, HistType
  <2>4. main' = "beat" => term BY <1>1, <2>3 DEF ListMine
  <2> QED BY <2>1, <2>4 DEF Beating, Placing
<1>2. term => term'
  BY
  DEF Next, ReconcileNext, LoopNext, DrainNext, WatchNext, ExNext, ListMine, Reattach,
    ReconcileFail, ReconcileSkip, ReconcileKill, ReconcileRemove, Reconciled, ReconcileStatus,
    ReconcileToken, Beat, LoopEnds, Answer, BeatLost, OffersDone, Start, Token, Place, PlaceFails,
    SupervisePlaced, Offer, DrainDeadline, Deregister, StopOne, StopReturns, StopsNext, KillLost,
    Deadline, DeadlineKill, TickStops, TickPasses, KillReturns, WatchExit, EndReport, WaitFails,
    Finish, ExecFinish, ExecStop, ExecExit, ExecDie, PodDeleted, Reap, Boot, Crash, Terminate,
    ApiStep, MonitorSettles, vars, mainVars, restVars, recVars
<1>3. ASSUME Placing' PROVE Placing \/ (Start /\ Beating /\ ~term)
  <2>1. CASE main' = main BY <1>3, <2>1 DEF Placing
  <2>2. CASE Start BY <1>3, <2>2 DEF Start, Placing, Beating, ClaimReturns
  <2> QED
    BY <1>3, <2>1, <2>2
    DEF Next, ReconcileNext, LoopNext, DrainNext, WatchNext, ExNext, ListMine, Reattach,
      ReconcileFail, ReconcileSkip, ReconcileKill, ReconcileRemove, Reconciled, ReconcileStatus,
      ReconcileToken, Beat, LoopEnds, Answer, BeatLost, OffersDone, Token, Place, PlaceFails,
      SupervisePlaced, Offer, DrainDeadline, Deregister, StopOne, StopReturns, StopsNext, KillLost,
      Deadline, DeadlineKill, TickStops, TickPasses, KillReturns, WatchExit, EndReport, WaitFails,
      Finish, ExecFinish, ExecStop, ExecExit, ExecDie, PodDeleted, Reap, Boot, Crash, Terminate,
      ApiStep, MonitorSettles, vars, mainVars, NextListed, ClaimReturns, Placing
<1>4. ASSUME Beating' PROVE Beating \/ Placing \/ (Reconciling /\ todo = {})
  <2>1. CASE main' = main BY <1>4, <2>1 DEF Beating
  <2> QED
    BY <1>1, <1>4, <2>1
    DEF Next, ReconcileNext, LoopNext, DrainNext, WatchNext, ExNext, Reattach, ReconcileFail,
      ReconcileSkip, ReconcileKill, ReconcileRemove, Reconciled, ReconcileStatus, ReconcileToken,
      Beat, LoopEnds, Answer, BeatLost, OffersDone, Start, Token, Place, PlaceFails,
      SupervisePlaced, Offer, DrainDeadline, Deregister, StopOne, StopReturns, StopsNext, KillLost,
      Deadline, DeadlineKill, TickStops, TickPasses, KillReturns, WatchExit, EndReport, WaitFails,
      Finish, ExecFinish, ExecStop, ExecExit, ExecDie, PodDeleted, Reap, Boot, Crash, Terminate,
      ApiStep, MonitorSettles, vars, mainVars, NextListed, ClaimReturns, Beating, Placing,
      Reconciling
<1> QED BY <1>2, <1>3, <1>4

LEMMA HeldNext ==
  ASSUME NothingEscapes, TypeOK, EntryInv, HeldInv, [Next]_vars
  PROVE  HeldInv'
<1>1. CASE Boot \/ Crash BY <1>1, HeldAtStart
<1>2. CASE ~(Boot \/ Crash)
  <2>1. ASSUME Reconciling', ~term', NEW p \in Placements, Alive(p)' PROVE p \in todo' \/ Held(p)'
    <3>1. Alive(p)
      BY <2>1, AliveComes DEF Place, Reconciling
    <3>2. CASE ListMine
      BY <2>1, <3>1, <3>2 DEF ListMine, Reconciling, Listed, Alive
    <3>3. CASE Reconciling /\ ~term /\ ~ListMine
      <4>1. p \in todo \/ Held(p) BY <3>1, <3>3 DEF HeldInv
      <4>2. CASE Held(p) BY <1>2, <2>1, <4>2, HeldStays
      <4>3. CASE p \in todo /\ todo' = todo BY <4>3
      <4>4. CASE Reattach /\ p \in todo
        BY <4>4, SuperviseWatches DEF Reattach, NextListed, Held, TypeOK, MainType
      <4>5. CASE ReconcileRemove /\ p \in todo
        <5>1. Driver = "container" BY <3>3 DEF HeldInv, NothingEscapes
        <5>2. PICK q \in Placements : q = cur BY <4>5 DEF ReconcileRemove, TypeOK, MainType
        <5>3. RemovePlacement(q) BY <3>3, <4>5, <5>1, <5>2 DEF ReconcileRemove
        <5>4. ~Alive(q)' BY <5>3, RemoveEnds
        <5> QED BY <2>1, <4>5, <5>2, <5>4 DEF ReconcileRemove, NextListed
      <4> QED
        BY <1>2, <3>3, <4>1, <4>2, <4>3, <4>4, <4>5
        DEF Next, ReconcileNext, LoopNext, DrainNext, WatchNext, ExNext, ReconcileFail,
          ReconcileSkip, ReconcileKill, Reconciled, ReconcileStatus, ReconcileToken, Beat, LoopEnds,
          Answer, BeatLost, OffersDone, Start, Token, Place, PlaceFails, SupervisePlaced, Offer,
          DrainDeadline, Deregister, StopOne, StopReturns, StopsNext, KillLost, Deadline,
          DeadlineKill, TickStops, TickPasses, KillReturns, WatchExit, EndReport, WaitFails, Finish,
          ExecFinish, ExecStop, ExecExit, ExecDie, PodDeleted, Reap, Terminate, ApiStep,
          MonitorSettles, vars, mainVars, restVars, recVars
    <3>4. ListMine \/ (Reconciling /\ ~term)
      <4>1. ListMine \/ Reconciling
        <5>1. CASE main' = main BY <2>1, <5>1 DEF Reconciling
        <5> QED
          BY <1>2, <2>1, <5>1
          DEF Next, ReconcileNext, LoopNext, DrainNext, WatchNext, ExNext, Reattach, ReconcileFail,
            ReconcileSkip, ReconcileKill, ReconcileRemove, Reconciled, ReconcileStatus,
            ReconcileToken, Beat, LoopEnds, Answer, BeatLost, OffersDone, Start, Token, Place,
            PlaceFails, SupervisePlaced, Offer, DrainDeadline, Deregister, StopOne, StopReturns,
            StopsNext, KillLost, Deadline, DeadlineKill, TickStops, TickPasses, KillReturns,
            WatchExit, EndReport, WaitFails, Finish, ExecFinish, ExecStop, ExecExit, ExecDie,
            PodDeleted, Reap, Terminate, ApiStep, MonitorSettles, vars, Reconciling, mainVars,
            ClaimReturns
      <4>2. ~term
        BY <1>2, <2>1
        DEF Next, ReconcileNext, LoopNext, DrainNext, WatchNext, ExNext, ListMine, Reattach,
          ReconcileFail, ReconcileSkip, ReconcileKill, ReconcileRemove, Reconciled, ReconcileStatus,
          ReconcileToken, Beat, LoopEnds, Answer, BeatLost, OffersDone, Start, Token, Place,
          PlaceFails, SupervisePlaced, Offer, DrainDeadline, Deregister, StopOne, StopReturns,
          StopsNext, KillLost, Deadline, DeadlineKill, TickStops, TickPasses, KillReturns,
          WatchExit, EndReport, WaitFails, Finish, ExecFinish, ExecStop, ExecExit, ExecDie,
          PodDeleted, Reap, Terminate, ApiStep, MonitorSettles, vars, mainVars, restVars, recVars
      <4> QED BY <4>1, <4>2
    <3> QED BY <3>2, <3>3, <3>4
  <2>2. ASSUME (Beating' /\ ~term') \/ Placing', NEW p \in Placements, Alive(p)' PROVE Held(p)'
    <3>1. CASE Alive(p)
      <4>1. Held(p)
        BY <1>2, <2>2, <3>1, BeatsAfter DEF HeldInv, Reconciling
      <4> QED BY <1>2, <2>2, <4>1, HeldStays
    <3>2. CASE Place /\ p = cur BY <3>2 DEF Place, Held
    <3> QED BY <2>2, <3>1, <3>2, AliveComes
  <2>3. ASSUME Driver = "inprocess"
        PROVE  /\ ~Reconciling' /\ main' # "list"
               /\ \A p \in Placements : Alive(p)' => main' # "down" /\ Held(p)'
    <3>1. ~Reconciling /\ main # "list" BY <2>3 DEF HeldInv
    <3>2. ~Reconciling' /\ main' # "list"
      <4>1. CASE main' = main BY <3>1, <4>1 DEF Reconciling
      <4> QED
        BY <1>2, <3>1, <4>1
        DEF Next, ReconcileNext, LoopNext, DrainNext, WatchNext, ExNext, ListMine, Reattach,
          ReconcileFail, ReconcileSkip, ReconcileKill, ReconcileRemove, Reconciled, ReconcileStatus,
          ReconcileToken, Beat, LoopEnds, Answer, BeatLost, OffersDone, Start, Token, Place,
          PlaceFails, SupervisePlaced, Offer, DrainDeadline, Deregister, StopOne, StopReturns,
          StopsNext, KillLost, Deadline, DeadlineKill, TickStops, TickPasses, KillReturns,
          WatchExit, EndReport, WaitFails, Finish, ExecFinish, ExecStop, ExecExit, ExecDie,
          PodDeleted, Reap, Terminate, ApiStep, MonitorSettles, vars, Reconciling, mainVars,
          ClaimReturns
    <3>3. ASSUME NEW p \in Placements, Alive(p)' PROVE main' # "down" /\ Held(p)'
      <4>1. CASE Alive(p)
        <5>1. main # "down" /\ Held(p) BY <2>3, <4>1 DEF HeldInv
        <5>2. main' # "down"
          <6>1. CASE main' = main BY <5>1, <6>1
          <6> QED
            BY <1>2, <5>1, <6>1
            DEF Next, ReconcileNext, LoopNext, DrainNext, WatchNext, ExNext, ListMine, Reattach,
              ReconcileFail, ReconcileSkip, ReconcileKill, ReconcileRemove, Reconciled,
              ReconcileStatus, ReconcileToken, Beat, LoopEnds, Answer, BeatLost, OffersDone, Start,
              Token, Place, PlaceFails, SupervisePlaced, Offer, DrainDeadline, Deregister, StopOne,
              StopReturns, StopsNext, KillLost, Deadline, DeadlineKill, TickStops, TickPasses,
              KillReturns, WatchExit, EndReport, WaitFails, Finish, ExecFinish, ExecStop, ExecExit,
              ExecDie, PodDeleted, Reap, Terminate, ApiStep, MonitorSettles, vars, mainVars,
              ClaimReturns, NextListed
        <5> QED BY <1>2, <3>3, <5>1, <5>2, HeldStays
      <4>2. CASE Place /\ p = cur BY <4>2 DEF Place, Held
      <4> QED BY <3>3, <4>1, <4>2, AliveComes
    <3> QED BY <3>2, <3>3
  <2> QED BY <2>1, <2>2, <2>3 DEF HeldInv
<1> QED BY <1>1, <1>2

LEMMA SlotInit == Init => SlotInv
<1> SUFFICES ASSUME Init PROVE SlotInv
  OBVIOUS
<1>1. EntryInv
  BY LauncherAssumption DEF Init, EntryInv, Watching, JobOf, Placements
<1>2. OneInv BY DEF Init, OneInv, Alive, Reconciling
<1>3. HeldInv BY DEF Init, HeldInv, Alive, Reconciling, Beating, Placing
<1> QED BY <1>1, <1>2, <1>3 DEF SlotInv

\* Where nothing escapes a launcher, what is at work is what it supervises, over every life.
THEOREM SlotCorrect ==
  ASSUME NothingEscapes PROVE Spec => []SlotInv
<1>1. Init => CapacityInv /\ SlotInv
  BY SlotInit DEF Init, CapacityInv, RoomIsReal, ClaimHasRoom, InClaim
<1>2. TypeOK /\ CapacityInv /\ SlotInv /\ [Next]_vars => CapacityInv' /\ SlotInv'
  BY CapacityNext, EntryNext, OneNext, HeldNext DEF SlotInv
<1>3. CapacityInv /\ SlotInv => SlotInv OBVIOUS
<1> QED BY <1>1, <1>2, <1>3, TypeCorrect, PTL DEF Spec

\* The executors at work.
AtWork == {p \in Placements : Alive(p)}

LEMMA AtWorkFinite == IsFiniteSet(Placements) /\ IsFiniteSet(AtWork) /\ Cardinality(AtWork) \in Nat
<1>1. IsFiniteSet(Attempts) BY LauncherAssumption, FS_Interval DEF Attempts
<1>2. IsFiniteSet(Placements) BY <1>1, LauncherAssumption, FS_Product DEF Placements
<1>3. AtWork \subseteq Placements BY DEF AtWork
<1> QED BY <1>2, <1>3, FS_Subset, FS_CardinalityType

\* While a claim places, every other executor at work has its own entry in flight.
LEMMA AtWorkIsBusy ==
  ASSUME TypeOK, SlotInv, main = "place"
  PROVE  Cardinality(AtWork) <= Cardinality(Busy)
<1>1. \A p \in AtWork : p \in Placements /\ p \in Watching
  BY DEF AtWork, SlotInv, HeldInv, Placing, Held
<1>2. \A p \in AtWork : JobOf(p) \in Busy
  BY <1>1, LauncherAssumption DEF SlotInv, EntryInv, Busy, JobOf, Placements
<1>3. \A p, q \in AtWork : JobOf(p) = JobOf(q) => p = q
  BY <1>1 DEF SlotInv, EntryInv
<1> DEFINE f == [p \in AtWork |-> JobOf(p)]
<1>4. f \in Injection(AtWork, Busy)
  BY <1>2, <1>3 DEF Injection, IsInjective
<1> QED BY <1>4, BusyFinite, FS_Injection

\* Where nothing escapes a launcher: however often it restarts, no more executors than
\* Config.Capacity run at once.  A restart finds what the last life left before it claims, and
\* reconcile waits for what it stops (reconcile, Run, claim).
THEOREM ExecutorsCorrect ==
  ASSUME NothingEscapes PROVE Spec => []ExecutorsWithinCapacity
<1>1. Init => ExecutorsWithinCapacity
  <2> SUFFICES ASSUME Init PROVE ExecutorsWithinCapacity
    OBVIOUS
  <2>1. AtWork = {} BY DEF Init, AtWork, Alive
  <2> QED BY <2>1, FS_EmptySet, LauncherAssumption DEF ExecutorsWithinCapacity, AtWork
<1>2. TypeOK /\ CapacityInv /\ PlacesWithinCapacity /\ SlotInv /\ ExecutorsWithinCapacity /\ [Next]_vars
        => ExecutorsWithinCapacity'
  <2> SUFFICES ASSUME TypeOK, PlacesWithinCapacity, SlotInv, ExecutorsWithinCapacity, [Next]_vars
               PROVE  Cardinality(AtWork') <= Capacity
    BY DEF ExecutorsWithinCapacity, AtWork
  <2>1. Cardinality(AtWork) <= Capacity BY DEF ExecutorsWithinCapacity, AtWork
  <2>2. Cardinality(AtWork') \in Nat /\ IsFiniteSet(AtWork')
    <3>1. AtWork' \subseteq Placements BY DEF AtWork
    <3> QED BY <3>1, AtWorkFinite, FS_Subset, FS_CardinalityType
  <2>3. CASE AtWork' \subseteq AtWork
    <3>1. Cardinality(AtWork') <= Cardinality(AtWork) BY <2>3, AtWorkFinite, FS_Subset
    <3> QED BY <2>1, <2>2, <3>1, AtWorkFinite, LauncherAssumption
  <2>4. CASE Place /\ AtWork' \subseteq AtWork \cup {cur}
    <3>1. Cardinality(AtWork) <= Cardinality(Busy) BY <2>4, AtWorkIsBusy DEF Place
    <3>2. Cardinality(Busy) < Capacity BY <2>4 DEF Place, PlacesWithinCapacity, InClaim
    <3>3. IsFiniteSet(AtWork \cup {cur}) /\ Cardinality(AtWork \cup {cur}) <= Cardinality(AtWork) + 1
      <4>1. IsFiniteSet(AtWork \cup {cur}) BY AtWorkFinite, FS_AddElement
      <4>2. Cardinality(AtWork \cup {cur}) = IF cur \in AtWork THEN Cardinality(AtWork) ELSE Cardinality(AtWork) + 1
        BY AtWorkFinite, FS_AddElement
      <4> QED BY <4>1, <4>2, AtWorkFinite
    <3>4. Cardinality(AtWork') <= Cardinality(AtWork \cup {cur}) BY <2>4, <3>3, FS_Subset
    <3>5. Cardinality(AtWork \cup {cur}) \in Nat BY <3>3, FS_CardinalityType
    <3> QED BY <2>2, <3>1, <3>2, <3>3, <3>4, <3>5, AtWorkFinite, BusyFinite, LauncherAssumption
  <2> QED BY <2>3, <2>4, AliveComes DEF AtWork
<1>3. Init => CapacityInv
  BY DEF Init, CapacityInv, RoomIsReal, ClaimHasRoom, InClaim
<1>4. TypeOK /\ CapacityInv /\ [Next]_vars => CapacityInv' BY CapacityNext
<1> QED BY <1>1, <1>2, <1>3, <1>4, TypeCorrect, PlacementCorrect, SlotCorrect, PTL DEF Spec

-----------------------------------------------------------------------------
(* Every job that is running here is watched here. *)

\* Where the launcher has an attempt of its own, and would find it again.
FoundAt(p) ==
  \/ main \in {"token", "place"} /\ cur = p
  \/ /\ ex[p] \notin {"none", "removed"}
     /\ \/ main = "supervise" /\ cur = p
        \/ p \in Watching
        \/ main \in {"down", "list", "gone"}
        \/ Reconciling /\ p \in todo

RunsHere(p) == ~Over(p) /\ JobsOf(p).mine

\* What runs here is found, unless a call about it was lost.
FoundInv == \A p \in Placements \ lost : RunsHere(p) => FoundAt(p)

\* An attempt is running here from its claim on.
LEMMA RunsFrom ==
  ASSUME TypeOK, OursInv, [Next]_vars, NEW p \in Placements, p \notin lost', RunsHere(p)'
  PROVE  RunsHere(p) \/ (Start /\ main' = "token" /\ cur' = p)
<1>1. JobOf(p) \in Jobs /\ AttemptOf(p) \in Int BY DEF JobOf, AttemptOf, Placements, Attempts
<1>2. api'[JobOf(p)].status = "running" /\ api'[JobOf(p)].attempt = AttemptOf(p) /\ api'[JobOf(p)].mine
  BY DEF RunsHere, Over, JobsOf
<1>3. ASSUME NEW h \in Jobs, NEW n, NEW o \in {"completed", "failed", "canceled"}, NEW w,
             Settle(h, n, o, w)
      PROVE  RunsHere(p)
  BY <1>1, <1>2, <1>3 DEF Settle, RunsHere, Over, JobsOf, TypeOK, ApiType
<1>4. ASSUME NEW h \in Jobs, ApiStep(h) PROVE RunsHere(p)
  BY <1>1, <1>2, <1>4 DEF ApiStep, RunsHere, Over, JobsOf, TypeOK, ApiType, OursInv
<1>5. ASSUME NEW h \in Jobs, MonitorSettles(h) PROVE RunsHere(p)
  BY <1>1, <1>2, <1>5 DEF MonitorSettles, RunsHere, Over, JobsOf, TypeOK, ApiType
<1>6. ASSUME UNCHANGED api PROVE RunsHere(p) BY <1>2, <1>6 DEF RunsHere, Over, JobsOf
<1>7. CASE Start
  <2>1. JobOf(cur) \in Jobs BY <1>7 DEF Start, TypeOK, MainType, Placements, JobOf
  <2>2. CASE api' = [api EXCEPT ![JobOf(cur)].status = "running", ![JobOf(cur)].mine = TRUE]
    <3>1. CASE JobOf(p) = JobOf(cur)
      <4>1. api'[JobOf(p)].attempt = api[JobOf(cur)].attempt
        BY <2>1, <2>2, <3>1 DEF TypeOK, ApiType
      <4>2. p = <<JobOf(cur), api[JobOf(cur)].attempt>>
        BY <1>2, <3>1, <4>1 DEF JobOf, AttemptOf, Placements
      <4>3. CASE cur' = <<JobOf(cur), api[JobOf(cur)].attempt>> /\ main' = "token"
        BY <1>7, <4>2, <4>3
      <4>4. CASE lost' = lost \cup {<<JobOf(cur), api[JobOf(cur)].attempt>>} BY <4>2, <4>4
      <4> QED BY <1>6, <1>7, <4>3, <4>4 DEF Start
    <3>2. CASE JobOf(p) # JobOf(cur)
      BY <1>1, <1>2, <2>1, <2>2, <3>2 DEF RunsHere, Over, JobsOf, TypeOK, ApiType
    <3> QED BY <3>1, <3>2
  <2> QED BY <1>6, <1>7, <2>2 DEF Start
<1>8. \A q \in Placements : JobOf(q) \in Jobs BY DEF JobOf, Placements
<1>9. main \in {"decide", "place"} => cur \in Placements BY DEF TypeOK, MainType
<1>10. ASSUME NEW q \in Placements, NEW n, FailWith(q, n) \/ FailWithRunCtx(q, n) PROVE RunsHere(p)
  BY <1>3, <1>6, <1>8, <1>10 DEF FailWith, FailWithRunCtx
<1> QED
  BY <1>3, <1>4, <1>5, <1>6, <1>7, <1>8, <1>9, <1>10
  DEF Next, ReconcileNext, LoopNext, DrainNext, WatchNext, ExNext, ListMine, Reattach,
    ReconcileFail, ReconcileSkip, ReconcileKill, ReconcileRemove, Reconciled, ReconcileStatus,
    ReconcileToken, Beat, LoopEnds, Answer, BeatLost, OffersDone, Token, Place, PlaceFails,
    SupervisePlaced, Offer, DrainDeadline, Deregister, StopOne, StopReturns, StopsNext, KillLost,
    Deadline, DeadlineKill, TickStops, TickPasses, KillReturns, WatchExit, EndReport, WaitFails,
    Finish, ExecFinish, ExecStop, ExecExit, ExecDie, PodDeleted, Reap, Boot, Crash, Terminate, vars,
    apiVars

\* What runs here and is found with an executor is not taken from it.
LEMMA FoundKeepsExecutor ==
  ASSUME Driver = "container", KeepFailed, TypeOK, ReportInv, EndInv, [Next]_vars,
         NEW p \in Placements, p \notin lost', RunsHere(p), FoundAt(p), ex[p] \notin {"none", "removed"}
  PROVE  ex'[p] \notin {"none", "removed"}
<1>1. p \notin lost BY HistoryGrows
<1>2. ASSUME Finish(p) PROVE FALSE BY <1>1, <1>2 DEF Finish, EndInv, RunsHere
<1>3. ASSUME ReconcileRemove, cur = p PROVE FALSE
  BY <1>1, <1>3 DEF ReconcileRemove, ReportInv, StopInv, RunsHere
<1>4. ASSUME Reap(p) PROVE FALSE
  <2>1. /\ main \notin {"down", "gone", "list", "reconcile", "mint", "decide", "stop", "remove"}
        /\ watch[p] \in {"idle", "done"} /\ p # cur
    BY <1>4 DEF Reap
  <2> QED BY <2>1 DEF FoundAt, Reconciling, Watching
<1>5. ASSUME PodDeleted(p) PROVE FALSE BY <1>5 DEF PodDeleted
<1>6. ASSUME NEW q \in Placements, q # p, Gone(q) \/ RemovePlacement(q) PROVE ex'[p] = ex[p]
  BY <1>6 DEF Gone, RemovePlacement, TypeOK, ExType
<1>7. ASSUME NEW q \in Placements, NEW x, x \notin {"none", "removed"}, ex' = [ex EXCEPT ![q] = x]
      PROVE  ex'[p] \notin {"none", "removed"}
  BY <1>7 DEF TypeOK, ExType
<1>8. CASE ex' = ex BY <1>8
<1>9. CASE Crash BY <1>9 DEF Crash, Reattaches
<1>10. main \in {"place", "remove"} => cur \in Placements BY DEF TypeOK, MainType
<1>11. ASSUME NEW q \in Placements, Finish(q) \/ Reap(q) \/ PodDeleted(q)
       PROVE  q # p /\ (Gone(q) \/ RemovePlacement(q))
  BY <1>2, <1>4, <1>5, <1>11 DEF Finish, Reap, PodDeleted
<1>12. CASE ReconcileRemove
  <2>1. cur # p /\ cur \in Placements BY <1>3, <1>10, <1>12 DEF ReconcileRemove
  <2>2. RemovePlacement(cur) \/ ex' = ex BY <1>12 DEF ReconcileRemove
  <2> QED BY <1>6, <1>8, <2>1, <2>2
<1> QED
  BY <1>6, <1>7, <1>8, <1>9, <1>10, <1>11, <1>12
  DEF Next, ReconcileNext, LoopNext, DrainNext, WatchNext, ExNext, ListMine, Reattach,
    ReconcileFail, ReconcileSkip, ReconcileKill, Reconciled, ReconcileStatus, ReconcileToken, Beat,
    LoopEnds, Answer, BeatLost, OffersDone, Start, Token, Place, PlaceFails, SupervisePlaced, Offer,
    DrainDeadline, Deregister, StopOne, StopReturns, StopsNext, KillLost, Deadline, DeadlineKill,
    TickStops, TickPasses, KillReturns, WatchExit, EndReport, WaitFails, ExecFinish, ExecStop,
    ExecExit, ExecDie, Boot, Terminate, ApiStep, MonitorSettles, vars, exVars

\* A claim in progress goes on to its placement, or gives up and is lost.
LEMMA ClaimGoesOn ==
  ASSUME Driver = "container", TypeOK, ReportInv, [Next]_vars, NEW p \in Placements, p \notin lost',
         ~Over(p)', main \in {"token", "place"}, cur = p
  PROVE  FoundAt(p)'
<1>1. CASE main' = main /\ cur' = cur BY <1>1 DEF FoundAt
<1>2. CASE Token BY <1>2 DEF Token, FoundAt
<1>3. CASE Place BY <1>3 DEF Place, FoundAt, TypeOK, ExType
<1>4. ASSUME PlaceFails PROVE FALSE
  <2>1. FailWithRunCtx(p, token) BY <1>4 DEF PlaceFails
  <2>2. Ours(p) BY DEF Ours
  <2>3. token \in Int /\ (token # 0 => AttemptOf(p) <= token /\ token <= JobsOf(p).attempt)
    BY LauncherAssumption DEF ReportInv, TokenInv, TypeOK, MainType
  <2> QED BY <2>1, <2>2, <2>3, FailedIsOver DEF ReportInv
<1>5. ASSUME Crash PROVE FALSE BY <1>5 DEF Crash
<1> QED
  BY <1>1, <1>2, <1>3, <1>4, <1>5
  DEF Next, ReconcileNext, LoopNext, DrainNext, WatchNext, ExNext, ListMine, Reattach,
    ReconcileFail, ReconcileSkip, ReconcileKill, ReconcileRemove, Reconciled, ReconcileStatus,
    ReconcileToken, Beat, LoopEnds, Answer, BeatLost, OffersDone, Start, SupervisePlaced, Offer,
    DrainDeadline, Deregister, StopOne, StopReturns, StopsNext, KillLost, Deadline, DeadlineKill,
    TickStops, TickPasses, KillReturns, WatchExit, EndReport, WaitFails, Finish, ExecFinish,
    ExecStop, ExecExit, ExecDie, PodDeleted, Reap, Boot, Terminate, ApiStep, MonitorSettles, vars,
    mainVars, restVars, recVars

\* An executor of this launcher stays where it is found: supervised, listed, or to be listed.
LEMMA FoundStays ==
  ASSUME Driver = "container", TypeOK, ReportInv, EndInv, [Next]_vars,
         NEW p \in Placements, p \notin lost', RunsHere(p),
         ex[p] \notin {"none", "removed"}, ex'[p] \notin {"none", "removed"},
         \/ main = "supervise" /\ cur = p
         \/ p \in Watching
         \/ main \in {"down", "list", "gone"}
         \/ Reconciling /\ p \in todo
  PROVE  FoundAt(p)'
<1>1. p \notin lost BY HistoryGrows
<1>2. CASE Boot \/ Crash BY <1>2 DEF Boot, Crash, Reattaches, FoundAt
<1>3. CASE ~(Boot \/ Crash) /\ Held(p)
  <2>1. CASE p \in Watching
    <3>1. ASSUME Finish(p) PROVE FALSE BY <1>1, <3>1 DEF Finish, EndInv, RunsHere
    <3>2. p \in Watching'
      BY <1>3, <2>1, <3>1, WatchMoves, SuperviseWatches, FinishEnds
    <3> QED BY <3>2 DEF FoundAt
  <2>2. CASE main = "supervise" /\ cur = p
    <3>1. CASE SupervisePlaced
      BY <2>2, <3>1, SuperviseWatches DEF SupervisePlaced, FoundAt
    <3>2. CASE main' = main /\ cur' = cur BY <2>2, <3>2 DEF FoundAt
    <3> QED
      BY <1>3, <2>2, <3>1, <3>2
      DEF Next, ReconcileNext, LoopNext, DrainNext, WatchNext, ExNext, ListMine, Reattach,
        ReconcileFail, ReconcileSkip, ReconcileKill, ReconcileRemove, Reconciled, ReconcileStatus,
        ReconcileToken, Beat, LoopEnds, Answer, BeatLost, OffersDone, Start, Token, Place,
        PlaceFails, Offer, DrainDeadline, Deregister, StopOne, StopReturns, StopsNext, KillLost,
        Deadline, DeadlineKill, TickStops, TickPasses, KillReturns, WatchExit, EndReport, WaitFails,
        Finish, ExecFinish, ExecStop, ExecExit, ExecDie, PodDeleted, Reap, Terminate, ApiStep,
        MonitorSettles, vars, mainVars, restVars, recVars
  <2> QED BY <1>3, <2>1, <2>2 DEF Held
<1>4. CASE ~(Boot \/ Crash) /\ main \in {"down", "list", "gone"}
  <2>1. CASE ListMine BY <1>4, <2>1 DEF ListMine, Listed, FoundAt, Reconciling
  <2>2. CASE main' = main BY <1>4, <2>2 DEF FoundAt
  <2> QED
    BY <1>4, <2>1, <2>2
    DEF Next, ReconcileNext, LoopNext, DrainNext, WatchNext, ExNext, Reattach, ReconcileFail,
      ReconcileSkip, ReconcileKill, ReconcileRemove, Reconciled, ReconcileStatus, ReconcileToken,
      Beat, LoopEnds, Answer, BeatLost, OffersDone, Start, Token, Place, PlaceFails,
      SupervisePlaced, Offer, DrainDeadline, Deregister, StopOne, StopReturns, StopsNext, KillLost,
      Deadline, DeadlineKill, TickStops, TickPasses, KillReturns, WatchExit, EndReport, WaitFails,
      Finish, ExecFinish, ExecStop, ExecExit, ExecDie, PodDeleted, Reap, Terminate, ApiStep,
      MonitorSettles, vars, mainVars
<1>5. CASE ~(Boot \/ Crash) /\ Reconciling /\ p \in todo
  <2>1. CASE Reattach
    <3>1. p = cur => p \in Watching' BY <2>1, SuperviseWatches DEF Reattach
    <3>2. p # cur => p \in todo' /\ main' = "reconcile" BY <1>5, <2>1 DEF Reattach, NextListed
    <3> QED BY <3>1, <3>2 DEF FoundAt, Reconciling
  <2>2. CASE ReconcileRemove
    <3>1. p # cur BY <1>1, <2>2 DEF ReconcileRemove, ReportInv, StopInv, RunsHere
    <3> QED BY <1>5, <2>2, <3>1 DEF ReconcileRemove, NextListed, FoundAt, Reconciling
  <2>3. CASE Reconciling' /\ todo' = todo BY <1>5, <2>3 DEF FoundAt
  <2>4. CASE main' = main /\ todo' = todo BY <1>5, <2>4 DEF FoundAt, Reconciling
  <2> QED
    BY <1>5, <2>1, <2>2, <2>3, <2>4
    DEF Next, ReconcileNext, LoopNext, DrainNext, WatchNext, ExNext, ListMine, ReconcileFail,
      ReconcileSkip, ReconcileKill, Reconciled, ReconcileStatus, ReconcileToken, Beat, LoopEnds,
      Answer, BeatLost, OffersDone, Start, Token, Place, PlaceFails, SupervisePlaced, Offer,
      DrainDeadline, Deregister, StopOne, StopReturns, StopsNext, KillLost, Deadline, DeadlineKill,
      TickStops, TickPasses, KillReturns, WatchExit, EndReport, WaitFails, Finish, ExecFinish,
      ExecStop, ExecExit, ExecDie, PodDeleted, Reap, Terminate, ApiStep, MonitorSettles, vars,
      mainVars, Reconciling, restVars
<1> QED BY <1>2, <1>3, <1>4, <1>5 DEF Held

LEMMA FoundNext ==
  ASSUME Driver = "container", KeepFailed, TypeOK, ReportInv, EndInv, FoundInv, [Next]_vars
  PROVE  FoundInv'
<1> SUFFICES ASSUME NEW p \in Placements, p \notin lost', RunsHere(p)' PROVE FoundAt(p)'
  BY DEF FoundInv
<1>1. CASE Start /\ main' = "token" /\ cur' = p BY <1>1 DEF FoundAt
<1>2. CASE RunsHere(p)
  <2>1. FoundAt(p) BY <1>2, HistoryGrows DEF FoundInv
  <2>2. CASE main \in {"token", "place"} /\ cur = p
    BY <2>2, ClaimGoesOn DEF RunsHere
  <2>3. CASE ex[p] \notin {"none", "removed"} /\ ~(main \in {"token", "place"} /\ cur = p)
    <3>1. ex'[p] \notin {"none", "removed"} BY <1>2, <2>1, <2>3, FoundKeepsExecutor
    <3> QED BY <1>2, <2>1, <2>3, <3>1, FoundStays DEF FoundAt
  <2> QED BY <2>1, <2>2, <2>3 DEF FoundAt
<1> QED BY <1>1, <1>2, RunsFrom DEF ReportInv

\* For the container driver and a pool that keeps failed placements: every job the API believes is
\* running here is watched here, once the launcher has reconciled, unless the launcher died or lost
\* a call on the way there (Run, claim, reconcile).  A sweep of a pool that keeps none may take a
\* placement that ended before its watcher saw it, and a crash then leaves nothing to find it by.
THEOREM WatchedCorrect ==
  ASSUME Driver = "container", KeepFailed PROVE Spec => []RunningIsWatched
<1>1. Init => FoundInv /\ EndInv
  BY DEF Init, FoundInv, EndInv, RunsHere, Over, JobsOf, JobOf, Placements
<1>2. TypeOK /\ ReportInv /\ FoundInv /\ EndInv /\ [Next]_vars => FoundInv' /\ EndInv'
  BY FoundNext, EndNext
<1>3. TypeOK /\ FoundInv => RunningIsWatched
  <2> SUFFICES ASSUME TypeOK, FoundInv, NEW j \in Jobs, api[j].status = "running", api[j].mine,
                      main \in {"beat", "poll", "claim"} \/ InClaim
               PROVE  \/ <<j, api[j].attempt>> \in Watching \/ <<j, api[j].attempt>> \in lost
                      \/ (InClaim /\ cur = <<j, api[j].attempt>>)
    BY DEF RunningIsWatched
  <2>1. PICK p \in Placements : p = <<j, api[j].attempt>> BY DEF Placements, TypeOK, ApiType
  <2>2. RunsHere(p) BY <2>1 DEF RunsHere, Over, JobsOf, JobOf, AttemptOf
  <2> QED BY <2>1, <2>2 DEF FoundInv, FoundAt, InClaim, Reconciling
<1> QED BY <1>1, <1>2, <1>3, TypeCorrect, ReportCorrect, PTL DEF Spec

-----------------------------------------------------------------------------
(* What the launcher fails was dead. *)

\* A token minted for a placement of one's own is its attempt's; a first life finds nothing placed.
OwnTokens == \A p \in Placements : tok[p] \in {0, AttemptOf(p)}

DeadInv ==
  /\ \A p \in sawEnded : ex[p] \in {"exited", "removed"}
  /\ main \in {"place", "supervise"} => token \in {0, AttemptOf(cur)}
  /\ boots = 0 => main = "down"
  /\ boots = 0 \/ (boots = 1 /\ main = "list") => \A p \in Placements : ex[p] = "none"
  /\ boots <= 1 => todo = {} /\ main \notin {"mint", "decide", "stop", "remove"} /\ OwnTokens

\* What has ended stays so.
LEMMA EndedStays ==
  ASSUME TypeOK, ReportInv, [Next]_vars, NEW p \in Placements, ex[p] \in {"exited", "removed"}
  PROVE  ex'[p] \in {"exited", "removed"}
<1>1. ASSUME NEW q \in Placements, NEW x, ex[q] = "working" \/ ex[q] = "reported" \/ ex[q] = "none",
             ex' = [ex EXCEPT ![q] = x]
      PROVE  ex'[p] = ex[p]
  BY <1>1 DEF TypeOK, ExType
<1>2. ASSUME NEW q \in Placements, Gone(q) \/ RemovePlacement(q) PROVE ex'[p] \in {"exited", "removed"}
  BY <1>2 DEF Gone, RemovePlacement, TypeOK, ExType
<1>3. CASE ex' = ex BY <1>3
<1>4. CASE Crash BY <1>4 DEF Crash
<1>5. main \in {"place", "remove"} => cur \in Placements BY DEF TypeOK, MainType
<1>6. main = "place" => ex[cur] = "none" BY DEF ReportInv, NewInv
<1> QED
  BY <1>1, <1>2, <1>3, <1>4, <1>5, <1>6
  DEF Next, ReconcileNext, LoopNext, DrainNext, WatchNext, ExNext, ListMine, Reattach,
    ReconcileFail, ReconcileSkip, ReconcileKill, ReconcileRemove, Reconciled, ReconcileStatus,
    ReconcileToken, Beat, LoopEnds, Answer, BeatLost, OffersDone, Start, Token, Place, PlaceFails,
    SupervisePlaced, Offer, DrainDeadline, Deregister, StopOne, StopReturns, StopsNext, KillLost,
    Deadline, DeadlineKill, TickStops, TickPasses, KillReturns, WatchExit, EndReport, WaitFails,
    Finish, ExecFinish, ExecStop, ExecExit, ExecDie, PodDeleted, Reap, Boot, Terminate, ApiStep,
    MonitorSettles, vars, exVars, Alive

\* A boot is counted.
LEMMA BootsCount == [Next]_vars => (~Boot /\ boots' = boots) \/ (Boot /\ boots' = boots + 1)
<1> SUFFICES ASSUME [Next]_vars PROVE (~Boot /\ boots' = boots) \/ (Boot /\ boots' = boots + 1)
  OBVIOUS
<1>1. CASE Boot BY <1>1 DEF Boot
<1>2. ASSUME NEW p, NEW n, FailWith(p, n) \/ FailWithRunCtx(p, n) PROVE boots' = boots
  BY <1>2 DEF FailWith, FailWithRunCtx
<1> QED
  BY <1>1, <1>2
  DEF Next, ReconcileNext, LoopNext, DrainNext, WatchNext, ExNext, ListMine, Reattach,
    ReconcileFail, ReconcileSkip, ReconcileKill, ReconcileRemove, Reconciled, ReconcileStatus,
    ReconcileToken, Beat, LoopEnds, Answer, BeatLost, OffersDone, Start, Token, Place, PlaceFails,
    SupervisePlaced, Offer, DrainDeadline, Deregister, StopOne, StopReturns, StopsNext, KillLost,
    Deadline, DeadlineKill, TickStops, TickPasses, KillReturns, WatchExit, EndReport, WaitFails,
    Finish, ExecFinish, ExecStop, ExecExit, ExecDie, PodDeleted, Reap, Crash, Terminate, ApiStep,
    MonitorSettles, vars, histVars, Lose

LEMMA DeadNext == TypeOK /\ ReportInv /\ DeadInv /\ [Next]_vars => DeadInv'
<1> SUFFICES ASSUME TypeOK, ReportInv, DeadInv, [Next]_vars PROVE DeadInv'
  OBVIOUS
<1>1. boots \in Int /\ boots' \in Int /\ boots >= 0
  BY LauncherAssumption, NextTyped DEF TypeOK, HistType
<1>2. (~Boot /\ boots' = boots) \/ (Boot /\ boots' = boots + 1) BY BootsCount
<1>3. ASSUME NEW p \in sawEnded' PROVE ex'[p] \in {"exited", "removed"}
  <2>1. p \in sawEnded \/ (p \in Placements /\ ex[p] = "exited")
    BY <1>3
    DEF Next, ReconcileNext, LoopNext, DrainNext, WatchNext, ExNext, ListMine, Reattach,
      ReconcileFail, ReconcileSkip, ReconcileKill, ReconcileRemove, Reconciled, ReconcileStatus,
      ReconcileToken, Beat, LoopEnds, Answer, BeatLost, OffersDone, Start, Token, Place, PlaceFails,
      SupervisePlaced, Offer, DrainDeadline, Deregister, StopOne, StopReturns, StopsNext, KillLost,
      Deadline, DeadlineKill, TickStops, TickPasses, KillReturns, WatchExit, EndReport, WaitFails,
      Finish, ExecFinish, ExecStop, ExecExit, ExecDie, PodDeleted, Reap, Boot, Crash, Terminate,
      ApiStep, MonitorSettles, vars, mainVars, FreshProcess, NextListed, restVars, recVars
  <2>2. p \in Placements BY <2>1 DEF TypeOK, MainType
  <2> QED BY <2>1, <2>2, EndedStays DEF DeadInv
<1>4. ASSUME main' \in {"place", "supervise"} PROVE token' \in {0, AttemptOf(cur')}
  <2>1. CASE main \in {"place", "supervise"} /\ UNCHANGED <<token, cur>> BY <2>1 DEF DeadInv
  <2>2. CASE Token BY <1>4, <2>2 DEF Token, ClaimReturns
  <2> QED
    BY <1>4, <2>1, <2>2
    DEF Next, ReconcileNext, LoopNext, DrainNext, WatchNext, ExNext, ListMine, Reattach,
      ReconcileFail, ReconcileSkip, ReconcileKill, ReconcileRemove, Reconciled, ReconcileStatus,
      ReconcileToken, Beat, LoopEnds, Answer, BeatLost, OffersDone, Start, Place, PlaceFails,
      SupervisePlaced, Offer, DrainDeadline, Deregister, StopOne, StopReturns, StopsNext, KillLost,
      Deadline, DeadlineKill, TickStops, TickPasses, KillReturns, WatchExit, EndReport, WaitFails,
      Finish, ExecFinish, ExecStop, ExecExit, ExecDie, PodDeleted, Reap, Boot, Crash, Terminate,
      ApiStep, MonitorSettles, vars, mainVars, FreshProcess, NextListed, ClaimReturns, restVars,
      recVars
<1>5. ASSUME boots' = 0 PROVE main' = "down" /\ boots = 0 /\ main = "down" /\ ~Boot
  <2>1. boots = 0 /\ ~Boot BY <1>1, <1>2, <1>5
  <2>2. main = "down" BY <2>1 DEF DeadInv
  <2>3. CASE main' = main BY <2>1, <2>2, <2>3
  <2> QED
    BY <2>1, <2>2, <2>3
    DEF Next, ReconcileNext, LoopNext, DrainNext, WatchNext, ExNext, ListMine, Reattach,
      ReconcileFail, ReconcileSkip, ReconcileKill, ReconcileRemove, Reconciled, ReconcileStatus,
      ReconcileToken, Beat, LoopEnds, Answer, BeatLost, OffersDone, Start, Token, Place, PlaceFails,
      SupervisePlaced, Offer, DrainDeadline, Deregister, StopOne, StopReturns, StopsNext, KillLost,
      Deadline, DeadlineKill, TickStops, TickPasses, KillReturns, WatchExit, EndReport, WaitFails,
      Finish, ExecFinish, ExecStop, ExecExit, ExecDie, PodDeleted, Reap, Crash, Terminate, ApiStep,
      MonitorSettles, vars, mainVars
<1>6. ASSUME boots' = 0 \/ (boots' = 1 /\ main' = "list"), NEW p \in Placements
      PROVE  ex'[p] = "none"
  <2>1. boots = 0 \/ (boots = 1 /\ main = "list")
    <3>1. CASE Boot BY <1>1, <1>2, <1>6, <3>1
    <3>2. CASE ~Boot /\ main' = "list"
      <4>1. main = "list"
        <5>1. CASE main' = main BY <3>2, <5>1
        <5> QED
          BY <3>2, <5>1
          DEF Next, ReconcileNext, LoopNext, DrainNext, WatchNext, ExNext, ListMine, Reattach,
            ReconcileFail, ReconcileSkip, ReconcileKill, ReconcileRemove, Reconciled,
            ReconcileStatus, ReconcileToken, Beat, LoopEnds, Answer, BeatLost, OffersDone, Start,
            Token, Place, PlaceFails, SupervisePlaced, Offer, DrainDeadline, Deregister, StopOne,
            StopReturns, StopsNext, KillLost, Deadline, DeadlineKill, TickStops, TickPasses,
            KillReturns, WatchExit, EndReport, WaitFails, Finish, ExecFinish, ExecStop, ExecExit,
            ExecDie, PodDeleted, Reap, Crash, Terminate, ApiStep, MonitorSettles, vars, mainVars,
            NextListed, ClaimReturns
      <4> QED BY <1>2, <1>6, <3>2, <4>1
    <3>3. CASE ~Boot /\ boots' = 0 BY <1>5, <3>3
    <3> QED BY <1>6, <3>1, <3>2, <3>3
  <2>2. \A q \in Placements : ex[q] = "none" BY <2>1 DEF DeadInv
  <2>3. main \in {"down", "list"} BY <2>1 DEF DeadInv
  <2>4. ASSUME NEW q \in Placements, Finish(q) PROVE FALSE
    BY <2>2, <2>4 DEF Finish, ReportInv, PlacedInv
  <2>5. CASE ex' = ex BY <2>2, <2>5
  <2>6. CASE Crash BY <2>2, <2>6 DEF Crash
  <2> QED
    BY <2>2, <2>3, <2>4, <2>5, <2>6
    DEF Next, ReconcileNext, LoopNext, DrainNext, WatchNext, ExNext, ListMine, Reattach,
      ReconcileFail, ReconcileSkip, ReconcileKill, ReconcileRemove, Reconciled, ReconcileStatus,
      ReconcileToken, Beat, LoopEnds, Answer, BeatLost, OffersDone, Start, Token, Place, PlaceFails,
      SupervisePlaced, Offer, DrainDeadline, Deregister, StopOne, StopReturns, StopsNext, KillLost,
      Deadline, DeadlineKill, TickStops, TickPasses, KillReturns, WatchExit, EndReport, WaitFails,
      ExecFinish, ExecStop, ExecExit, ExecDie, PodDeleted, Reap, Boot, Terminate, ApiStep,
      MonitorSettles, vars, exVars, Alive
<1>7. ASSUME boots' <= 1 PROVE todo' = {} /\ main' \notin {"mint", "decide", "stop", "remove"} /\ OwnTokens'
  <2>1. CASE Boot \/ Crash
    BY <2>1 DEF Boot, Crash, FreshProcess, OwnTokens
  <2>2. CASE ~(Boot \/ Crash)
    <3>1. boots <= 1 /\ boots' = boots BY <1>1, <1>2, <1>7, <2>2
    <3>2. todo = {} /\ main \notin {"mint", "decide", "stop", "remove"} /\ OwnTokens BY <3>1 DEF DeadInv
    <3>3. todo' = {}
      <4>1. ASSUME ListMine PROVE todo' = {}
        <5>1. main = "list" BY <4>1 DEF ListMine
        <5>2. boots = 1 BY <1>1, <3>1, <5>1 DEF DeadInv
        <5>3. Listed = {} BY <5>1, <5>2 DEF DeadInv, Listed
        <5> QED BY <3>2, <4>1, <5>3 DEF ListMine
      <4> QED
        BY <2>2, <3>2, <4>1
        DEF Next, ReconcileNext, LoopNext, DrainNext, WatchNext, ExNext, Reattach, ReconcileFail,
          ReconcileSkip, ReconcileKill, ReconcileRemove, Reconciled, ReconcileStatus,
          ReconcileToken, Beat, LoopEnds, Answer, BeatLost, OffersDone, Start, Token, Place,
          PlaceFails, SupervisePlaced, Offer, DrainDeadline, Deregister, StopOne, StopReturns,
          StopsNext, KillLost, Deadline, DeadlineKill, TickStops, TickPasses, KillReturns,
          WatchExit, EndReport, WaitFails, Finish, ExecFinish, ExecStop, ExecExit, ExecDie,
          PodDeleted, Reap, Terminate, ApiStep, MonitorSettles, vars, mainVars, NextListed,
          restVars, recVars
    <3>4. main' \notin {"mint", "decide", "stop", "remove"}
      <4>1. CASE main' = main BY <3>2, <4>1
      <4> QED
        BY <2>2, <3>2, <4>1
        DEF Next, ReconcileNext, LoopNext, DrainNext, WatchNext, ExNext, ListMine, Reattach,
          ReconcileFail, ReconcileSkip, ReconcileKill, ReconcileRemove, Reconciled, ReconcileStatus,
          ReconcileToken, Beat, LoopEnds, Answer, BeatLost, OffersDone, Start, Token, Place,
          PlaceFails, SupervisePlaced, Offer, DrainDeadline, Deregister, StopOne, StopReturns,
          StopsNext, KillLost, Deadline, DeadlineKill, TickStops, TickPasses, KillReturns,
          WatchExit, EndReport, WaitFails, Finish, ExecFinish, ExecStop, ExecExit, ExecDie,
          PodDeleted, Reap, Terminate, ApiStep, MonitorSettles, vars, mainVars, NextListed,
          ClaimReturns
    <3>5. ASSUME NEW p \in Placements PROVE tok'[p] \in {0, AttemptOf(p)}
      <4>1. CASE tok'[p] \in {0, tok[p]} BY <3>2, <4>1 DEF OwnTokens
      <4>2. CASE SupervisePlaced
        <5>1. cur \in Placements /\ token \in {0, AttemptOf(cur)} /\ Supervise(cur, token)
          BY <4>2 DEF SupervisePlaced, DeadInv, TypeOK, MainType
        <5> QED BY <3>2, <5>1 DEF Supervise, OwnTokens, TypeOK, WatchType
      <4>3. ASSUME NEW q \in Placements, Finish(q) PROVE tok'[p] \in {0, tok[p]}
        BY <4>3 DEF Finish, TypeOK, WatchType
      <4>4. ~Reattach BY <3>2 DEF Reattach
      <4> QED
        BY <2>2, <4>1, <4>2, <4>3, <4>4
        DEF Next, ReconcileNext, LoopNext, DrainNext, WatchNext, ExNext, ListMine, ReconcileFail,
          ReconcileSkip, ReconcileKill, ReconcileRemove, Reconciled, ReconcileStatus,
          ReconcileToken, Beat, LoopEnds, Answer, BeatLost, OffersDone, Start, Token, Place,
          PlaceFails, Offer, DrainDeadline, Deregister, StopOne, StopReturns, StopsNext, KillLost,
          Deadline, DeadlineKill, TickStops, TickPasses, KillReturns, WatchExit, EndReport,
          WaitFails, ExecFinish, ExecStop, ExecExit, ExecDie, PodDeleted, Reap, Terminate, ApiStep,
          MonitorSettles, vars, watchVars
    <3> QED BY <3>3, <3>4, <3>5 DEF OwnTokens
  <2> QED BY <2>1, <2>2
<1> QED BY <1>3, <1>4, <1>5, <1>6, <1>7 DEF DeadInv

\* What the launcher says failed, of a job's first attempt or in its own first life, was not at work
\* any more or has passed its timeout.  A later life may take an earlier attempt's placement for its
\* job's latest attempt, which is then failed at work.
FailsOnlyItsOwnDead ==
  [][\A j \in Jobs :
       LET p == <<j, api[j].attempt>>
       IN  /\ api'[j].by = "launcher" /\ api[j].by # "launcher"
           /\ boots <= 1 \/ api[j].attempt = 1
           => ex[p] # "working" \/ p \in timedOut']_vars

\* Who the launcher's failure of an attempt comes from.
LEMMA FailsBy ==
  ASSUME TypeOK, [Next]_vars, NEW j \in Jobs, api'[j].by = "launcher", api[j].by # "launcher"
  PROVE  \E p \in Placements :
           /\ JobOf(p) = j
           /\ \/ Deadline(p) /\ tok[p] = api[j].attempt
              \/ WatchExit(p) /\ tok[p] = api[j].attempt
              \/ WaitFails(p)
              \/ (PlaceFails \/ ReconcileFail) /\ cur = p /\ token = api[j].attempt
<1>1. ASSUME NEW h \in Jobs, NEW n, Settle(h, n, "failed", "launcher")
      PROVE  h = j /\ n = api[j].attempt
  BY <1>1 DEF Settle, TypeOK, ApiType
<1>2. ASSUME NEW h, NEW n, NEW o, Settle(h, n, o, "executor") PROVE FALSE
  BY <1>2 DEF Settle, TypeOK, ApiType
<1>3. ASSUME UNCHANGED api PROVE FALSE BY <1>3
<1>4. ASSUME NEW h \in Jobs, ApiStep(h) PROVE FALSE BY <1>4 DEF ApiStep, TypeOK, ApiType
<1>5. ASSUME NEW h \in Jobs, MonitorSettles(h) PROVE FALSE BY <1>5 DEF MonitorSettles, TypeOK, ApiType
<1>6. ASSUME Start PROVE FALSE BY <1>6 DEF Start, TypeOK, ApiType
<1>7. \A p \in Placements : JobOf(p) \in Jobs BY DEF JobOf, Placements
<1>8. ASSUME NEW p \in Placements, NEW n, FailWith(p, n) \/ FailWithRunCtx(p, n)
      PROVE  JobOf(p) = j /\ n = api[j].attempt
  BY <1>1, <1>3, <1>7, <1>8 DEF FailWith, FailWithRunCtx
<1>9. ASSUME NEW p \in Placements, Deadline(p) PROVE JobOf(p) = j /\ tok[p] = api[j].attempt
  BY <1>8, <1>9 DEF Deadline
<1>10. ASSUME NEW p \in Placements, WatchExit(p) PROVE JobOf(p) = j /\ tok[p] = api[j].attempt
  BY <1>3, <1>8, <1>10 DEF WatchExit, EndReport
<1>11. ASSUME NEW p \in Placements, WaitFails(p) PROVE JobOf(p) = j
  BY <1>1, <1>7, <1>11 DEF WaitFails
<1>12. ASSUME PlaceFails \/ ReconcileFail
       PROVE  cur \in Placements /\ JobOf(cur) = j /\ token = api[j].attempt
  BY <1>8, <1>12 DEF PlaceFails, ReconcileFail, TypeOK, MainType
<1> QED
  BY <1>2, <1>3, <1>4, <1>5, <1>6, <1>9, <1>10, <1>11, <1>12
  DEF Next, ReconcileNext, LoopNext, DrainNext, WatchNext, ExNext, ListMine, Reattach,
    ReconcileSkip, ReconcileKill, ReconcileRemove, Reconciled, ReconcileStatus, ReconcileToken,
    Beat, LoopEnds, Answer, BeatLost, OffersDone, Token, Place, SupervisePlaced, Offer,
    DrainDeadline, Deregister, StopOne, StopReturns, StopsNext, KillLost, DeadlineKill, TickStops,
    TickPasses, KillReturns, Finish, ExecFinish, ExecStop, ExecExit, ExecDie, PodDeleted, Reap,
    Boot, Crash, Terminate, vars, apiVars

\* One step's part of it, for an attempt whose token is its own placement's.
LEMMA FailsOwn ==
  ASSUME Driver # "container" \/ MaxLosses = 0, TypeOK, ReportInv, DeadInv, [Next]_vars,
         NEW j \in Jobs, api'[j].by = "launcher", api[j].by # "launcher",
         boots <= 1 \/ api[j].attempt = 1
  PROVE  ex[<<j, api[j].attempt>>] # "working" \/ <<j, api[j].attempt>> \in timedOut'
<1>1. PICK p \in Placements :
        /\ JobOf(p) = j
        /\ \/ Deadline(p) /\ tok[p] = api[j].attempt
           \/ WatchExit(p) /\ tok[p] = api[j].attempt
           \/ WaitFails(p)
           \/ (PlaceFails \/ ReconcileFail) /\ cur = p /\ token = api[j].attempt
  BY FailsBy
<1>2. ~WaitFails(p) BY DEF WaitFails, TypeOK, HistType
<1>3. /\ AttemptOf(p) \in Int /\ AttemptOf(p) >= 1 /\ api[j].attempt \in Int /\ api[j].attempt >= 1
      /\ p = <<JobOf(p), AttemptOf(p)>>
  BY DEF Placements, JobOf, AttemptOf, Attempts, TypeOK, ApiType
<1>4. ASSUME tok[p] = api[j].attempt PROVE p = <<j, api[j].attempt>>
  <2>1. AttemptOf(p) <= tok[p] BY <1>3, <1>4 DEF ReportInv, TokenInv
  <2>2. boots <= 1 => tok[p] = AttemptOf(p) BY <1>3, <1>4 DEF DeadInv, OwnTokens
  <2>3. AttemptOf(p) = api[j].attempt BY <1>3, <1>4, <2>1, <2>2
  <2> QED BY <1>1, <1>3, <2>3
<1>5. CASE Deadline(p) /\ tok[p] = api[j].attempt
  BY <1>4, <1>5 DEF Deadline
<1>6. CASE WatchExit(p) /\ tok[p] = api[j].attempt
  <2>1. ex[p] \in {"exited", "removed"}
    <3>1. CASE ex[p] \notin {"exited", "removed"} BY <1>6, <3>1 DEF WatchExit, WaitResults
    <3> QED BY <3>1
  <2> QED BY <1>4, <1>6, <2>1
<1>7. CASE PlaceFails /\ cur = p /\ token = api[j].attempt
  <2>1. ex[p] = "none" /\ token \in {0, AttemptOf(p)}
    BY <1>7 DEF PlaceFails, ReportInv, NewInv, DeadInv
  <2> QED BY <1>1, <1>3, <1>7, <2>1
<1>8. CASE ReconcileFail /\ cur = p /\ token = api[j].attempt
  <2>1. main = "decide" /\ ex[p] \in {"exited", "removed"} BY <1>8 DEF ReconcileFail, DeadInv
  <2>2. api[j].attempt = 1 BY <2>1 DEF DeadInv
  <2>3. AttemptOf(p) <= token BY <1>3, <1>8 DEF ReportInv, TokenInv
  <2>4. AttemptOf(p) = 1 BY <1>3, <1>8, <2>2, <2>3
  <2> QED BY <1>1, <1>3, <2>1, <2>2, <2>4
<1> QED BY <1>1, <1>2, <1>5, <1>6, <1>7, <1>8

LEMMA DeadInit == Init => DeadInv
<1> SUFFICES ASSUME Init PROVE DeadInv
  OBVIOUS
<1>1. sawEnded = {} /\ main = "down" /\ boots = 0 /\ todo = {} BY DEF Init
<1>2. \A p \in Placements : ex[p] = "none" /\ tok[p] = 0 BY DEF Init
<1> QED BY <1>1, <1>2 DEF DeadInv, OwnTokens

\* For every driver whose wait does not fail while the placement is there: the launcher reports an
\* attempt failed only when that attempt's own executor is not at work any more or has passed its
\* timeout, for any first attempt and in any first life (watch, ended, reconcile).
THEOREM FailsOwnCorrect ==
  ASSUME Driver # "container" \/ MaxLosses = 0 PROVE Spec => FailsOnlyItsOwnDead
<1>1. Init => DeadInv BY DeadInit
<1>2. TypeOK /\ ReportInv /\ DeadInv /\ [Next]_vars => DeadInv' BY DeadNext
<1>3. TypeOK /\ ReportInv /\ DeadInv /\ [Next]_vars =>
        [\A j \in Jobs :
           LET p == <<j, api[j].attempt>>
           IN  /\ api'[j].by = "launcher" /\ api[j].by # "launcher"
               /\ boots <= 1 \/ api[j].attempt = 1
               => ex[p] # "working" \/ p \in timedOut']_vars
  BY FailsOwn
<1> QED BY <1>1, <1>2, <1>3, TypeCorrect, ReportCorrect, PTL DEF Spec, FailsOnlyItsOwnDead

\* The same where no job is retried, or the launcher never restarts, for every attempt there is.
THEOREM FailsCorrect ==
  ASSUME Driver # "container" \/ MaxLosses = 0, MaxAttempt = 1 \/ MaxBoots <= 1
  PROVE  Spec => FailsOnlyTheDead
<1>1. Init => DeadInv BY DeadInit
<1>2. TypeOK /\ ReportInv /\ DeadInv /\ [Next]_vars => DeadInv' BY DeadNext
<1>3. TypeOK /\ ReportInv /\ DeadInv /\ [Next]_vars =>
        [\A j \in Jobs :
           LET p == <<j, api[j].attempt>>
           IN  api'[j].by = "launcher" /\ api[j].by # "launcher"
                 => ex[p] # "working" \/ p \in timedOut']_vars
  <2>1. TypeOK => \A j \in Jobs : boots <= 1 \/ api[j].attempt = 1
    BY LauncherAssumption DEF TypeOK, HistType, ApiType, Attempts
  <2> QED BY <2>1, FailsOwn
<1> QED BY <1>1, <1>2, <1>3, TypeCorrect, ReportCorrect, PTL DEF Spec, FailsOnlyTheDead

-----------------------------------------------------------------------------
(* A failed placement is kept. *)

\* The attempts a failure of which is known to be their own placement's: see FailsOnlyItsOwnDead.
Latest(p) == JobsOf(p).attempt = AttemptOf(p) /\ (boots <= 1 \/ AttemptOf(p) = 1)
FailedHere(p) == Latest(p) /\ JobsOf(p).status = "failed"

\* An executor's end that is not a stop.
NotStopped(p) == code[p] \notin {"none", "stopped"}

\* What reconcile lists and what a claim is placing is not watched yet, nor has it an exit code
\* before it has ended.
ListInv ==
  /\ main \in {"down", "list", "gone"} => Watching = {}
  /\ Reconciling => todo \cap Watching = {}
  /\ main \in {"mint", "decide", "stop", "remove"} => cur \in todo
  /\ main = "supervise" => cur \notin Watching
  /\ \A p \in Placements : ex[p] \in {"none", "working"} => code[p] = "none"

\* The watcher has not reported an end yet.
Open(p) == watch[p] \in {"watch", "deadline", "killing"}

\* What is failed under supervision was not stopped, but for its timeout.
FailInv ==
  /\ main \in {"token", "place"} => ~FailedHere(cur)
  /\ main = "supervise" \/ (main \in {"mint", "decide"} /\ active /\ cur \notin sawEnded) =>
       (FailedHere(cur) => NotStopped(cur))
  /\ \A p \in Placements :
       Open(p) /\ FailedHere(p) => p \in timedOut \/ NotStopped(p)

\* What is canceled is not failed any more.
CanceledInv ==
  /\ canceled \subseteq Watching
  /\ \A p \in canceled :
       Latest(p) => \/ JobsOf(p).status \in {"canceled", "deleted", "completed"}
                    \/ /\ JobsOf(p).status = "running"
                       /\ watch[p] = "removing" /\ ex[p] \in {"exited", "removed"}

KeepInv == ListInv /\ FailInv /\ CanceledInv

LEMMA ListNext == TypeOK /\ ReportInv /\ ListInv /\ [Next]_vars => ListInv'
<1> SUFFICES ASSUME TypeOK, ReportInv, ListInv, [Next]_vars PROVE ListInv'
  OBVIOUS
<1>1. ASSUME main' \in {"down", "list", "gone"} PROVE Watching' = {}
  BY <1>1, QuietStays DEF ListInv
<1>2. ASSUME Reconciling' PROVE todo' \cap Watching' = {}
  <2>1. CASE ListMine /\ main = "list"
    BY <2>1 DEF ListMine, ListInv, watchVars, Watching
  <2>2. CASE Reconciling /\ todo' \subseteq todo
    <3>1. CASE Reattach
      BY <2>2, <3>1, SuperviseWatches DEF Reattach, NextListed, ListInv, TypeOK, MainType
    <3>2. ~SupervisePlaced BY <2>2 DEF SupervisePlaced, Reconciling
    <3> QED BY <2>2, <3>1, <3>2, WatchesGrowBy DEF ListInv
  <2> QED BY <1>2, <2>1, <2>2, Reconciles
<1>3. ASSUME main' \in {"mint", "decide", "stop", "remove"} PROVE cur' \in todo'
  BY <1>3, CurIsListed DEF ListInv
<1>4. ASSUME main' = "supervise" PROVE cur' \notin Watching'
  <2>1. CASE Place
    <3>1. ex[cur] = "none" /\ cur \in Placements BY <2>1 DEF Place, ReportInv, NewInv, TypeOK, MainType
    <3>2. watch[cur] = "idle" BY <3>1 DEF ReportInv, PlacedInv
    <3> QED BY <2>1, <3>2 DEF Place, watchVars, Watching
  <2>2. CASE main = "supervise" /\ cur' = cur
    <3>1. ~Reattach /\ ~SupervisePlaced
      BY <1>4, <2>2 DEF Reattach, SupervisePlaced, ClaimReturns
    <3> QED BY <2>2, <3>1, WatchesGrowBy DEF ListInv
  <2>3. CASE UNCHANGED <<main, cur>> BY <1>4, <2>2, <2>3
  <2> QED
    BY <1>4, <2>1, <2>2, <2>3
    DEF Next, ReconcileNext, LoopNext, DrainNext, WatchNext, ExNext, ListMine, Reattach,
      ReconcileFail, ReconcileSkip, ReconcileKill, ReconcileRemove, Reconciled, ReconcileStatus,
      ReconcileToken, Beat, LoopEnds, Answer, BeatLost, OffersDone, Start, Token, PlaceFails,
      SupervisePlaced, Offer, DrainDeadline, Deregister, StopOne, StopReturns, StopsNext, KillLost,
      Deadline, DeadlineKill, TickStops, TickPasses, KillReturns, WatchExit, EndReport, WaitFails,
      Finish, ExecFinish, ExecStop, ExecExit, ExecDie, PodDeleted, Reap, Boot, Crash, Terminate,
      ApiStep, MonitorSettles, vars, mainVars, NextListed, ClaimReturns, recVars, restVars
<1>5. ASSUME NEW p \in Placements, ex'[p] \in {"none", "working"} PROVE code'[p] = "none"
  <2>1. CASE ex' = ex /\ code' = code BY <1>5, <2>1 DEF ListInv
  <2>2. ASSUME NEW q \in Placements, NEW x, NEW y, ex' = [ex EXCEPT ![q] = x],
               x \notin {"none", "working"}, code' = [code EXCEPT ![q] = y]
        PROVE  code'[p] = "none"
    BY <1>5, <2>2 DEF ListInv, TypeOK, ExType
  <2>3. ASSUME NEW q \in Placements, NEW x, ex' = [ex EXCEPT ![q] = x], x \notin {"none", "working"},
               code' = code
        PROVE  code'[p] = "none"
    BY <1>5, <2>3 DEF ListInv, TypeOK, ExType
  <2>4. ASSUME NEW q \in Placements, Gone(q) \/ RemovePlacement(q) PROVE code'[p] = "none"
    BY <2>1, <2>2, <2>3, <2>4 DEF Gone, RemovePlacement
  <2>5. CASE Place
    BY <1>5, <2>5 DEF Place, ListInv, ReportInv, NewInv, TypeOK, ExType, MainType
  <2>6. CASE Crash BY <1>5, <2>6 DEF Crash, ListInv
  <2>7. ASSUME NEW q \in Placements, ExecFinish(q) \/ ExecStop(q) \/ ExecDie(q)
        PROVE  code'[p] = "none"
    BY <2>2, <2>7 DEF ExecFinish, ExecStop, ExecDie
  <2>8. ASSUME NEW q \in Placements, ExecExit(q) PROVE code'[p] = "none"
    BY <2>3, <2>8 DEF ExecExit
  <2>9. ASSUME NEW q \in Placements, PodDeleted(q) \/ Reap(q) \/ Finish(q) PROVE code'[p] = "none"
    BY <2>4, <2>9 DEF PodDeleted, Reap, Finish
  <2>10. CASE ReconcileRemove
    BY <2>1, <2>4, <2>10 DEF ReconcileRemove, TypeOK, MainType
  <2> QED
    BY <2>1, <2>5, <2>6, <2>7, <2>8, <2>9, <2>10
    DEF Next, ReconcileNext, LoopNext, DrainNext, WatchNext, ExNext, ListMine, Reattach,
      ReconcileFail, ReconcileSkip, ReconcileKill, Reconciled, ReconcileStatus, ReconcileToken,
      Beat, LoopEnds, Answer, BeatLost, OffersDone, Start, Token, PlaceFails, SupervisePlaced,
      Offer, DrainDeadline, Deregister, StopOne, StopReturns, StopsNext, KillLost, Deadline,
      DeadlineKill, TickStops, TickPasses, KillReturns, WatchExit, EndReport, WaitFails, Boot,
      Terminate, ApiStep, MonitorSettles, vars, exVars
<1> QED BY <1>1, <1>2, <1>3, <1>4, <1>5 DEF ListInv

\* A boot is counted, and nothing is forgotten: what is the latest attempt of a placement that is
\* ours was so before.
LEMMA LatestWas ==
  ASSUME TypeOK, ReportInv, [Next]_vars, NEW p \in Placements, Ours(p), Latest(p)'
  PROVE  Latest(p)
<1>1. JobOf(p) \in Jobs /\ AttemptOf(p) \in Int BY DEF JobOf, AttemptOf, Placements, Attempts
<1>2. Grows(JobOf(p)) BY <1>1, ApiGrows
<1>3. JobsOf(p).attempt \in Int /\ JobsOf(p)'.attempt \in Int /\ AttemptOf(p) <= JobsOf(p).attempt
  BY <1>1, NextTyped DEF TypeOK, ApiType, Attempts, ReportInv, OursInv, JobsOf
<1>4. JobsOf(p).attempt = AttemptOf(p) BY <1>1, <1>2, <1>3 DEF Grows, JobsOf, Latest
<1>5. boots \in Int /\ boots' \in {boots, boots + 1}
  BY BootsCount DEF TypeOK, HistType
<1> QED BY <1>4, <1>5 DEF Latest

\* A token that is of a placement's latest attempt is that placement's own.
LEMMA TokenIsOwn ==
  ASSUME TypeOK, ReportInv, DeadInv, NEW p \in Placements, NEW q \in Placements, JobOf(p) = JobOf(q),
         Latest(p),
         \/ tok[q] = JobsOf(p).attempt
         \/ main \in {"decide", "place"} /\ cur = q /\ token = JobsOf(p).attempt
  PROVE  q = p
<1>1. /\ AttemptOf(p) \in Int /\ AttemptOf(p) >= 1 /\ AttemptOf(q) \in Int /\ AttemptOf(q) >= 1
      /\ p = <<JobOf(p), AttemptOf(p)>> /\ q = <<JobOf(q), AttemptOf(q)>>
      /\ JobsOf(p).attempt = AttemptOf(p)
  BY DEF Placements, JobOf, AttemptOf, Attempts, Latest
<1>2. AttemptOf(q) = AttemptOf(p)
  <2>1. AttemptOf(q) <= AttemptOf(p) BY <1>1 DEF ReportInv, TokenInv
  <2>2. CASE AttemptOf(p) = 1 BY <1>1, <2>1, <2>2
  <2>3. CASE boots <= 1 BY <1>1, <2>3 DEF DeadInv, OwnTokens
  <2> QED BY <2>2, <2>3 DEF Latest
<1> QED BY <1>1, <1>2

\* Who an attempt's failure comes from.
LEMMA FailedBy ==
  ASSUME TypeOK, ReportInv, DeadInv, [Next]_vars, NEW p \in Placements, Latest(p),
         ~FailedHere(p), FailedHere(p)'
  PROVE  /\ JobsOf(p).status = "running"
         /\ \/ main \in {"down", "gone"} /\ UNCHANGED <<main, watchVars, exVars>>
            \/ ExecFinish(p) /\ code'[p] = "failed"
            \/ Deadline(p) \/ WatchExit(p) \/ WaitFails(p)
            \/ (PlaceFails \/ ReconcileFail) /\ cur = p
<1> DEFINE j == JobOf(p)
<1>1. j \in Jobs /\ api[j].attempt = AttemptOf(p) /\ JobsOf(p) = api[j]
  BY DEF Latest, JobsOf, JobOf, Placements
<1>2. api[j].status # "failed" /\ api'[j].status = "failed" BY <1>1 DEF FailedHere, JobsOf
<1>3. ASSUME NEW h \in Jobs, NEW n, NEW o, NEW w, Settle(h, n, o, w)
      PROVE  h = j /\ n = api[j].attempt /\ o = "failed" /\ api[j].status = "running"
  BY <1>1, <1>2, <1>3 DEF Settle, TypeOK, ApiType
<1>4. ASSUME UNCHANGED api PROVE FALSE BY <1>2, <1>4
<1>5. ASSUME NEW q \in Placements PROVE JobOf(q) \in Jobs BY DEF JobOf, Placements
<1>6. ASSUME NEW q \in Placements, NEW n, FailWith(q, n) \/ FailWithRunCtx(q, n)
      PROVE  JobOf(q) = j /\ n = api[j].attempt /\ api[j].status = "running"
  BY <1>3, <1>4, <1>5, <1>6 DEF FailWith, FailWithRunCtx
<1>7. ASSUME NEW h \in Jobs, ApiStep(h) PROVE FALSE BY <1>1, <1>2, <1>7 DEF ApiStep, TypeOK, ApiType
<1>8. CASE Start BY <1>1, <1>2, <1>8 DEF Start, TypeOK, ApiType, MainType, JobOf, Placements
<1>9. ASSUME NEW h \in Jobs, MonitorSettles(h)
      PROVE  main \in {"down", "gone"} /\ UNCHANGED <<main, watchVars, exVars>> /\ api[j].status = "running"
  BY <1>1, <1>2, <1>9 DEF MonitorSettles, TypeOK, ApiType, mainVars
<1>10. ASSUME NEW q \in Placements, ExecFinish(q)
       PROVE  q = p /\ code'[p] = "failed" /\ api[j].status = "running"
  <2>1. PICK o \in {"completed", "failed"} :
          Settle(JobOf(q), AttemptOf(q), o, "executor") /\ code' = [code EXCEPT ![q] = o]
    BY <1>4, <1>10 DEF ExecFinish
  <2>2. JobOf(q) = j /\ AttemptOf(q) = AttemptOf(p) /\ o = "failed" /\ api[j].status = "running"
    BY <1>1, <1>3, <1>5, <2>1
  <2>3. q = p BY <2>2 DEF Placements, JobOf, AttemptOf
  <2> QED BY <2>1, <2>2, <2>3 DEF TypeOK, ExType
<1>11. ASSUME NEW q \in Placements, ExecStop(q) PROVE FALSE
  BY <1>3, <1>4, <1>5, <1>11 DEF ExecStop
<1>12. ASSUME NEW q \in Placements, Deadline(q) \/ WatchExit(q) \/ WaitFails(q)
       PROVE  q = p /\ api[j].status = "running"
  <2>1. JobOf(q) = j /\ tok[q] = api[j].attempt /\ api[j].status = "running"
    BY <1>3, <1>4, <1>5, <1>6, <1>12 DEF Deadline, WatchExit, EndReport, WaitFails
  <2> QED BY <1>1, <2>1, TokenIsOwn
<1>13. ASSUME PlaceFails \/ ReconcileFail PROVE cur = p /\ api[j].status = "running"
  <2>1. /\ cur \in Placements /\ main \in {"decide", "place"}
        /\ JobOf(cur) = j /\ token = api[j].attempt /\ api[j].status = "running"
    BY <1>6, <1>13 DEF PlaceFails, ReconcileFail, TypeOK, MainType
  <2> QED BY <1>1, <2>1, TokenIsOwn
<1> QED
  BY <1>1, <1>4, <1>7, <1>8, <1>9, <1>10, <1>11, <1>12, <1>13
  DEF Next, ReconcileNext, LoopNext, DrainNext, WatchNext, ExNext, ListMine, Reattach,
    ReconcileSkip, ReconcileKill, ReconcileRemove, Reconciled, ReconcileStatus, ReconcileToken,
    Beat, LoopEnds, Answer, BeatLost, OffersDone, Token, Place, SupervisePlaced, Offer,
    DrainDeadline, Deregister, StopOne, StopReturns, StopsNext, KillLost, DeadlineKill, TickStops,
    TickPasses, KillReturns, Finish, ExecExit, ExecDie, PodDeleted, Reap, Boot, Crash, Terminate,
    vars, apiVars

\* A watcher starts with Supervise, and keeps its timeout till its end.
LEMMA WatchStarts ==
  ASSUME TypeOK, ListInv, [Next]_vars, NEW p \in Placements, Open(p)'
  PROVE  \/ Open(p) /\ (p \in timedOut => p \in timedOut')
         \/ (Reattach \/ SupervisePlaced) /\ p = cur /\ UNCHANGED <<api, code>>
<1>1. ASSUME NEW q \in Placements, NEW n, Supervise(q, n), q # p
      PROVE  Open(p) /\ (p \in timedOut => p \in timedOut')
  BY <1>1 DEF Supervise, Open, TypeOK, WatchType
<1>2. ASSUME NEW q \in Placements, Finish(q) PROVE Open(p) /\ (p \in timedOut => p \in timedOut')
  BY <1>2 DEF Finish, Open, TypeOK, WatchType
<1>3. ASSUME NEW q \in Placements, NEW x, Open(q), watch' = [watch EXCEPT ![q] = x] PROVE Open(p)
  BY <1>3 DEF Open, TypeOK, WatchType
<1>4. ASSUME NEW q \in Placements,
             \/ Deadline(q) \/ DeadlineKill(q) \/ TickStops(q) \/ TickPasses(q) \/ KillReturns(q)
             \/ WatchExit(q) \/ WaitFails(q)
      PROVE  Open(p) /\ (p \in timedOut => p \in timedOut')
  <2>1. timedOut \subseteq timedOut'
    <3>1. CASE Deadline(q) BY <3>1 DEF Deadline
    <3>2. CASE WatchExit(q) BY <3>2 DEF WatchExit, EndReport
    <3>3. CASE DeadlineKill(q) \/ TickStops(q) \/ TickPasses(q) \/ KillReturns(q) \/ WaitFails(q)
      BY <3>3 DEF DeadlineKill, TickStops, TickPasses, KillReturns, WaitFails
    <3> QED BY <1>4, <3>1, <3>2, <3>3
  <2>2. ASSUME watch' = watch PROVE Open(p) BY <2>2 DEF Open
  <2>3. Open(q) \/ watch' = watch
    BY <1>4
    DEF Deadline, DeadlineKill, TickStops, TickPasses, KillReturns, WatchExit, EndReport, WaitFails, Open
  <2>4. watch' = watch \/ \E x : watch' = [watch EXCEPT ![q] = x]
    BY <1>4
    DEF Deadline, DeadlineKill, TickStops, TickPasses, KillReturns, WatchExit, EndReport, WaitFails
  <2> QED BY <1>3, <2>1, <2>2, <2>3, <2>4
<1>5. CASE watch' = watch /\ timedOut' = timedOut BY <1>5 DEF Open
<1>6. CASE FreshProcess BY <1>6 DEF FreshProcess, Open
<1>7. CASE Reattach \/ SupervisePlaced
  <2>1. cur \in Placements BY <1>7 DEF Reattach, SupervisePlaced, TypeOK, MainType
  <2> QED BY <1>1, <1>7, <2>1 DEF Reattach, SupervisePlaced, apiVars, exVars
<1> QED
  BY <1>2, <1>4, <1>5, <1>6, <1>7
  DEF Next, ReconcileNext, LoopNext, DrainNext, WatchNext, ExNext, ListMine, ReconcileFail,
    ReconcileSkip, ReconcileKill, ReconcileRemove, Reconciled, ReconcileStatus, ReconcileToken,
    Beat, LoopEnds, Answer, BeatLost, OffersDone, Start, Token, Place, PlaceFails, Offer,
    DrainDeadline, Deregister, StopOne, StopReturns, StopsNext, KillLost, ExecFinish, ExecStop,
    ExecExit, ExecDie, PodDeleted, Reap, Boot, Crash, Terminate, ApiStep, MonitorSettles, vars,
    watchVars

\* What reconcile looks at, and what was just placed, is in nobody's watch.
LEMMA CurIsUnwatched ==
  ASSUME ListInv, main \in {"mint", "decide", "stop", "remove", "supervise"} PROVE cur \notin Watching
BY DEF ListInv, Reconciling

\* An exit code that is not a stop's is there till somebody has seen it, where failures are kept.
LEMMA NotStoppedStays ==
  ASSUME Driver = "container", KeepFailed, TypeOK, ListInv, [Next]_vars, NEW p \in Placements,
         Open(p) \/ (main \in {"mint", "decide", "supervise"} /\ cur = p), NotStopped(p)
  PROVE  NotStopped(p)'
<1>1. ASSUME NEW q \in Placements, NEW x, code' = [code EXCEPT ![q] = x],
             q # p \/ x \notin {"none", "stopped"}
      PROVE  NotStopped(p)'
  BY <1>1 DEF NotStopped, TypeOK, ExType
<1>2. CASE code' = code BY <1>2 DEF NotStopped
<1>3. ASSUME NEW q \in Placements, Gone(q), q # p \/ Open(p) PROVE NotStopped(p)'
  BY <1>1, <1>2, <1>3 DEF Gone, Open
<1>4. ASSUME NEW q \in Placements, Finish(q) PROVE NotStopped(p)'
  <2>1. q # p
    <3>1. watch[q] = "removing" /\ q \in Watching BY <1>4 DEF Finish, Watching
    <3> QED BY <3>1, CurIsUnwatched DEF Open
  <2> QED BY <1>2, <1>3, <1>4, <2>1 DEF Finish, RemovePlacement
<1>5. ASSUME NEW q \in Placements, Reap(q) PROVE NotStopped(p)'
  BY <1>3, <1>5 DEF Reap, Open
<1>6. CASE ReconcileRemove
  BY <1>2, <1>3, <1>6 DEF ReconcileRemove, RemovePlacement, TypeOK, MainType
<1>7. ASSUME NEW q \in Placements, ExecStop(q) PROVE NotStopped(p)'
  <2>1. q # p BY <1>7 DEF ExecStop, ListInv, NotStopped
  <2> QED BY <1>1, <1>7, <2>1 DEF ExecStop
<1> QED
  BY <1>1, <1>2, <1>4, <1>5, <1>6, <1>7
  DEF Next, ReconcileNext, LoopNext, DrainNext, WatchNext, ExNext, ListMine, Reattach,
    ReconcileFail, ReconcileSkip, ReconcileKill, Reconciled, ReconcileStatus, ReconcileToken, Beat,
    LoopEnds, Answer, BeatLost, OffersDone, Start, Token, Place, PlaceFails, SupervisePlaced, Offer,
    DrainDeadline, Deregister, StopOne, StopReturns, StopsNext, KillLost, Deadline, DeadlineKill,
    TickStops, TickPasses, KillReturns, WatchExit, EndReport, WaitFails, ExecFinish, ExecExit,
    ExecDie, PodDeleted, Boot, Crash, Terminate, ApiStep, MonitorSettles, vars, exVars

LEMMA FailNext ==
  ASSUME Driver = "container", KeepFailed, TypeOK, ReportInv, DeadInv, ListInv, FailInv, [Next]_vars
  PROVE  FailInv'
<1>1. ASSUME main' \in {"token", "place"}, FailedHere(cur)' PROVE FALSE
  <2>1. CASE main \in {"token", "place"} /\ cur' = cur
    <3>1. PICK p \in Placements : p = cur
      BY <2>1 DEF TypeOK, MainType
    <3>2. ex[p] = "none" /\ watch[p] = "idle" BY <2>1, <3>1 DEF ReportInv, NewInv, PlacedInv
    <3>3. FailedHere(p)' /\ Latest(p)' BY <1>1, <2>1, <3>1 DEF FailedHere, Latest, JobsOf
    <3>4. Latest(p) BY <2>1, <3>1, <3>3, LatestWas DEF Ours
    <3>5. ~FailedHere(p) BY <2>1, <3>1 DEF FailInv
    <3>6. CASE ExecFinish(p) \/ Deadline(p) \/ WatchExit(p) \/ WaitFails(p)
      BY <3>2, <3>6 DEF ExecFinish, Deadline, WatchExit, EndReport, WaitFails
    <3>7. CASE PlaceFails \/ ReconcileFail
      BY <1>1, <2>1, <3>7 DEF PlaceFails, ReconcileFail, ClaimReturns
    <3> QED BY <2>1, <3>3, <3>4, <3>5, <3>6, <3>7, FailedBy
  <2>2. CASE Start
    <3>1. JobOf(cur) \in Jobs /\ cur' = <<JobOf(cur), api[JobOf(cur)].attempt>>
          /\ api' = [api EXCEPT ![JobOf(cur)].status = "running", ![JobOf(cur)].mine = TRUE]
      BY <1>1, <2>2 DEF Start, ClaimReturns, TypeOK, MainType, Placements, JobOf
    <3> QED BY <1>1, <3>1 DEF FailedHere, JobsOf, JobOf, TypeOK, ApiType
  <2>3. CASE Token BY <1>1, <2>1, <2>3 DEF Token, ClaimReturns
  <2>4. CASE UNCHANGED <<main, cur>> BY <1>1, <2>1, <2>4
  <2> QED
    BY <1>1, <2>2, <2>3, <2>4
    DEF Next, ReconcileNext, LoopNext, DrainNext, WatchNext, ExNext, ListMine, Reattach,
      ReconcileFail, ReconcileSkip, ReconcileKill, ReconcileRemove, Reconciled, ReconcileStatus,
      ReconcileToken, Beat, LoopEnds, Answer, BeatLost, OffersDone, Place, PlaceFails,
      SupervisePlaced, Offer, DrainDeadline, Deregister, StopOne, StopReturns, StopsNext, KillLost,
      Deadline, DeadlineKill, TickStops, TickPasses, KillReturns, WatchExit, EndReport, WaitFails,
      Finish, ExecFinish, ExecStop, ExecExit, ExecDie, PodDeleted, Reap, Boot, Crash, Terminate,
      ApiStep, MonitorSettles, vars, mainVars, NextListed, ClaimReturns, FreshProcess, recVars,
      restVars
<1>2. ASSUME main' = "supervise" \/ (main' \in {"mint", "decide"} /\ active' /\ cur' \notin sawEnded'),
             FailedHere(cur)'
      PROVE  NotStopped(cur)'
  <2>1. CASE UNCHANGED <<cur, active, sawEnded>> /\ (main' = main \/ ReconcileToken)
    <3>0. main \in {"mint", "decide", "supervise"} BY <1>2, <2>1 DEF ReconcileToken
    <3>1. PICK p \in Placements : p = cur
      BY <3>0 DEF TypeOK, MainType
    <3>2. ex[p] # "none" /\ main \in {"mint", "decide", "supervise"} /\ p \notin Watching
      BY <3>0, <3>1, CurIsUnwatched DEF ReportInv, PlacedInv
    <3>3. FailedHere(p)' /\ Latest(p)' BY <1>2, <2>1, <3>1 DEF FailedHere, Latest, JobsOf
    <3>4. Latest(p) BY <3>2, <3>3, LatestWas DEF Ours
    <3>5. NotStopped(p)'
      <4>1. CASE FailedHere(p)
        <5>1. NotStopped(p) BY <1>2, <2>1, <3>1, <4>1 DEF FailInv, ReconcileToken
        <5> QED BY <3>1, <3>2, <5>1, NotStoppedStays
      <4>2. CASE ~FailedHere(p)
        <5>1. ~Deadline(p) /\ ~WatchExit(p) /\ ~WaitFails(p)
          BY <3>1, <3>2 DEF Deadline, WatchExit, EndReport, WaitFails, Watching
        <5>2. ~ReconcileToken
          BY <3>3, <4>2 DEF ReconcileToken, FailedHere, Latest, JobsOf, apiVars
        <5>3. ~PlaceFails /\ ~ReconcileFail
          BY <2>1, <3>2, <5>2 DEF PlaceFails, ReconcileFail, ClaimReturns
        <5>4. code'[p] = "failed" BY <3>2, <3>3, <3>4, <4>2, <5>1, <5>3, FailedBy
        <5> QED BY <5>4 DEF NotStopped
      <4> QED BY <4>1, <4>2
    <3> QED BY <2>1, <3>1, <3>5 DEF NotStopped
  <2>2. CASE Place
    <3>1. main = "place" /\ cur \in Placements /\ UNCHANGED <<api, cur, boots>>
      BY <2>2 DEF Place, TypeOK, MainType, restVars, apiVars, histVars
    <3>2. FailedHere(cur) BY <1>2, <3>1 DEF FailedHere, Latest, JobsOf
    <3> QED BY <3>1, <3>2 DEF FailInv
  <2>3. ASSUME NEW p \in Placements, ReconcileStatus(p) PROVE NotStopped(cur)'
    <3>1. cur' = p /\ main' \in {"mint", "decide"} /\ api' = api BY <2>3 DEF ReconcileStatus, apiVars
    <3>2. IsActive(api[JobOf(p)].status) BY <1>2, <2>3, <3>1 DEF ReconcileStatus
    <3> QED BY <1>2, <3>1, <3>2 DEF IsActive, FailedHere, JobsOf
  <2> QED
    BY <1>2, <2>1, <2>2, <2>3
    DEF Next, ReconcileNext, LoopNext, DrainNext, WatchNext, ExNext, ListMine, Reattach,
      ReconcileFail, ReconcileSkip, ReconcileKill, ReconcileRemove, Reconciled, ReconcileToken,
      Beat, LoopEnds, Answer, BeatLost, OffersDone, Start, Token, PlaceFails, SupervisePlaced,
      Offer, DrainDeadline, Deregister, StopOne, StopReturns, StopsNext, KillLost, Deadline,
      DeadlineKill, TickStops, TickPasses, KillReturns, WatchExit, EndReport, WaitFails, Finish,
      ExecFinish, ExecStop, ExecExit, ExecDie, PodDeleted, Reap, Boot, Crash, Terminate, ApiStep,
      MonitorSettles, vars, mainVars, NextListed, ClaimReturns, FreshProcess, recVars, restVars
<1>3. ASSUME NEW p \in Placements, Open(p)', FailedHere(p)' PROVE p \in timedOut' \/ NotStopped(p)'
  <2>1. CASE Open(p) /\ (p \in timedOut => p \in timedOut')
    <3>1. p \in Watching /\ ex[p] # "none" /\ watch[p] # "removing"
      BY <2>1 DEF Open, Watching, ReportInv, PlacedInv
    <3>2. Latest(p) BY <1>3, <3>1, LatestWas DEF Ours, FailedHere
    <3>3. CASE FailedHere(p)
      BY <2>1, <3>3, NotStoppedStays DEF FailInv
    <3>4. CASE ~FailedHere(p)
      <4>1. main \notin {"down", "gone"} BY <3>1 DEF ListInv
      <4>2. CASE ExecFinish(p) /\ code'[p] = "failed" BY <4>2 DEF NotStopped
      <4>3. CASE Deadline(p) BY <4>3 DEF Deadline
      <4>4. CASE WatchExit(p) \/ WaitFails(p)
        BY <1>3, <4>4 DEF WatchExit, EndReport, WaitFails, Open, TypeOK, WatchType
      <4>5. CASE PlaceFails /\ cur = p BY <3>1, <4>5 DEF PlaceFails, ReportInv, NewInv
      <4>6. CASE ReconcileFail /\ cur = p BY <3>1, <4>6, CurIsUnwatched DEF ReconcileFail
      <4> QED BY <1>3, <3>2, <3>4, <4>1, <4>2, <4>3, <4>4, <4>5, <4>6, FailedBy
    <3> QED BY <3>3, <3>4
  <2>2. CASE (Reattach \/ SupervisePlaced) /\ p = cur /\ UNCHANGED <<api, code>>
    <3>1. main = "supervise" \/ (main = "decide" /\ active /\ cur \notin sawEnded)
      BY <2>2 DEF Reattach, SupervisePlaced
    <3>2. ex[p] # "none" BY <2>2, <3>1 DEF ReportInv, PlacedInv
    <3>3. FailedHere(p) BY <1>3, <2>2, <3>2, LatestWas DEF Ours, FailedHere, JobsOf
    <3> QED BY <2>2, <3>1, <3>3 DEF FailInv, NotStopped
  <2> QED BY <1>3, <2>1, <2>2, WatchStarts
<1> QED BY <1>1, <1>2, <1>3 DEF FailInv, Open

\* A cancel is the watcher's own finding, or its executor's exit as a stop, and stands till its end.
LEMMA CanceledBy ==
  ASSUME TypeOK, [Next]_vars, NEW p \in Placements, p \in canceled'
  PROVE  \/ /\ p \in canceled
            /\ p \in Watching => p \in Watching'
            /\ watch[p] = "removing" => watch'[p] = "removing"
         \/ TickStops(p)
         \/ \E r \in WaitResults(p) : EndReport(p, r) /\ MarksCanceled(p, r)
<1> DEFINE Stays == /\ p \in Watching => p \in Watching'
                    /\ watch[p] = "removing" => watch'[p] = "removing"
<1>1. ASSUME watch'[p] = watch[p] PROVE Stays BY <1>1 DEF Watching
<1>2. ASSUME NEW q \in Placements, NEW n, Supervise(q, n) PROVE p \in canceled /\ Stays
  <2>1. p # q /\ p \in canceled BY <1>2 DEF Supervise
  <2> QED BY <1>1, <1>2, <2>1 DEF Supervise, TypeOK, WatchType
<1>3. ASSUME NEW q \in Placements, Finish(q) PROVE p \in canceled /\ Stays
  <2>1. p # q /\ p \in canceled BY <1>3 DEF Finish
  <2> QED BY <1>1, <1>3, <2>1 DEF Finish, TypeOK, WatchType
<1>4. ASSUME NEW q \in Placements, NEW x \in {"watch", "deadline", "killing", "removing"}, Open(q),
             watch' = [watch EXCEPT ![q] = x]
      PROVE  Stays
  BY <1>4 DEF Open, Watching, TypeOK, WatchType
<1>5. ASSUME NEW q \in Placements, TickStops(q)
      PROVE  (p \in canceled /\ Stays) \/ q = p
  <2>1. watch' = watch \/ watch' = [watch EXCEPT ![q] = "killing"] BY <1>5 DEF TickStops
  <2>2. Open(q) BY <1>5 DEF TickStops, Open
  <2> QED BY <1>1, <1>4, <1>5, <2>1, <2>2 DEF TickStops
<1>6. ASSUME NEW q \in Placements, NEW r \in WaitResults(q), EndReport(q, r)
      PROVE  (p \in canceled /\ Stays) \/ (q = p /\ MarksCanceled(p, r))
  <2>1. Stays BY <1>4, <1>6 DEF EndReport, Open
  <2>2. p \in canceled \/ (q = p /\ MarksCanceled(q, r)) BY <1>6 DEF EndReport
  <2> QED BY <2>1, <2>2 DEF MarksCanceled
<1>7. ASSUME watch' = watch PROVE Stays BY <1>1, <1>7
<1>8. CASE FreshProcess BY <1>8 DEF FreshProcess
<1>9. main \in {"decide", "supervise"} => cur \in Placements BY DEF TypeOK, MainType
<1>10. (p \in canceled /\ Stays) \/ TickStops(p)
         \/ \E r \in WaitResults(p) : EndReport(p, r) /\ MarksCanceled(p, r)
  BY <1>2, <1>3, <1>4, <1>5, <1>6, <1>7, <1>8, <1>9
  DEF Next, ReconcileNext, LoopNext, DrainNext, WatchNext, ExNext, ListMine, Reattach,
    ReconcileFail, ReconcileSkip, ReconcileKill, ReconcileRemove, Reconciled, ReconcileStatus,
    ReconcileToken, Beat, LoopEnds, Answer, BeatLost, OffersDone, Start, Token, Place, PlaceFails,
    SupervisePlaced, Offer, DrainDeadline, Deregister, StopOne, StopReturns, StopsNext, KillLost,
    Deadline, DeadlineKill, TickPasses, KillReturns, WatchExit, WaitFails, ExecFinish, ExecStop,
    ExecExit, ExecDie, PodDeleted, Reap, Boot, Crash, Terminate, ApiStep, MonitorSettles, vars,
    watchVars, Open
<1> QED BY <1>10

LEMMA CanceledNext ==
  ASSUME Driver = "container", TypeOK, ReportInv, DeadInv, KeepInv, [Next]_vars
  PROVE  CanceledInv'
<1>1. ASSUME NEW p \in canceled', p \notin Watching' PROVE FALSE
  <2>1. p \in Placements BY NextTyped DEF TypeOK, WatchType
  <2>2. CASE TickStops(p) BY <1>1, <2>1, <2>2 DEF TickStops, Watching, TypeOK, WatchType
  <2>3. ASSUME NEW r, EndReport(p, r) PROVE FALSE
    BY <1>1, <2>1, <2>3 DEF EndReport, Watching, TypeOK, WatchType
  <2> QED BY <1>1, <2>1, <2>2, <2>3, CanceledBy DEF KeepInv, CanceledInv
<1>2. ASSUME NEW p \in canceled', Latest(p)'
      PROVE  \/ JobsOf(p)'.status \in {"canceled", "deleted", "completed"}
             \/ JobsOf(p)'.status = "running" /\ watch'[p] = "removing" /\ ex'[p] \in {"exited", "removed"}
  <2>1. p \in Placements /\ JobOf(p) \in Jobs
    BY NextTyped DEF TypeOK, WatchType, JobOf, Placements
  <2>2. CASE p \in canceled /\ (watch[p] = "removing" => watch'[p] = "removing")
    <3>1. p \in Watching /\ ex[p] # "none" BY <2>2 DEF KeepInv, CanceledInv, Watching, ReportInv, PlacedInv
    <3>2. Latest(p) /\ Latest(p)' BY <1>2, <2>1, <3>1, LatestWas DEF Ours
    <3>3. /\ JobsOf(p).status # "pending" => JobsOf(p)'.status # "pending"
          /\ JobsOf(p).status # "pending" /\ JobsOf(p)'.status = "running" => JobsOf(p).status = "running"
      BY <2>1, <3>2, ApiGrows DEF Grows, Latest, JobsOf
    <3>4. JobsOf(p)'.status \in Statuses BY <2>1, NextTyped DEF TypeOK, ApiType, JobsOf
    <3>5. CASE JobsOf(p).status \in {"canceled", "deleted", "completed"}
      <4>1. ~FailedHere(p) /\ JobsOf(p).status # "running" BY <3>5 DEF FailedHere
      <4>2. ~FailedHere(p)' BY <2>1, <3>2, <4>1, FailedBy
      <4> QED BY <3>2, <3>3, <3>4, <3>5, <4>2 DEF FailedHere, Statuses
    <3>6. CASE JobsOf(p).status = "running" /\ watch[p] = "removing" /\ ex[p] \in {"exited", "removed"}
      <4>1. ~FailedHere(p) BY <3>6 DEF FailedHere
      <4>2. main \notin {"down", "gone"} BY <3>1 DEF KeepInv, ListInv
      <4>3. ~ExecFinish(p) /\ ~Deadline(p) /\ ~WatchExit(p) /\ ~WaitFails(p)
        BY <3>6 DEF ExecFinish, Deadline, WatchExit, EndReport, WaitFails
      <4>4. ~(PlaceFails /\ cur = p) BY <3>1 DEF PlaceFails, ReportInv, NewInv
      <4>5. ~(ReconcileFail /\ cur = p) BY <3>1, CurIsUnwatched DEF ReconcileFail, KeepInv
      <4>6. ~FailedHere(p)' BY <2>1, <3>2, <4>1, <4>2, <4>3, <4>4, <4>5, FailedBy
      <4>7. ex'[p] \in {"exited", "removed"} BY <2>1, <3>6, EndedStays
      <4> QED BY <2>2, <3>2, <3>3, <3>4, <3>6, <4>6, <4>7 DEF FailedHere, Statuses
    <3> QED BY <2>2, <3>2, <3>5, <3>6 DEF KeepInv, CanceledInv
  <2>3. CASE TickStops(p)
    BY <2>3 DEF TickStops, JobsOf, apiVars
  <2>4. ASSUME NEW r \in WaitResults(p), EndReport(p, r), MarksCanceled(p, r)
        PROVE  /\ JobsOf(p)'.status \in {"canceled", "deleted", "completed", "running"}
               /\ watch'[p] = "removing" /\ ex'[p] \in {"exited", "removed"}
    <3>1. r = "stopped" /\ p \notin timedOut BY <2>4 DEF MarksCanceled
    <3>2. watch[p] = "watch" /\ watch'[p] = "removing" /\ ex' = ex /\ api' = api
      BY <2>1, <2>4, <3>1 DEF EndReport, NeedsReport, exVars, TypeOK, WatchType
    <3>3. ex[p] \in {"exited", "removed"} /\ code[p] = "stopped"
      <4>1. CASE ex[p] = "exited" BY <2>4, <3>1, <4>1 DEF WaitResults
      <4>2. CASE ex[p] = "removed" BY <2>4, <3>1, <4>2 DEF WaitResults
      <4>3. CASE ex[p] \notin {"exited", "removed"} BY <2>4, <4>3 DEF WaitResults
      <4> QED BY <4>1, <4>2, <4>3
    <3>4. Latest(p) /\ Ours(p) BY <1>2, <2>1, <3>3, LatestWas DEF Ours
    <3>5. ~FailedHere(p) BY <2>1, <3>1, <3>2, <3>3 DEF KeepInv, FailInv, Open, NotStopped
    <3>6. JobsOf(p).status \in Statuses \ {"pending", "failed"}
      BY <2>1, <3>4, <3>5 DEF FailedHere, Latest, ReportInv, OursInv, TypeOK, ApiType, JobsOf
    <3> QED BY <3>2, <3>3, <3>6 DEF Statuses, JobsOf
  <2> QED BY <2>1, <2>2, <2>3, <2>4, CanceledBy
<1> QED BY <1>1, <1>2 DEF CanceledInv

LEMMA KeepInit == Init => KeepInv
<1> SUFFICES ASSUME Init PROVE KeepInv
  OBVIOUS
<1>1. main = "down" /\ Watching = {} /\ canceled = {} BY DEF Init, Watching
<1>2. \A p \in Placements : code[p] = "none" /\ watch[p] = "idle" BY DEF Init
<1> QED BY <1>1, <1>2 DEF KeepInv, ListInv, FailInv, CanceledInv, Reconciling, Open

\* What the end of a supervision leaves of a failed attempt, where no other placement's end can be
\* taken for that attempt's: an attempt that is its job's first, or in the launcher's first life.
OwnFailureIsKept ==
  [][\A p \in Placements :
       /\ watch[p] = "removing" /\ watch'[p] = "done" /\ ex[p] = "exited" /\ KeepFailed
       /\ FailedHere(p) /\ code[p] # "completed" /\ losses' = losses
       => ex'[p] = "exited"]_vars

LEMMA KeepsOwn ==
  ASSUME Driver = "container", TypeOK, KeepInv, [Next]_vars, NEW p \in Placements,
         watch[p] = "removing", watch'[p] = "done", ex[p] = "exited", KeepFailed,
         FailedHere(p), code[p] # "completed", losses' = losses
  PROVE  ex'[p] = "exited"
<1>1. Finish(p) BY EndsBy
<1>2. p \notin canceled BY DEF KeepInv, CanceledInv, FailedHere
<1>3. Kept(p) BY <1>2 DEF Kept
<1>4. ~Lose BY DEF Lose, TypeOK, HistType
<1> QED BY <1>1, <1>3, <1>4 DEF Finish, RemovePlacement

\* On a pool that keeps failed placements, whatever calls of the API or the engine were lost before
\* and however often the launcher restarts, the end of supervision leaves the container of an attempt
\* that failed for inspection, unless its executor had completed or a call of that very Remove failed:
\* a container it cannot inspect it removes (ended, Remove, AC25).
THEOREM OwnKeptCorrect ==
  ASSUME Driver = "container" PROVE Spec => OwnFailureIsKept
<1>1. Init => DeadInv /\ KeepInv BY DeadInit, KeepInit
<1>2. CASE KeepFailed
  <2>1. TypeOK /\ ReportInv /\ DeadInv /\ KeepInv /\ [Next]_vars => DeadInv' /\ KeepInv'
    BY <1>2, DeadNext, ListNext, FailNext, CanceledNext DEF KeepInv
  <2>2. TypeOK /\ KeepInv /\ [Next]_vars =>
          [\A p \in Placements :
             /\ watch[p] = "removing" /\ watch'[p] = "done" /\ ex[p] = "exited" /\ KeepFailed
             /\ FailedHere(p) /\ code[p] # "completed" /\ losses' = losses
             => ex'[p] = "exited"]_vars
    BY KeepsOwn
  <2> QED BY <1>1, <2>1, <2>2, TypeCorrect, ReportCorrect, PTL DEF Spec, OwnFailureIsKept
<1>3. CASE ~KeepFailed
  <2>1. [Next]_vars =>
          [\A p \in Placements :
             /\ watch[p] = "removing" /\ watch'[p] = "done" /\ ex[p] = "exited" /\ KeepFailed
             /\ FailedHere(p) /\ code[p] # "completed" /\ losses' = losses
             => ex'[p] = "exited"]_vars
    BY <1>3
  <2> QED BY <2>1, PTL DEF Spec, OwnFailureIsKept
<1> QED BY <1>2, <1>3

\* The same where no job is retried, or the launcher never restarts, for every attempt there is.
\* Where a job is retried and the launcher restarts, an earlier attempt's kept container fails the
\* later attempt, whose executor then stops as for a cancel and is not kept.
THEOREM KeptCorrect ==
  ASSUME Driver = "container", MaxAttempt = 1 \/ MaxBoots <= 1
  PROVE  Spec => FailureIsKept
<1>1. TypeOK /\ [\A p \in Placements :
             /\ watch[p] = "removing" /\ watch'[p] = "done" /\ ex[p] = "exited" /\ KeepFailed
             /\ FailedHere(p) /\ code[p] # "completed" /\ losses' = losses
             => ex'[p] = "exited"]_vars
        => [\A p \in Placements :
             /\ watch[p] = "removing" /\ watch'[p] = "done" /\ ex[p] = "exited" /\ KeepFailed
             /\ api[JobOf(p)].status = "failed" /\ api[JobOf(p)].attempt = AttemptOf(p)
             /\ code[p] # "completed" /\ losses' = losses
             => ex'[p] = "exited"]_vars
  <2>1. TypeOK => \A p \in Placements : boots <= 1 \/ AttemptOf(p) = 1
    BY LauncherAssumption DEF TypeOK, HistType, Placements, AttemptOf, Attempts
  <2> QED BY <2>1 DEF FailedHere, Latest, JobsOf
<1> QED BY <1>1, OwnKeptCorrect, TypeCorrect, PTL DEF OwnFailureIsKept, FailureIsKept

=============================================================================
