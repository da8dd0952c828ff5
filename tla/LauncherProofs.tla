--------------------------- MODULE LauncherProofs ---------------------------
(***************************************************************************)
(* Theorems about Launcher, for every set of jobs, every capacity, every   *)
(* driver and any number of lives and losses.                              *)
(***************************************************************************)
EXTENDS Launcher, FiniteSetTheorems, TLAPS

-----------------------------------------------------------------------------
(* Types of the helpers the actions are built from. *)

\* A record of a job keeps its type under a settlement.
LEMMA SettleTyped ==
  ASSUME ApiType, NEW j \in Jobs, NEW n, NEW outcome \in Statuses, NEW who \in Settlers,
         Settle(j, n, outcome, who)
  PROVE  ApiType'
<1>1. CASE api' = api BY <1>1 DEF ApiType
<1>2. CASE api' = [api EXCEPT ![j].status = outcome, ![j].by = who]
  <2>1. api[j] \in [status : Statuses, attempt : Attempts, mine : BOOLEAN, by : Settlers]
    BY DEF ApiType
  <2>2. [api[j] EXCEPT !.status = outcome, !.by = who]
          \in [status : Statuses, attempt : Attempts, mine : BOOLEAN, by : Settlers]
    BY <2>1
  <2> QED BY <1>2, <2>2 DEF ApiType
<1> QED BY <1>1, <1>2 DEF Settle

\* A failure report keeps the types of the API's records and of the history.
LEMMA FailWithTyped ==
  ASSUME ApiType, HistType, NEW p \in Placements, NEW n, FailWith(p, n)
  PROVE  ApiType' /\ HistType'
<1> USE LauncherAssumption
<1>1. JobOf(p) \in Jobs BY DEF JobOf, Placements
<1>2. ApiType'
  <2>1. CASE Settle(JobOf(p), n, "failed", "launcher")
    BY <1>1, <2>1, SettleTyped DEF Statuses, Settlers
  <2>2. CASE UNCHANGED api BY <2>2 DEF ApiType
  <2> QED BY <2>1, <2>2 DEF FailWith
<1>3. HistType' BY DEF FailWith, Lose, HistType
<1> QED BY <1>2, <1>3

\* The same for a report made with Run's own context.
LEMMA FailWithRunCtxTyped ==
  ASSUME ApiType, HistType, NEW p \in Placements, NEW n, FailWithRunCtx(p, n)
  PROVE  ApiType' /\ HistType'
<1>1. CASE term BY <1>1 DEF FailWithRunCtx, ApiType, HistType
<1>2. CASE ~term BY <1>2, FailWithTyped DEF FailWithRunCtx
<1> QED BY <1>1, <1>2

\* A placement that is gone, or is told to stop, keeps the types of what the driver holds.
LEMMA GoneTyped ==
  ASSUME ExType, NEW p \in Placements, Gone(p)
  PROVE  /\ ex' \in [Placements -> ExStates] /\ code' \in [Placements -> Codes]
         /\ sig' \in [Placements -> Signals]
BY DEF ExType, Gone, ExStates, Codes, Signals

LEMMA KillTyped ==
  ASSUME ExType, NEW p \in Placements, NEW why \in Signals, Kill(p, why)
  PROVE  sig' \in [Placements -> Signals] /\ killed' \subseteq Placements
BY DEF ExType, Kill, Signals

LEMMA KillLostTyped ==
  ASSUME TypeOK, NEW p \in Placements, KillLost(p)
  PROVE  sig' \in [Placements -> Signals] /\ killed' \subseteq Placements /\ losses' \in 0..MaxLosses
BY LauncherAssumption DEF TypeOK, ExType, HistType, KillLost, Lose

\* Removing a placement keeps the types, whether or not one of its calls failed.
LEMMA RemoveTyped ==
  ASSUME TypeOK, NEW p \in Placements, RemovePlacement(p)
  PROVE  /\ ex' \in [Placements -> ExStates] /\ code' \in [Placements -> Codes]
         /\ sig' \in [Placements -> Signals] /\ losses' \in 0..MaxLosses
<1>1. CASE Gone(p)
  BY <1>1, GoneTyped, LauncherAssumption DEF TypeOK, HistType, RemovePlacement, Lose
<1>2. CASE UNCHANGED <<ex, code, sig>>
  BY <1>2, LauncherAssumption DEF TypeOK, ExType, HistType, RemovePlacement, Lose
<1> QED BY <1>1, <1>2 DEF RemovePlacement

\* A placement taken under supervision keeps the types of what the watchers hold.
LEMMA SuperviseTyped ==
  ASSUME WatchType, NEW p \in Placements, NEW n \in 0..MaxAttempt, Supervise(p, n)
  PROVE  WatchType'
<1>1. JobOf(p) \in Jobs BY DEF JobOf, Placements
<1> QED BY <1>1 DEF WatchType, Supervise, WatchAt

\* A process that has just started, or just died, holds nothing.
LEMMA FreshTyped ==
  ASSUME FreshProcess PROVE WatchType'
BY LauncherAssumption DEF FreshProcess, WatchType, WatchAt

LEMMA FreshMainTyped ==
  ASSUME FreshProcess, NEW m \in {"down", "list", "beat"}, main' = m, apiReady' \in BOOLEAN
  PROVE  MainType'
<1>1. term' \in BOOLEAN /\ claimed' \in BOOLEAN /\ active' \in BOOLEAN
  BY DEF FreshProcess
<1>2. free' \in Int /\ offers' = {} /\ cur' = None /\ todo' = {} /\ sawEnded' = {} /\ tostop' = {}
  BY DEF FreshProcess
<1>3. main' \in MainAt BY DEF MainAt
<1>4. main' \notin {"mint", "decide", "stop", "remove", "start", "token", "place", "supervise"}
  OBVIOUS
<1>5. token' \in 0..MaxAttempt BY LauncherAssumption DEF FreshProcess
<1> QED BY <1>1, <1>2, <1>3, <1>4, <1>5 DEF MainType

\* A turn of reconcile's loop, and a claim that returns, leave the main goroutine well typed.
LEMMA NextListedTyped ==
  ASSUME MainType, NextListed, UNCHANGED restVars PROVE MainType'
<1>1. cur' = None /\ main' = "reconcile" /\ active' \in BOOLEAN /\ UNCHANGED restVars
  BY DEF NextListed
<1>2. token' \in 0..MaxAttempt BY LauncherAssumption DEF NextListed
<1>3. todo' \subseteq Placements /\ sawEnded' \subseteq Placements
  BY DEF NextListed, MainType
<1> QED BY <1>1, <1>2, <1>3 DEF MainType, restVars, MainAt

LEMMA ClaimReturnsTyped ==
  ASSUME MainType, ClaimReturns, UNCHANGED <<restVars, recVars>> PROVE MainType'
<1>1. cur' = None /\ main' = "claim" BY DEF ClaimReturns
<1>2. token' \in 0..MaxAttempt BY LauncherAssumption DEF ClaimReturns
<1> QED BY <1>1, <1>2 DEF MainType, restVars, recVars, MainAt

\* A job that the API gives to this launcher.
LEMMA TakenTyped ==
  ASSUME ApiType, NEW j, api' = [api EXCEPT ![j].status = "running", ![j].mine = TRUE]
  PROVE  ApiType'
<1>1. CASE j \in Jobs
  <2>1. api[j] \in [status : Statuses, attempt : Attempts, mine : BOOLEAN, by : Settlers]
    BY <1>1 DEF ApiType
  <2>2. [api[j] EXCEPT !.status = "running", !.mine = TRUE]
          \in [status : Statuses, attempt : Attempts, mine : BOOLEAN, by : Settlers]
    BY <2>1 DEF Statuses
  <2> QED BY <1>1, <2>2 DEF ApiType
<1>2. CASE j \notin Jobs BY <1>2 DEF ApiType
<1> QED BY <1>1, <1>2

\* The jobs in flight are a finite set, of a natural number of jobs.
LEMMA BusyFinite == IsFiniteSet(Busy) /\ Cardinality(Busy) \in Nat
<1>1. Busy \subseteq Jobs BY DEF Busy
<1> QED BY <1>1, LauncherAssumption, FS_Subset, FS_CardinalityType

-----------------------------------------------------------------------------
(* The type invariant. *)

\* Before the first life nothing is claimed, placed or supervised.
LEMMA InitTyped == Init => TypeOK
<1> SUFFICES ASSUME Init PROVE TypeOK
  OBVIOUS
<1>1. ApiType
  BY LauncherAssumption DEF Init, ApiType, Statuses, Attempts, Settlers
<1>2. MainType
  <2>1. main \in MainAt BY DEF Init, MainAt
  <2>2. main \notin {"mint", "decide", "stop", "remove", "start", "token", "place", "supervise"} BY DEF Init
  <2>3. term \in BOOLEAN /\ apiReady \in BOOLEAN /\ claimed \in BOOLEAN /\ active \in BOOLEAN
    BY DEF Init
  <2>4. free \in Int /\ offers = {} /\ cur = None /\ todo = {} /\ sawEnded = {} /\ tostop = {}
    BY DEF Init
  <2>5. token \in 0..MaxAttempt BY LauncherAssumption DEF Init
  <2> QED BY <2>1, <2>2, <2>3, <2>4, <2>5 DEF MainType
<1>3. WatchType BY LauncherAssumption DEF Init, WatchType, WatchAt
<1>4. ExType BY DEF Init, ExType, ExStates, Codes, Signals
<1>5. HistType BY LauncherAssumption DEF Init, HistType
<1> QED BY <1>1, <1>2, <1>3, <1>4, <1>5 DEF TypeOK

\* Every step keeps the type invariant: one case per action, one step per part it can disturb.
LEMMA NextTyped == TypeOK /\ [Next]_vars => TypeOK'
<1> SUFFICES ASSUME TypeOK, [Next]_vars PROVE TypeOK'
  OBVIOUS
<1> USE LauncherAssumption DEF TypeOK
<1>1. CASE ListMine
  <2>1. MainType'
    BY <1>1 DEF ListMine, Listed, MainType, restVars, MainAt
  <2>2. HistType'
    BY <1>1 DEF ListMine, Listed, HistType
  <2> QED BY <1>1, <2>1, <2>2 DEF ListMine, ApiType, WatchType, ExType, apiVars, watchVars, exVars
<1>2. ASSUME NEW p \in Placements, ReconcileStatus(p) PROVE TypeOK'
  <2>1. MainType'
    <3>1. token' \in 0..MaxAttempt BY <1>2 DEF ReconcileStatus, MainType
    <3>2. active' \in BOOLEAN
      <4>1. IsActive(api[JobOf(p)].status) \in BOOLEAN BY DEF IsActive
      <4>2. active' = IsActive(api[JobOf(p)].status) \/ active' = FALSE BY <1>2 DEF ReconcileStatus
      <4> QED BY <4>1, <4>2
    <3>3. cur' = p /\ main' \in {"mint", "decide"} /\ UNCHANGED <<restVars, todo, sawEnded>>
      BY <1>2 DEF ReconcileStatus
    <3> QED BY <3>1, <3>2, <3>3 DEF MainType, restVars, MainAt
  <2>2. HistType'
    BY <1>2 DEF ReconcileStatus, Lose, HistType
  <2> QED BY <1>2, <2>1, <2>2 DEF ReconcileStatus, ApiType, WatchType, ExType, apiVars, watchVars,
     exVars
<1>44. CASE ReconcileToken
  <2>1. MainType'
    <3>1. cur \in Placements BY <1>44 DEF ReconcileToken, MainType
    <3>2. api[JobOf(cur)].attempt \in 0..MaxAttempt BY <3>1 DEF ApiType, Attempts, JobOf, Placements
    <3>3. token' \in 0..MaxAttempt BY <1>44, <3>2 DEF ReconcileToken
    <3> QED BY <1>44, <3>1, <3>3 DEF ReconcileToken, MainType, restVars, MainAt
  <2>2. HistType'
    BY <1>44 DEF ReconcileToken, Lose, HistType
  <2> QED BY <1>44, <2>1, <2>2 DEF ReconcileToken, ApiType, WatchType, ExType, apiVars, watchVars, exVars
<1>3. CASE Reattach
  <2>1. MainType'
    BY <1>3, NextListedTyped DEF Reattach
  <2>2. WatchType'
    BY <1>3, SuperviseTyped DEF Reattach, MainType
  <2> QED BY <1>3, <2>1, <2>2 DEF Reattach, ApiType, ExType, HistType, apiVars, exVars, histVars
<1>4. CASE ReconcileFail
  <2>1. ApiType'
    BY <1>4, FailWithRunCtxTyped DEF ReconcileFail, MainType
  <2>2. MainType'
    BY <1>4 DEF ReconcileFail, MainType, restVars, MainAt
  <2>3. HistType'
    BY <1>4, FailWithRunCtxTyped DEF ReconcileFail, MainType
  <2> QED BY <1>4, <2>1, <2>2, <2>3 DEF ReconcileFail, WatchType, ExType, watchVars, exVars
<1>5. CASE ReconcileSkip
  <2>1. MainType'
    BY <1>5 DEF ReconcileSkip, MainType, restVars, MainAt
  <2> QED BY <1>5, <2>1 DEF ReconcileSkip, ApiType, WatchType, ExType, HistType, apiVars, watchVars,
     exVars, histVars
<1>6. CASE ReconcileKill
  <2>1. MainType'
    BY <1>6 DEF ReconcileKill, MainType, restVars, MainAt
  <2>2. ExType'
    BY <1>6, KillTyped, KillLostTyped DEF ReconcileKill, ExType, MainType, Signals
  <2>3. HistType'
    BY <1>6, KillLostTyped DEF ReconcileKill, HistType, MainType
  <2> QED BY <1>6, <2>1, <2>2, <2>3 DEF ReconcileKill, ApiType, WatchType, apiVars, watchVars
<1>7. CASE ReconcileRemove
  <2>1. MainType'
    BY <1>7, NextListedTyped DEF ReconcileRemove
  <2>2. ExType'
    BY <1>7, RemoveTyped DEF ReconcileRemove, ExType, MainType
  <2>3. HistType'
    BY <1>7, RemoveTyped DEF ReconcileRemove, HistType, MainType
  <2> QED BY <1>7, <2>1, <2>2, <2>3 DEF ReconcileRemove, ApiType, WatchType, apiVars, watchVars
<1>8. CASE Reconciled
  <2>1. MainType'
    BY <1>8 DEF Reconciled, MainType, restVars, MainAt
  <2> QED BY <1>8, <2>1 DEF Reconciled, ApiType, WatchType, ExType, HistType, apiVars, watchVars,
     exVars, histVars
<1>9. CASE Beat
  <2>1. MainType'
    BY <1>9, BusyFinite DEF Beat, MainType, recVars, MainAt
  <2> QED BY <1>9, <2>1 DEF Beat, ApiType, WatchType, ExType, HistType, apiVars, watchVars, exVars,
     histVars
<1>10. CASE LoopEnds
  <2>1. MainType'
    BY <1>10 DEF LoopEnds, MainType, recVars, MainAt
  <2> QED BY <1>10, <2>1 DEF LoopEnds, ApiType, WatchType, ExType, HistType, apiVars, watchVars,
     exVars, histVars
<1>11. CASE Answer
  <2>1. MainType'
    BY <1>11 DEF Answer, MainType, recVars, MainAt
  <2> QED BY <1>11, <2>1 DEF Answer, ApiType, WatchType, ExType, HistType, apiVars, watchVars, exVars,
     histVars
<1>12. CASE BeatLost
  <2>1. MainType'
    BY <1>12 DEF BeatLost, MainType, recVars, MainAt
  <2> QED BY <1>12, <2>1 DEF BeatLost, ApiType, WatchType, ExType, HistType, apiVars, watchVars,
     exVars, histVars
<1>13. CASE OffersDone
  <2>1. MainType'
    BY <1>13 DEF OffersDone, MainType, recVars, MainAt
  <2> QED BY <1>13, <2>1 DEF OffersDone, ApiType, WatchType, ExType, HistType, apiVars, watchVars,
     exVars, histVars
<1>14. ASSUME NEW j \in Jobs, Offer(j) PROVE TypeOK'
  <2>1. MainType'
    BY <1>14 DEF Offer, Offered, ApiType, Placements, MainType, recVars, MainAt
  <2> QED BY <1>14, <2>1 DEF Offer, ApiType, WatchType, ExType, HistType, apiVars, watchVars, exVars,
     histVars
<1>15. CASE Start
  <2>1. ApiType'
    <3>1. CASE UNCHANGED api BY <3>1 DEF ApiType
    <3>2. CASE api' = [api EXCEPT ![JobOf(cur)].status = "running", ![JobOf(cur)].mine = TRUE]
      BY <3>2, TakenTyped
    <3> QED BY <1>15, <3>1, <3>2 DEF Start
  <2>2. MainType'
    <3>1. CASE ClaimReturns
      BY <1>15, <3>1, ClaimReturnsTyped DEF Start
    <3>2. CASE /\ cur' = <<JobOf(cur), api[JobOf(cur)].attempt>> /\ main' = "token"
               /\ UNCHANGED <<token, restVars, recVars>>
      <4>1. cur \in Placements BY <1>15 DEF Start, MainType
      <4>2. cur' \in Placements
        BY <3>2, <4>1 DEF ApiType, Placements, JobOf
      <4> QED BY <3>2, <4>2 DEF MainType, restVars, recVars, MainAt
    <3> QED BY <1>15, <3>1, <3>2 DEF Start
  <2>3. HistType'
    <3>1. cur \in Placements BY <1>15 DEF Start, MainType
    <3>2. <<JobOf(cur), api[JobOf(cur)].attempt>> \in Placements
      BY <3>1 DEF ApiType, Placements, JobOf
    <3> QED BY <1>15, <3>2 DEF Start, Lose, HistType
  <2> QED BY <1>15, <2>1, <2>2, <2>3 DEF Start, WatchType, ExType, watchVars, exVars
<1>16. CASE Token
  <2>1. MainType'
    <3>1. CASE ClaimReturns
      BY <1>16, <3>1, ClaimReturnsTyped DEF Token
    <3>2. CASE /\ token' = AttemptOf(cur) /\ main' = "place"
               /\ UNCHANGED <<cur, restVars, recVars>>
      <4>1. cur \in Placements BY <1>16 DEF Token, MainType
      <4>2. token' \in 0..MaxAttempt
        BY <3>2, <4>1 DEF Placements, Attempts, AttemptOf
      <4> QED BY <3>2, <4>1, <4>2 DEF MainType, restVars, recVars, MainAt
    <3> QED BY <1>16, <3>1, <3>2 DEF Token
  <2>2. HistType'
    <3>1. cur \in Placements BY <1>16 DEF Token, MainType
    <3> QED BY <1>16, <3>1 DEF Token, Lose, HistType
  <2> QED BY <1>16, <2>1, <2>2 DEF Token, ApiType, WatchType, ExType, apiVars, watchVars, exVars
<1>17. CASE Place
  <2>1. MainType'
    BY <1>17 DEF Place, MainType, restVars, recVars, MainAt
  <2>2. ExType'
    BY <1>17 DEF Place, ExType, ExStates, Codes, Signals
  <2> QED BY <1>17, <2>1, <2>2 DEF Place, ApiType, WatchType, HistType, apiVars, watchVars, histVars
<1>18. CASE PlaceFails
  <2>1. ApiType'
    BY <1>18, FailWithRunCtxTyped DEF PlaceFails, MainType
  <2>2. MainType'
    BY <1>18, ClaimReturnsTyped DEF PlaceFails
  <2>3. HistType'
    BY <1>18, FailWithRunCtxTyped DEF PlaceFails, MainType
  <2> QED BY <1>18, <2>1, <2>2, <2>3 DEF PlaceFails, WatchType, ExType, watchVars, exVars
<1>19. CASE SupervisePlaced
  <2>1. MainType'
    <3>1. free' \in Int /\ claimed' \in BOOLEAN
      <4>1. free' \in Int BY <1>19 DEF SupervisePlaced, RoomLeft, MainType
      <4>2. claimed' \in BOOLEAN BY <1>19, LauncherAssumption DEF SupervisePlaced
      <4> QED BY <4>1, <4>2
    <3>2. main' = "claim" /\ cur' = None /\ token' = 0
          /\ UNCHANGED <<term, apiReady, offers, tostop, recVars>>
      BY <1>19 DEF SupervisePlaced, ClaimReturns
    <3>3. token' \in 0..MaxAttempt BY <3>2
    <3> QED BY <3>1, <3>2, <3>3 DEF MainType, recVars, MainAt
  <2>2. WatchType'
    BY <1>19, SuperviseTyped DEF SupervisePlaced, MainType
  <2> QED BY <1>19, <2>1, <2>2 DEF SupervisePlaced, ApiType, ExType, HistType, apiVars, exVars, histVars
<1>20. CASE DrainDeadline
  <2>1. MainType'
    BY <1>20 DEF DrainDeadline, Busy, WatchType, MainType, recVars, MainAt
  <2> QED BY <1>20, <2>1 DEF DrainDeadline, ApiType, WatchType, ExType, HistType, apiVars, watchVars,
     exVars, histVars
<1>21. ASSUME NEW p \in Placements, StopOne(p) PROVE TypeOK'
  <2>1. ExType'
    BY <1>21, KillTyped, KillLostTyped DEF StopOne, ExType, Signals
  <2>2. MainType'
    BY <1>21 DEF StopOne, StopsNext, MainType, recVars, MainAt
  <2>3. HistType'
    BY <1>21, KillLostTyped DEF StopOne, HistType
  <2> QED BY <1>21, <2>1, <2>2, <2>3 DEF StopOne, ApiType, WatchType, apiVars, watchVars
<1>22. ASSUME NEW p \in Placements, StopReturns(p) PROVE TypeOK'
  <2>1. MainType'
    BY <1>22 DEF StopReturns, StopsNext, MainType, recVars, MainAt
  <2> QED BY <1>22, <2>1 DEF StopReturns, ApiType, WatchType, ExType, HistType, apiVars, watchVars,
     exVars, histVars
<1>23. CASE Deregister
  <2>1. MainType'
    BY <1>23 DEF Deregister, MainType, recVars, MainAt
  <2> QED BY <1>23, <2>1 DEF Deregister, ApiType, WatchType, ExType, HistType, apiVars, watchVars,
     exVars, histVars
<1>24. CASE Boot
  <2>1. ApiType'
    BY <1>24 DEF Boot, ApiType, Statuses, Settlers, Attempts
  <2>2. MainType'
    BY <1>24, FreshMainTyped DEF Boot
  <2>3. WatchType'
    BY <1>24, FreshTyped DEF Boot
  <2>4. ExType'
    BY <1>24 DEF Boot, FreshProcess, ExType
  <2>5. HistType'
    BY <1>24 DEF Boot, HistType
  <2> QED BY <1>24, <2>1, <2>2, <2>3, <2>4, <2>5
<1>25. CASE Crash
  <2>1. ApiType'
    BY <1>25 DEF Crash, ApiType, Statuses, Settlers, Attempts
  <2>2. MainType'
    BY <1>25, FreshMainTyped DEF Crash
  <2>3. WatchType'
    BY <1>25, FreshTyped DEF Crash
  <2>4. ExType'
    <3>1. ex' \in [Placements -> ExStates] BY <1>25 DEF Crash, ExType, ExStates
    <3> QED BY <1>25, <3>1 DEF Crash, FreshProcess, ExType
  <2>5. HistType'
    BY <1>25 DEF Crash, HistType, MainType
  <2> QED BY <1>25, <2>1, <2>2, <2>3, <2>4, <2>5
<1>26. CASE Terminate
  <2>1. MainType'
    BY <1>26 DEF Terminate, MainType, MainAt
  <2> QED BY <1>26, <2>1 DEF Terminate, ApiType, WatchType, ExType, HistType, apiVars, watchVars,
     exVars, histVars
<1>27. ASSUME NEW p \in Placements, Deadline(p) PROVE TypeOK'
  <2>1. ApiType'
    BY <1>27, FailWithTyped DEF Deadline
  <2>2. WatchType'
    BY <1>27 DEF Deadline, WatchType, WatchAt
  <2>3. HistType'
    BY <1>27, FailWithTyped DEF Deadline
  <2> QED BY <1>27, <2>1, <2>2, <2>3 DEF Deadline, MainType, ExType, mainVars, exVars
<1>28. ASSUME NEW p \in Placements, DeadlineKill(p) PROVE TypeOK'
  <2>1. WatchType'
    BY <1>28 DEF DeadlineKill, WatchType, WatchAt
  <2>2. ExType'
    BY <1>28, KillTyped, KillLostTyped DEF DeadlineKill, ExType, Signals
  <2>3. HistType'
    BY <1>28, KillLostTyped DEF DeadlineKill, HistType
  <2> QED BY <1>28, <2>1, <2>2, <2>3 DEF DeadlineKill, ApiType, MainType, apiVars, mainVars
<1>29. ASSUME NEW p \in Placements, TickStops(p) PROVE TypeOK'
  <2>1. WatchType'
    BY <1>29 DEF TickStops, WatchType, WatchAt
  <2>2. ExType'
    BY <1>29, KillTyped, KillLostTyped DEF TickStops, ExType, Signals
  <2>3. HistType'
    BY <1>29, KillLostTyped DEF TickStops, HistType
  <2> QED BY <1>29, <2>1, <2>2, <2>3 DEF TickStops, ApiType, MainType, apiVars, mainVars
<1>30. ASSUME NEW p \in Placements, TickPasses(p) PROVE TypeOK'
  <2>1. WatchType'
    BY <1>30 DEF TickPasses, WatchType, WatchAt
  <2>2. HistType'
    BY <1>30 DEF TickPasses, Lose, HistType
  <2> QED BY <1>30, <2>1, <2>2 DEF TickPasses, ApiType, MainType, ExType, apiVars, mainVars, exVars
<1>31. ASSUME NEW p \in Placements, KillReturns(p) PROVE TypeOK'
  <2>1. WatchType'
    BY <1>31 DEF KillReturns, WatchType, WatchAt
  <2> QED BY <1>31, <2>1 DEF KillReturns, ApiType, MainType, ExType, HistType, apiVars, mainVars,
     exVars, histVars
<1>32. ASSUME NEW p \in Placements, WatchExit(p) PROVE TypeOK'
  <2>1. ApiType'
    BY <1>32, FailWithTyped DEF WatchExit, EndReport, ApiType
  <2>2. WatchType'
    BY <1>32 DEF WatchExit, EndReport, WatchType, WatchAt
  <2>3. HistType'
    BY <1>32, FailWithTyped DEF WatchExit, EndReport, HistType
  <2> QED BY <1>32, <2>1, <2>2, <2>3 DEF WatchExit, EndReport, MainType, ExType, mainVars, exVars
<1>33. ASSUME NEW p \in Placements, WaitFails(p) PROVE TypeOK'
  <2>1. ApiType'
    <3>1. JobOf(p) \in Jobs BY DEF JobOf, Placements
    <3> QED BY <1>33, <3>1, SettleTyped DEF WaitFails, Statuses, Settlers
  <2>2. WatchType'
    BY <1>33 DEF WaitFails, WatchType, WatchAt
  <2>3. HistType'
    BY <1>33 DEF WaitFails, HistType
  <2> QED BY <1>33, <2>1, <2>2, <2>3 DEF WaitFails, MainType, ExType, mainVars, exVars
<1>34. ASSUME NEW p \in Placements, Finish(p) PROVE TypeOK'
  <2>1. WatchType'
    BY <1>34 DEF Finish, WatchType, WatchAt, JobOf, Placements
  <2>2. ExType'
    BY <1>34, RemoveTyped DEF Finish, ExType
  <2>3. HistType'
    BY <1>34, RemoveTyped DEF Finish, HistType
  <2> QED BY <1>34, <2>1, <2>2, <2>3 DEF Finish, ApiType, MainType, apiVars, mainVars
<1>35. ASSUME NEW p \in Placements, ExecFinish(p) PROVE TypeOK'
  <2>1. ApiType'
    <3>1. JobOf(p) \in Jobs BY DEF JobOf, Placements
    <3>2. CASE UNCHANGED api BY <3>2 DEF ApiType
    <3>3. ASSUME NEW o \in {"completed", "failed"}, Settle(JobOf(p), AttemptOf(p), o, "executor")
          PROVE  ApiType'
      BY <3>1, <3>3, SettleTyped DEF Statuses, Settlers
    <3> QED BY <1>35, <3>2, <3>3 DEF ExecFinish
  <2>2. ExType'
    BY <1>35 DEF ExecFinish, ExType, ExStates, Codes, Signals
  <2>3. HistType'
    BY <1>35 DEF ExecFinish, Lose, HistType
  <2> QED BY <1>35, <2>1, <2>2, <2>3 DEF ExecFinish, MainType, WatchType, mainVars, watchVars
<1>36. ASSUME NEW p \in Placements, ExecStop(p) PROVE TypeOK'
  <2>1. ApiType'
    <3>1. JobOf(p) \in Jobs BY DEF JobOf, Placements
    <3>2. CASE UNCHANGED api BY <3>2 DEF ApiType
    <3>3. CASE Settle(JobOf(p), AttemptOf(p), "canceled", "executor")
      BY <3>1, <3>3, SettleTyped DEF Statuses, Settlers
    <3> QED BY <1>36, <3>2, <3>3 DEF ExecStop
  <2>2. ExType'
    BY <1>36 DEF ExecStop, ExType, ExStates, Codes, Signals
  <2>3. HistType'
    BY <1>36 DEF ExecStop, Lose, HistType
  <2> QED BY <1>36, <2>1, <2>2, <2>3 DEF ExecStop, MainType, WatchType, mainVars, watchVars
<1>37. ASSUME NEW p \in Placements, ExecExit(p) PROVE TypeOK'
  <2>1. ExType'
    BY <1>37 DEF ExecExit, ExType, ExStates, Codes, Signals
  <2> QED BY <1>37, <2>1 DEF ExecExit, ApiType, MainType, WatchType, HistType, apiVars, mainVars,
     watchVars, histVars
<1>38. ASSUME NEW p \in Placements, ExecDie(p) PROVE TypeOK'
  <2>1. ExType'
    BY <1>38 DEF ExecDie, ExType, ExStates, Codes, Signals
  <2> QED BY <1>38, <2>1 DEF ExecDie, ApiType, MainType, WatchType, HistType, apiVars, mainVars,
     watchVars, histVars
<1>39. ASSUME NEW p \in Placements, PodDeleted(p) PROVE TypeOK'
  <2>1. ExType'
    BY <1>39, GoneTyped DEF PodDeleted, ExType
  <2> QED BY <1>39, <2>1 DEF PodDeleted, ApiType, MainType, WatchType, HistType, apiVars, mainVars,
     watchVars, histVars
<1>40. ASSUME NEW p \in Placements, Reap(p) PROVE TypeOK'
  <2>1. ExType'
    BY <1>40, GoneTyped DEF Reap, ExType
  <2> QED BY <1>40, <2>1 DEF Reap, ApiType, MainType, WatchType, HistType, apiVars, mainVars,
     watchVars, histVars
<1>41. ASSUME NEW j \in Jobs, ApiStep(j) PROVE TypeOK'
  <2>1. ApiType'
    <3>1. api[j] \in [status : Statuses, attempt : Attempts, mine : BOOLEAN, by : Settlers]
      BY DEF ApiType
    <3>2. CASE \E s \in {"canceled", "deleted"} : api' = [api EXCEPT ![j].status = s, ![j].by = "user"]
      <4>1. PICK s \in {"canceled", "deleted"} :
              api' = [api EXCEPT ![j].status = s, ![j].by = "user"]
        BY <3>2
      <4>2. [api[j] EXCEPT !.status = s, !.by = "user"]
              \in [status : Statuses, attempt : Attempts, mine : BOOLEAN, by : Settlers]
        BY <3>1 DEF Statuses, Settlers
      <4> QED BY <4>1, <4>2 DEF ApiType
    <3>3. CASE /\ api[j].attempt < MaxAttempt
               /\ api' = [api EXCEPT ![j] = [status |-> "pending", attempt |-> api[j].attempt + 1,
                                             mine |-> FALSE, by |-> "none"]]
      <4>1. api[j].attempt + 1 \in Attempts BY <3>1, <3>3 DEF Attempts
      <4>2. [status |-> "pending", attempt |-> api[j].attempt + 1, mine |-> FALSE, by |-> "none"]
              \in [status : Statuses, attempt : Attempts, mine : BOOLEAN, by : Settlers]
        BY <4>1 DEF Statuses, Settlers
      <4> QED BY <3>3, <4>2 DEF ApiType
    <3>4. CASE api' = [api EXCEPT ![j].status = "running"]
      <4>1. [api[j] EXCEPT !.status = "running"]
              \in [status : Statuses, attempt : Attempts, mine : BOOLEAN, by : Settlers]
        BY <3>1 DEF Statuses
      <4> QED BY <3>4, <4>1 DEF ApiType
    <3> QED BY <1>41, <3>2, <3>3, <3>4 DEF ApiStep
  <2> QED BY <1>41, <2>1 DEF ApiStep, MainType, WatchType, ExType, HistType, mainVars, watchVars,
     exVars, histVars
<1>42. ASSUME NEW j \in Jobs, MonitorSettles(j) PROVE TypeOK'
  <2>1. ApiType'
    BY <1>42 DEF MonitorSettles, ApiType, Statuses, Settlers
  <2> QED BY <1>42, <2>1 DEF MonitorSettles, MainType, WatchType, ExType, HistType, mainVars,
     watchVars, exVars, histVars
<1>43. CASE UNCHANGED vars
  BY <1>43 DEF vars, apiVars, mainVars, watchVars, exVars, histVars,
     ApiType, MainType, WatchType, ExType, HistType
<1> QED
  BY <1>1, <1>2, <1>3, <1>4, <1>5, <1>6, <1>7, <1>8, <1>9, <1>10, <1>11, <1>12, <1>13, <1>14, <1>15,
     <1>16, <1>17, <1>18, <1>19, <1>20, <1>21, <1>22, <1>23, <1>24, <1>25, <1>26, <1>27, <1>28, <1>29,
        <1>30, <1>31, <1>32, <1>33, <1>34, <1>35, <1>36, <1>37, <1>38, <1>39, <1>40, <1>41, <1>42, <1>43,
        <1>44
  DEF Next, ReconcileNext, LoopNext, DrainNext, WatchNext, ExNext

\* Type correctness of the launcher, the drivers and the API's records.
THEOREM TypeCorrect == Spec => []TypeOK
<1>1. Init => TypeOK BY InitTyped
<1>2. TypeOK /\ [Next]_vars => TypeOK' BY NextTyped
<1> QED BY <1>1, <1>2, PTL DEF Spec

-----------------------------------------------------------------------------
(* Capacity. *)

\* What a claim in progress has found: room, and no earlier attempt of its job in flight.
ClaimHasRoom == InClaim => free > 0 /\ JobOf(cur) \notin Busy

CapacityInv == RoomIsReal /\ ClaimHasRoom

\* Where the main goroutine must be for CapacityInv to say anything.
Claiming == main \in {"poll", "claim"} \/ InClaim

\* Steps that touch neither the main goroutine's claim nor what is in flight.
LEMMA CapacityQuiet ==
  ASSUME CapacityInv, UNCHANGED <<main, free, cur, inflight>>
  PROVE  CapacityInv'
BY DEF CapacityInv, RoomIsReal, ClaimHasRoom, InClaim, Busy

\* Steps that end with the main goroutine away from the claims.
LEMMA CapacityAway ==
  ASSUME ~Claiming' PROVE CapacityInv'
BY DEF Claiming, CapacityInv, RoomIsReal, ClaimHasRoom, InClaim

\* Steps that return from a claim, or turn to it, with what is free and in flight unchanged.
LEMMA CapacityReturn ==
  ASSUME CapacityInv, Claiming, main' = "claim", UNCHANGED <<free, inflight>>
  PROVE  CapacityInv'
BY DEF Claiming, CapacityInv, RoomIsReal, ClaimHasRoom, InClaim, Busy

LEMMA CapacityNext == TypeOK /\ CapacityInv /\ [Next]_vars => CapacityInv'
<1> SUFFICES ASSUME TypeOK, CapacityInv, [Next]_vars PROVE CapacityInv'
  OBVIOUS
<1>1. ASSUME NEW p \in Placements, Deadline(p) PROVE CapacityInv'
  BY <1>1, CapacityQuiet DEF Deadline, mainVars
<1>2. ASSUME NEW p \in Placements, DeadlineKill(p) PROVE CapacityInv'
  BY <1>2, CapacityQuiet DEF DeadlineKill, mainVars
<1>3. ASSUME NEW p \in Placements, TickStops(p) PROVE CapacityInv'
  BY <1>3, CapacityQuiet DEF TickStops, mainVars
<1>4. ASSUME NEW p \in Placements, TickPasses(p) PROVE CapacityInv'
  BY <1>4, CapacityQuiet DEF TickPasses, mainVars
<1>5. ASSUME NEW p \in Placements, KillReturns(p) PROVE CapacityInv'
  BY <1>5, CapacityQuiet DEF KillReturns, mainVars
<1>6. ASSUME NEW p \in Placements, WatchExit(p) PROVE CapacityInv'
  BY <1>6, CapacityQuiet DEF WatchExit, EndReport, mainVars
<1>7. ASSUME NEW p \in Placements, WaitFails(p) PROVE CapacityInv'
  BY <1>7, CapacityQuiet DEF WaitFails, mainVars
<1>8. ASSUME NEW p \in Placements, ExecFinish(p) PROVE CapacityInv'
  BY <1>8, CapacityQuiet DEF ExecFinish, mainVars, watchVars
<1>9. ASSUME NEW p \in Placements, ExecStop(p) PROVE CapacityInv'
  BY <1>9, CapacityQuiet DEF ExecStop, mainVars, watchVars
<1>10. ASSUME NEW p \in Placements, ExecExit(p) PROVE CapacityInv'
  BY <1>10, CapacityQuiet DEF ExecExit, mainVars, watchVars
<1>11. ASSUME NEW p \in Placements, ExecDie(p) PROVE CapacityInv'
  BY <1>11, CapacityQuiet DEF ExecDie, mainVars, watchVars
<1>12. ASSUME NEW p \in Placements, PodDeleted(p) PROVE CapacityInv'
  BY <1>12, CapacityQuiet DEF PodDeleted, mainVars, watchVars
<1>13. ASSUME NEW p \in Placements, Reap(p) PROVE CapacityInv'
  BY <1>13, CapacityQuiet DEF Reap, mainVars, watchVars
<1>14. ASSUME NEW p \in Placements, StopOne(p) PROVE CapacityInv'
  BY <1>14, CapacityAway DEF StopOne, StopsNext, Claiming, InClaim
<1>15. ASSUME NEW j \in Jobs, ApiStep(j) PROVE CapacityInv'
  BY <1>15, CapacityQuiet DEF ApiStep, mainVars, watchVars
<1>16. ASSUME NEW j \in Jobs, MonitorSettles(j) PROVE CapacityInv'
  BY <1>16, CapacityQuiet DEF MonitorSettles, mainVars, watchVars
<1>17. CASE ListMine
  BY <1>17, CapacityAway DEF ListMine, Claiming, InClaim
<1>18. ASSUME NEW p \in Placements, ReconcileStatus(p) PROVE CapacityInv'
  BY <1>18, CapacityAway DEF ReconcileStatus, Claiming, InClaim
<1>44. CASE ReconcileToken
  BY <1>44, CapacityAway DEF ReconcileToken, Claiming, InClaim
<1>19. CASE Reattach
  BY <1>19, CapacityAway DEF Reattach, NextListed, Claiming, InClaim
<1>20. CASE ReconcileFail
  BY <1>20, CapacityAway DEF ReconcileFail, Claiming, InClaim
<1>21. CASE ReconcileSkip
  BY <1>21, CapacityAway DEF ReconcileSkip, Claiming, InClaim
<1>22. CASE ReconcileKill
  BY <1>22, CapacityAway DEF ReconcileKill, Claiming, InClaim
<1>23. CASE ReconcileRemove
  BY <1>23, CapacityAway DEF ReconcileRemove, NextListed, Claiming, InClaim
<1>24. CASE Reconciled
  BY <1>24, CapacityAway DEF Reconciled, Claiming, InClaim
<1>25. CASE LoopEnds
  BY <1>25, CapacityAway DEF LoopEnds, Claiming, InClaim
<1>26. CASE BeatLost
  BY <1>26, CapacityAway DEF BeatLost, Claiming, InClaim
<1>27. CASE OffersDone
  BY <1>27, CapacityAway DEF OffersDone, Claiming, InClaim
<1>28. CASE DrainDeadline
  BY <1>28, CapacityAway DEF DrainDeadline, Claiming, InClaim
<1>29. ASSUME NEW p \in Placements, StopReturns(p) PROVE CapacityInv'
  BY <1>29, CapacityAway DEF StopReturns, StopsNext, Claiming, InClaim
<1>30. CASE Deregister
  BY <1>30, CapacityAway DEF Deregister, Claiming, InClaim
<1>31. CASE Boot
  BY <1>31, CapacityAway DEF Boot, Claiming, InClaim
<1>32. CASE Crash
  BY <1>32, CapacityAway DEF Crash, Claiming, InClaim
<1>33. CASE Terminate
  BY <1>33, CapacityQuiet DEF Terminate, watchVars
<1>34. CASE PlaceFails
  BY <1>34, CapacityReturn DEF PlaceFails, ClaimReturns, Claiming, InClaim, restVars, watchVars
<1>35. CASE Answer
  <2>1. CASE main' = "claim"
    BY <1>35, <2>1, CapacityReturn DEF Answer, Claiming, watchVars
  <2>2. CASE main' = "drain"
    BY <2>2, CapacityAway DEF Claiming, InClaim
  <2> QED BY <1>35, <2>1, <2>2 DEF Answer
<1>36. CASE Beat
  <2>1. Busy' = Busy BY <1>36 DEF Beat, Busy, watchVars
  <2>2. main' = "poll" BY <1>36 DEF Beat
  <2>3. free' <= 0 \/ free' <= Capacity - Cardinality(Busy)
    BY <1>36, BusyFinite, LauncherAssumption DEF Beat
  <2>4. free' \in Int
    BY <1>36, BusyFinite, LauncherAssumption DEF Beat
  <2> QED BY <2>1, <2>2, <2>3, <2>4, BusyFinite, LauncherAssumption
          DEF CapacityInv, RoomIsReal, ClaimHasRoom, InClaim
<1>37. ASSUME NEW j \in Jobs, Offer(j) PROVE CapacityInv'
  <2>1. Busy' = Busy /\ free' = free /\ free > 0 /\ main = "claim"
    BY <1>37 DEF Offer, HasRoom, Busy, watchVars
  <2>2. CASE j \in Busy
    BY <1>37, <2>2, CapacityQuiet DEF Offer, AlreadyHere, watchVars
  <2>3. CASE j \notin Busy
    <3>1. JobOf(cur') = j BY <1>37, <2>3 DEF Offer, AlreadyHere, Offered, JobOf
    <3> QED BY <2>1, <2>3, <3>1 DEF CapacityInv, RoomIsReal, ClaimHasRoom, InClaim
  <2> QED BY <2>2, <2>3
<1>38. CASE Start
  <2>1. CASE ClaimReturns
    BY <1>38, <2>1, CapacityReturn DEF Start, ClaimReturns, Claiming, InClaim, restVars, watchVars
  <2>2. CASE cur' = <<JobOf(cur), api[JobOf(cur)].attempt>> /\ main' = "token"
    <3>1. JobOf(cur') = JobOf(cur) BY <2>2 DEF JobOf
    <3>2. Busy' = Busy /\ free' = free /\ main = "start"
      BY <1>38 DEF Start, Busy, restVars, watchVars
    <3> QED BY <2>2, <3>1, <3>2 DEF CapacityInv, RoomIsReal, ClaimHasRoom, InClaim
  <2> QED BY <1>38, <2>1, <2>2 DEF Start
<1>39. CASE Token
  <2>1. CASE ClaimReturns
    BY <1>39, <2>1, CapacityReturn DEF Token, ClaimReturns, Claiming, InClaim, restVars, watchVars
  <2>2. CASE main' = "place" /\ UNCHANGED cur
    <3>1. Busy' = Busy /\ free' = free /\ main = "token"
      BY <1>39 DEF Token, Busy, restVars, watchVars
    <3> QED BY <2>2, <3>1 DEF CapacityInv, RoomIsReal, ClaimHasRoom, InClaim
  <2> QED BY <1>39, <2>1, <2>2 DEF Token
<1>40. CASE Place
  <2>1. Busy' = Busy /\ free' = free /\ cur' = cur /\ main = "place" /\ main' = "supervise"
    BY <1>40 DEF Place, Busy, restVars, watchVars
  <2> QED BY <2>1 DEF CapacityInv, RoomIsReal, ClaimHasRoom, InClaim
<1>41. CASE SupervisePlaced
  <2>1. cur \in Placements /\ JobOf(cur) \in Jobs
    BY <1>41 DEF SupervisePlaced, TypeOK, MainType, Placements, JobOf
  <2>2. cur # None BY <2>1, LauncherAssumption
  <2>3. Busy' = Busy \cup {JobOf(cur)}
    BY <1>41, <2>1, <2>2 DEF SupervisePlaced, Supervise, Busy, TypeOK, WatchType
  <2>4. free > 0 /\ JobOf(cur) \notin Busy
    BY <1>41 DEF SupervisePlaced, CapacityInv, ClaimHasRoom, InClaim
  <2>5. Cardinality(Busy') = Cardinality(Busy) + 1
    BY <2>3, <2>4, BusyFinite, FS_AddElement
  <2>6. free + Cardinality(Busy) <= Capacity
    BY <1>41, <2>4 DEF SupervisePlaced, CapacityInv, RoomIsReal, InClaim, TypeOK, MainType
  <2>7. free' = free - 1 /\ main' = "claim"
    BY <1>41 DEF SupervisePlaced, RoomLeft, ClaimReturns
  <2>8. free' + Cardinality(Busy') <= Capacity
    BY <2>5, <2>6, <2>7, BusyFinite, LauncherAssumption DEF TypeOK, MainType
  <2> QED BY <2>7, <2>8 DEF CapacityInv, RoomIsReal, ClaimHasRoom, InClaim
<1>42. ASSUME NEW p \in Placements, Finish(p) PROVE CapacityInv'
  <2>1. Busy' \subseteq Busy
    BY <1>42 DEF Finish, Busy, TypeOK, WatchType
  <2>2. Cardinality(Busy') \in Nat /\ Cardinality(Busy') <= Cardinality(Busy)
    BY <2>1, BusyFinite, FS_Subset, FS_CardinalityType
  <2>3. UNCHANGED <<main, free, cur>> BY <1>42 DEF Finish, mainVars
  <2>4. RoomIsReal'
    BY <2>2, <2>3, BusyFinite, LauncherAssumption DEF CapacityInv, RoomIsReal, InClaim, TypeOK, MainType
  <2>5. ClaimHasRoom'
    BY <2>1, <2>3 DEF CapacityInv, ClaimHasRoom, InClaim
  <2> QED BY <2>4, <2>5 DEF CapacityInv
<1>43. CASE UNCHANGED vars
  BY <1>43, CapacityQuiet DEF vars, mainVars, watchVars
<1> QED
  BY <1>1, <1>2, <1>3, <1>4, <1>5, <1>6, <1>7, <1>8, <1>9, <1>10, <1>11, <1>12, <1>13, <1>14, <1>15,
     <1>16, <1>17, <1>18, <1>19, <1>20, <1>21, <1>22, <1>23, <1>24, <1>25, <1>26, <1>27, <1>28, <1>29,
        <1>30, <1>31, <1>32, <1>33, <1>34, <1>35, <1>36, <1>37, <1>38, <1>39, <1>40, <1>41, <1>42, <1>43,
        <1>44
  DEF Next, ReconcileNext, LoopNext, DrainNext, WatchNext, ExNext

\* What the beat promised to claim is really free: however many watchers end a job between the
\* beat's count, the API's answer and the claims, and whatever adopts a placement, what is free and
\* what is in flight never exceed Config.Capacity (loop).
THEOREM RoomCorrect == Spec => []RoomIsReal
<1>1. Init => CapacityInv
  BY DEF Init, CapacityInv, RoomIsReal, ClaimHasRoom, InClaim
<1>2. TypeOK /\ CapacityInv /\ [Next]_vars => CapacityInv' BY CapacityNext
<1>3. CapacityInv => RoomIsReal BY DEF CapacityInv
<1> QED BY <1>1, <1>2, <1>3, TypeCorrect, PTL DEF Spec

\* A job is claimed and placed only while fewer than Config.Capacity are in flight and none of them
\* is an attempt of that job, so supervise never loses an entry of Launcher.inflight (claim).
THEOREM PlacementCorrect == Spec => []PlacesWithinCapacity
<1>1. Init => CapacityInv
  BY DEF Init, CapacityInv, RoomIsReal, ClaimHasRoom, InClaim
<1>2. TypeOK /\ CapacityInv /\ [Next]_vars => CapacityInv' BY CapacityNext
<1>3. TypeOK /\ CapacityInv => PlacesWithinCapacity
  <2> SUFFICES ASSUME TypeOK, CapacityInv, InClaim
               PROVE  Cardinality(Busy) < Capacity /\ JobOf(cur) \notin Busy
    BY DEF PlacesWithinCapacity
  <2>1. free > 0 /\ JobOf(cur) \notin Busy BY DEF CapacityInv, ClaimHasRoom
  <2>2. free + Cardinality(Busy) <= Capacity
    BY <2>1 DEF CapacityInv, RoomIsReal, TypeOK, MainType
  <2> QED BY <2>1, <2>2, BusyFinite, LauncherAssumption DEF TypeOK, MainType
<1> QED BY <1>1, <1>2, <1>3, TypeCorrect, PTL DEF Spec

=============================================================================
