------------------------------ MODULE Executor ------------------------------
(***************************************************************************)
(* One executor (backend/internal/executor): the process, or the goroutine *)
(* of an in-process launcher, that runs one attempt of one job.  Its main  *)
(* goroutine fetches the job, runs the engine, hands over what the engine  *)
(* made and reports; a second one polls the job's status.  SIGTERM, a      *)
(* deadline, the API's users and lost calls interrupt it at every step.    *)
(*                                                                         *)
(* A call is its outcome: Client.send tries again while the answer is a    *)
(* rolling upgrade's, so a try that failed and is made again is no step.   *)
(* Assumed: DenySameUserInspection succeeds.  Where it fails, the process  *)
(* exits with the code of a failed job and reports nothing.                *)
(***************************************************************************)
EXTENDS Integers

CONSTANTS
  Kinds,   \* the kinds of job: a run's phases, a play, a work item
  Guarded  \* the network guard is on

ASSUME ExecutorAssumption ==
  /\ Kinds \subseteq {"plan", "plan-only", "apply", "ansible", "snapshot", "inventory"}
  /\ Guarded \in BOOLEAN

VARIABLES
  kind,      \* the job's kind
  pc,        \* where the main goroutine is
  term,      \* ctx has ended: SIGTERM
  stop,      \* WatchCancellation canceled the job's context
  expired,   \* the play's or the work item's own deadline has passed
  engine,    \* the engine: OpenTofu, ansible-playbook, or git and ansible-inventory
  changed,   \* the apply has changed resources
  saved,     \* ... and its state file says so
  handed,    \* the API has the plan, the state or the snapshot
  unhanded,  \* history: the call that hands it over failed
  result,    \* the Result of Execute
  reported,  \* Client.reported
  code,      \* the exit code
  job,       \* the API's status of the attempt
  by         \* who settled it

procVars == <<kind, pc, term, stop, expired>>
workVars == <<engine, changed, saved, handed, unhanded>>
outVars  == <<result, reported, code>>
apiVars  == <<job, by>>
vars == <<procVars, workVars, outVars, apiVars>>

Statuses == {"running", "completed", "failed", "canceled", "deleted", "retried"}
Results  == {"none", "completed", "failed", "canceled"}
Steps == {"preflight", "artifacts", "fetch", "env", "start", "engine", "upload", "judge", "show", "hand",
          "report", "exit", "exited"}

TypeOK ==
  /\ kind \in Kinds
  /\ pc \in Steps
  /\ term \in BOOLEAN /\ stop \in BOOLEAN /\ expired \in BOOLEAN
  /\ engine \in {"none", "running", "ok", "failed", "interrupted", "killed"}
  /\ changed \in BOOLEAN /\ saved \in BOOLEAN /\ handed \in BOOLEAN /\ unhanded \in BOOLEAN
  /\ result \in Results
  /\ reported \in BOOLEAN
  /\ code \in {"none", "completed", "failed", "stopped", "unreported", "killed"}
  /\ job \in Statuses
  /\ by \in {"none", "executor", "other"}

Tofu == kind \in {"plan", "plan-only", "apply"}
Plan == kind \in {"plan", "plan-only"}
Sync == kind \in {"snapshot", "inventory"}
Over == job # "running"

\* The contexts: a phase's steps before the engine have ctx alone; a play's and a work item's have
\* the watched one from the start, and a work item's has its deadline too.
Told       == term \/ stop
JobDone    == Told \/ (Sync /\ expired)
EngineDone == Told \/ (~Tofu /\ expired)

\* WatchCancellation runs: for a phase around its engine only, else for all of run.
Watched ==
  pc \in IF Tofu THEN {"start", "engine", "judge", "show", "hand"}
                 ELSE {"fetch", "env", "start", "engine", "upload", "judge"}

Go(step) == pc' = step
End(outcome, step) == result' = outcome /\ Go(step)

-----------------------------------------------------------------------------
(* What happens around the executor. *)

\* A user cancels or deletes the job; the launcher or the monitor fails it, and it may be retried.
Settled ==
  /\ job \in {"running", "failed", "canceled"} /\ pc # "exited"
  /\ \/ job = "running" /\ job' \in {"canceled", "deleted", "failed"} /\ by' = "other"
     \/ job # "running" /\ job' = "retried" /\ UNCHANGED by
  /\ UNCHANGED <<procVars, workVars, outVars>>

Sigterm ==
  /\ ~term /\ pc # "exited"
  /\ term' = TRUE
  /\ UNCHANGED <<kind, pc, stop, expired, workVars, outVars, apiVars>>

\* The play's timeout covers the play only, the work item's all of its run.
Expire ==
  /\ ~expired /\ Watched
  /\ Sync \/ (kind = "ansible" /\ pc = "engine")
  /\ expired' = TRUE
  /\ UNCHANGED <<kind, pc, term, stop, workVars, outVars, apiVars>>

\* A stop that misses a deleted job.
StopsIfCanceled(status) == status \in {"canceled", "failed", "completed", "retried"}
\* Status: canceled, gone (404), or the token refused as revoked or terminal.
Stops(status) == status # "running"

\* WatchCancellation's tick; any failure to read the status is tried again.
WatchTick ==
  /\ Watched /\ ~JobDone
  /\ Stops(job)
  /\ stop' = TRUE
  /\ UNCHANGED <<kind, pc, term, expired, workVars, outVars, apiVars>>

-----------------------------------------------------------------------------
(* The main goroutine, up to the engine. *)

Preflight ==
  /\ pc = "preflight"
  /\ \/ Go("artifacts") /\ UNCHANGED result
     \/ Guarded /\ End("failed", "report")
  /\ UNCHANGED <<kind, term, stop, expired, workVars, reported, code, apiVars>>

\* A work item whose artifacts the API refuses because it has ended it is not reported again.
Artifacts ==
  /\ pc = "artifacts"
  /\ \/ ~term /\ Go("fetch") /\ UNCHANGED result
     \/ End("failed", "report")
     \/ Sync /\ Over /\ End("failed", "exit")
  /\ UNCHANGED <<kind, term, stop, expired, workVars, reported, code, apiVars>>

\* A phase's source, variables, saved plan and providers (tofu init): its stop is a failed step.
FetchPhase ==
  /\ Tofu
  /\ \/ ~term /\ Go("start") /\ UNCHANGED result
     \/ End("failed", "report")

\* A play's snapshot and Galaxy requirements; its stop is looked at after them.
FetchPlay ==
  /\ kind = "ansible"
  /\ \/ ~JobDone /\ Go("env") /\ UNCHANGED result
     \/ JobDone /\ End("canceled", "report")
     \/ End("failed", "report")

\* A work item only prepares its directories.
PrepareItem ==
  /\ Sync
  /\ \/ Go("start") /\ UNCHANGED result
     \/ End("failed", "report")

Fetch ==
  /\ pc = "fetch"
  /\ FetchPhase \/ FetchPlay \/ PrepareItem
  /\ UNCHANGED <<kind, term, stop, expired, workVars, reported, code, apiVars>>

\* A play's files, identities and environment.  A Vault login the stop interrupted is a failure.
Env ==
  /\ pc = "env"
  /\ \/ Go("start") /\ UNCHANGED result
     \/ End("failed", "report")
  /\ UNCHANGED <<kind, term, stop, expired, workVars, reported, code, apiVars>>

\* A command whose context has ended is not started.
Start ==
  /\ pc = "start"
  /\ IF EngineDone THEN Go("judge") /\ UNCHANGED engine
                   ELSE Go("engine") /\ engine' = "running"
  /\ UNCHANGED <<kind, term, stop, expired, changed, saved, handed, unhanded, outVars, apiVars>>

EngineChanges ==
  /\ engine = "running" /\ kind = "apply" /\ ~changed
  /\ changed' = TRUE
  /\ UNCHANGED <<procVars, engine, saved, handed, unhanded, outVars, apiVars>>

\* The engine ended by itself; runKind then uploads the snapshot it made.
EngineEnds ==
  /\ pc = "engine"
  /\ \E end \in {"ok", "failed"} :
       /\ engine' = end
       /\ Go(IF kind = "snapshot" /\ end = "ok" THEN "upload" ELSE "judge")
  /\ saved' = changed
  /\ UNCHANGED <<kind, term, stop, expired, changed, handed, unhanded, outVars, apiVars>>

\* Its context ended: OpenTofu is interrupted and has WaitDelay to save its state, others are killed.
EngineStopped ==
  /\ pc = "engine" /\ EngineDone
  /\ \/ engine' = "interrupted" /\ saved' = changed
     \/ Tofu /\ engine' = "killed" /\ UNCHANGED saved
  /\ Go("judge")
  /\ UNCHANGED <<kind, term, stop, expired, changed, handed, unhanded, outVars, apiVars>>

-----------------------------------------------------------------------------
(* The main goroutine, after the engine. *)

\* UploadSnapshot is made with the work item's own context.
Upload ==
  /\ pc = "upload"
  /\ \/ ~JobDone /\ handed' = TRUE /\ UNCHANGED <<engine, unhanded>>
     \/ engine' = "failed" /\ unhanded' = TRUE /\ handed' \in {handed, ~JobDone}
  /\ Go("judge")
  /\ UNCHANGED <<kind, term, stop, expired, changed, saved, outVars, apiVars>>

\* What comes after a stopped phase: an apply that is over at once, and one that hands its state over.
StoppedReports == "report"
AfterStop == IF kind = "apply" THEN "hand" ELSE "report"

\* A deadline taken for a stop.
SeesAnyEnd == EngineDone
SeesStop == Told

\* What the ended engine means.  A stop that came after the engine ended is a stop all the same, and
\* a deadline that passed by then a failure.
Judge ==
  /\ pc = "judge"
  /\ \/ SeesStop /\ End("canceled", AfterStop)
     \/ ~SeesStop /\ (EngineDone \/ engine # "ok") /\ End("failed", "report")
     \/ ~SeesStop /\ ~EngineDone /\ engine = "ok" /\ Plan /\ Go("show") /\ UNCHANGED result
     \/ ~SeesStop /\ ~EngineDone /\ engine = "ok" /\ ~Plan
        /\ End("completed", IF kind = "apply" THEN "hand" ELSE "report")
  /\ UNCHANGED <<kind, term, stop, expired, workVars, reported, code, apiVars>>

\* extractPlanJSON: a plan it cannot show is reported without its changes.
Show ==
  /\ pc = "show"
  /\ IF kind = "plan" THEN Go("hand") /\ UNCHANGED result ELSE End("completed", "report")
  /\ UNCHANGED <<kind, term, stop, expired, workVars, reported, code, apiVars>>

\* uploadPlan's error fails the phase.
PlanResult(ok) == IF ok THEN "completed" ELSE "failed"

\* uploadPlan, and uploadState of the state file if there is one, with contexts no stop ends.  A
\* call that failed may have been taken.
Hand ==
  /\ pc = "hand"
  /\ \/ handed' = (kind = "plan" \/ saved) /\ UNCHANGED unhanded
        /\ result' = IF kind = "plan" THEN PlanResult(TRUE) ELSE result
     \/ handed' \in BOOLEAN /\ unhanded' = TRUE
        /\ result' = IF kind = "plan" THEN PlanResult(FALSE) ELSE result
  /\ Go("report")
  /\ UNCHANGED <<kind, term, stop, expired, engine, changed, saved, reported, code, apiVars>>

\* A completion nobody answered, taken for one the API holds.
SentReported == TRUE
UnansweredReported == reported

\* Complete.  The API keeps the first outcome, and answers 409 or 404 when it has one, or refuses the
\* token (403).  An answer lost behind a proxy is asked for again, one lost with the connection is not.
Report ==
  /\ pc = "report"
  /\ \/ job = "running" /\ job' = result /\ by' = "executor" /\ Go("exit") /\ reported' = TRUE
     \/ job = "running" /\ job' = result /\ by' = "executor" /\ UNCHANGED <<pc, reported>>
     \/ job = "running" /\ job' = result /\ by' = "executor" /\ Go("exit") /\ UNCHANGED reported
     \/ Over /\ job # "retried" /\ Go("exit") /\ reported' = TRUE /\ UNCHANGED apiVars
     \/ Over /\ Go("exit") /\ UNCHANGED <<reported, apiVars>>
     \/ Go("exit") /\ reported' = UnansweredReported /\ UNCHANGED apiVars
  /\ UNCHANGED <<kind, term, stop, expired, workVars, result, code>>

\* The outcome's own code, whether or not the API has it.
ExitAsEnded == result
\* ExitCode: an outcome's code only once the API has answered it.
ExitReported == IF reported THEN result ELSE "unreported"

Exit ==
  /\ pc = "exit"
  /\ code' = IF result = "canceled" THEN "stopped" ELSE ExitReported
  /\ Go("exited")
  /\ UNCHANGED <<kind, term, stop, expired, workVars, result, reported, apiVars>>

\* A crash, an out-of-memory kill, or SIGKILL after the grace.
Die ==
  /\ pc # "exited"
  /\ code' = "killed"
  /\ Go("exited")
  /\ UNCHANGED <<kind, term, stop, expired, workVars, result, reported, apiVars>>

-----------------------------------------------------------------------------
(* The specification. *)

Init ==
  /\ kind \in Kinds
  /\ pc = "preflight"
  /\ term = FALSE /\ stop = FALSE /\ expired = FALSE
  /\ engine = "none" /\ changed = FALSE /\ saved = FALSE /\ handed = FALSE /\ unhanded = FALSE
  /\ result = "none" /\ reported = FALSE /\ code = "none"
  /\ job = "running" /\ by = "none"

\* The steps that end by themselves: a call has a timeout, a command a context.
Steady ==
  \/ Preflight \/ Artifacts \/ Fetch \/ Env \/ Start \/ Upload \/ Judge \/ Show \/ Hand \/ Exit

Next ==
  \/ Steady \/ Report
  \/ EngineChanges \/ EngineEnds \/ EngineStopped
  \/ WatchTick \/ Settled \/ Sigterm \/ Expire \/ Die

Spec == Init /\ [][Next]_vars

\* The engine need not end by itself, nobody has to stop the job, and nothing has to die.
Fairness ==
  /\ WF_vars(Steady) /\ WF_vars(Report /\ pc' = "exit")
  /\ WF_vars(EngineStopped) /\ WF_vars(WatchTick)

FairSpec == Spec /\ Fairness

-----------------------------------------------------------------------------
(* Properties. *)

\* The launcher's reading of the exit code is right: a code of an outcome means that the API holds
\* one, whatever call was lost or tried again (Complete, ExitCode, the launcher's ended).
ExitIsReported == code \in {"completed", "failed"} => Over

\* What the API holds of this executor is what its engine did: completed only after an engine that
\* ended well, canceled only after a stop (Execute, run).
OutcomeIsTrue ==
  by = "executor" =>
    /\ job = "completed" => engine = "ok"
    /\ job = "canceled" => Told

\* An outcome somebody builds on is reported after what it stands for was handed over: a saved plan
\* and a snapshot always, a changed state unless its upload failed or OpenTofu was killed (run,
\* uploadPlan, uploadState, UploadSnapshot).
OutcomeIsBacked ==
  by = "executor" =>
    /\ job = "completed" /\ kind \in {"plan", "snapshot"} => handed
    /\ job \in {"completed", "canceled"} /\ changed /\ engine # "killed" => handed \/ unhanded

\* An executor that is told to stop, or whose job is over, ends, whatever its engine does
\* (WatchCancellation, cmd.Cancel).
StopEnds == ((Told \/ Over) /\ pc # "exited") ~> pc = "exited"

Contract == INSTANCE ExecutorContract WITH
  held <- Over,
  told <- Told,
  exit <- code

\* The exit codes mean what the launcher takes them for (ExitCode).
KeepsContract == Contract!Spec

=============================================================================
