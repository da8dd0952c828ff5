--------------------------- MODULE ExecutorProofs ---------------------------
(***************************************************************************)
(* An executor's exit code keeps its promise, whatever is lost or stops it *)
(* on the way: Executor implements ExecutorContract.                       *)
(***************************************************************************)
EXTENDS Executor, TLAPS

-----------------------------------------------------------------------------
(* The inductive invariant. *)

\* What is reported has been decided: only the plan's upload decides as late as that.
ResultKnown ==
  /\ pc = "hand" => kind = "plan" \/ result # "none"
  /\ pc \in {"report", "exit"} => result # "none"

\* What the executor remembers of the API's answers and of the stop is true, and so is its code.
CodeIsTrue ==
  /\ reported => Over
  /\ result = "canceled" => Told
  /\ pc # "exited" => code = "none"
  /\ code \in {"completed", "failed"} => Over
  /\ code = "stopped" => Told

\* What an outcome says of the engine, and of what was handed over, from the engine's end on.
OutcomeIsEarned ==
  /\ engine = "running" => pc \in {"engine", "exited"}
  /\ result # "none" => pc \in {"hand", "report", "exit", "exited"}
  /\ pc \in {"preflight", "artifacts", "fetch", "env", "start"} => engine = "none"
  /\ pc = "upload" => kind = "snapshot"
  /\ pc = "show" => engine = "ok" /\ kind \in {"plan", "plan-only"}
  /\ pc = "hand" => kind = "apply" \/ (kind = "plan" /\ engine = "ok")
  /\ result = "completed" => engine = "ok"
  /\ by = "executor" => pc \in {"report", "exit", "exited"} /\ engine # "running"

WorkIsHanded ==
  /\ changed => kind = "apply"
  /\ engine \notin {"running", "killed"} /\ changed => saved
  /\ pc = "judge" /\ kind = "snapshot" /\ engine = "ok" => handed
  /\ pc \in {"report", "exit"} /\ result = "completed" /\ kind \in {"plan", "snapshot"} => handed
  /\ pc \in {"report", "exit"} /\ result \in {"completed", "canceled"} /\ changed /\ engine # "killed"
       => handed \/ unhanded

ExecutorInv ==
  /\ TypeOK /\ ResultKnown /\ CodeIsTrue
  /\ OutcomeIsEarned /\ OutcomeIsTrue /\ WorkIsHanded /\ OutcomeIsBacked

\* A step keeps the types: what Complete sends is an outcome.
LEMMA TypeStep ==
  ASSUME TypeOK, ResultKnown, [Next]_vars
  PROVE  TypeOK'
<1> USE DEF TypeOK, Steps, Results, Statuses, Go, End, procVars, workVars, outVars, apiVars
<1>1. CASE Preflight
  BY <1>1 DEF Preflight
<1>2. CASE Artifacts
  BY <1>2 DEF Artifacts
<1>3. CASE Fetch
  BY <1>3 DEF Fetch, FetchPhase, FetchPlay, PrepareItem
<1>4. CASE Env
  BY <1>4 DEF Env
<1>5. CASE Start
  BY <1>5 DEF Start
<1>6. CASE Upload
  <2>1. handed' \in BOOLEAN
    BY <1>6, Zenon DEF Upload, JobDone, Told
  <2>2. unhanded' \in BOOLEAN /\ engine' \in {engine, "failed"} /\ pc' = "judge"
    BY <1>6, Zenon DEF Upload
  <2>3. UNCHANGED <<kind, term, stop, expired, changed, saved, outVars, apiVars>>
    BY <1>6 DEF Upload
  <2>4. QED
    BY <2>1, <2>2, <2>3
<1>7. CASE Judge
  BY <1>7 DEF Judge, AfterStop
<1>8. CASE Show
  BY <1>8 DEF Show
<1>9. CASE Hand
  <2>1. handed' \in BOOLEAN /\ unhanded' \in BOOLEAN
    BY <1>9, Zenon DEF Hand
  <2>2. result' \in Results /\ pc' = "report"
    BY <1>9, SMT DEF Hand, PlanResult
  <2>3. UNCHANGED <<kind, term, stop, expired, engine, changed, saved, reported, code, apiVars>>
    BY <1>9 DEF Hand
  <2>4. QED
    BY <2>1, <2>2, <2>3
<1>10. CASE Exit
  BY <1>10 DEF Exit, ExitReported
<1>11. CASE Report
  <2>1. reported' \in BOOLEAN
    BY <1>11, Zenon DEF Report, UnansweredReported
  <2>2. pc' \in {pc, "exit"} /\ by' \in {by, "executor"} /\ job' \in {job, result}
    BY <1>11, Zenon DEF Report
  <2>3. UNCHANGED <<kind, term, stop, expired, workVars, result, code>>
    BY <1>11 DEF Report
  <2>4. result # "none"
    BY <1>11 DEF Report, ResultKnown
  <2>5. QED
    BY <2>1, <2>2, <2>3, <2>4
<1>12. CASE EngineChanges
  BY <1>12 DEF EngineChanges
<1>13. CASE EngineEnds
  BY <1>13 DEF EngineEnds
<1>14. CASE EngineStopped
  BY <1>14 DEF EngineStopped
<1>15. CASE WatchTick
  BY <1>15 DEF WatchTick
<1>16. CASE Settled
  BY <1>16 DEF Settled
<1>17. CASE Sigterm
  BY <1>17 DEF Sigterm
<1>18. CASE Expire
  BY <1>18 DEF Expire
<1>19. CASE Die
  BY <1>19 DEF Die
<1>20. CASE UNCHANGED vars
  BY <1>20 DEF vars
<1>21. QED
  BY <1>1, <1>2, <1>3, <1>4, <1>5, <1>6, <1>7, <1>8, <1>9, <1>10, <1>11, <1>12, <1>13,
     <1>14, <1>15, <1>16, <1>17, <1>18, <1>19, <1>20 DEF Next, Steady

\* A step that leads to the report has decided what is reported.
LEMMA ResultStep ==
  ASSUME TypeOK, ResultKnown, [Next]_vars
  PROVE  ResultKnown'
<1> USE DEF TypeOK, ResultKnown, Go, End, procVars, workVars, outVars, apiVars
<1>1. CASE Preflight
  BY <1>1 DEF Preflight
<1>2. CASE Artifacts
  BY <1>2 DEF Artifacts
<1>3. CASE Fetch
  BY <1>3 DEF Fetch, FetchPhase, FetchPlay, PrepareItem
<1>4. CASE Env
  BY <1>4 DEF Env
<1>5. CASE Start
  BY <1>5 DEF Start
<1>6. CASE Upload
  BY <1>6 DEF Upload
<1>7. CASE Judge
  BY <1>7 DEF Judge, AfterStop
<1>8. CASE Show
  BY <1>8 DEF Show, Plan
<1>9. CASE Hand
  BY <1>9 DEF Hand, PlanResult
<1>10. CASE Exit
  BY <1>10 DEF Exit, ExitReported
<1>11. CASE Report
  BY <1>11 DEF Report, UnansweredReported
<1>12. CASE EngineChanges
  BY <1>12 DEF EngineChanges
<1>13. CASE EngineEnds
  BY <1>13 DEF EngineEnds
<1>14. CASE EngineStopped
  BY <1>14 DEF EngineStopped
<1>15. CASE WatchTick
  BY <1>15 DEF WatchTick
<1>16. CASE Settled
  BY <1>16 DEF Settled
<1>17. CASE Sigterm
  BY <1>17 DEF Sigterm
<1>18. CASE Expire
  BY <1>18 DEF Expire
<1>19. CASE Die
  BY <1>19 DEF Die
<1>20. CASE UNCHANGED vars
  BY <1>20 DEF vars
<1>21. QED
  BY <1>1, <1>2, <1>3, <1>4, <1>5, <1>6, <1>7, <1>8, <1>9, <1>10, <1>11, <1>12, <1>13,
     <1>14, <1>15, <1>16, <1>17, <1>18, <1>19, <1>20 DEF Next, Steady

\* A step keeps what the code rests on: nobody takes an outcome or a stop back.
LEMMA CodeStep ==
  ASSUME TypeOK, ResultKnown, CodeIsTrue, [Next]_vars
  PROVE  CodeIsTrue'
<1> USE DEF CodeIsTrue, Over, Told, Go, End, procVars, workVars, outVars, apiVars
<1>1. CASE Preflight
  BY <1>1 DEF Preflight
<1>2. CASE Artifacts
  BY <1>2 DEF Artifacts
<1>3. CASE Fetch
  BY <1>3 DEF Fetch, FetchPhase, FetchPlay, PrepareItem, JobDone, Sync
<1>4. CASE Env
  BY <1>4 DEF Env
<1>5. CASE Start
  BY <1>5 DEF Start
<1>6. CASE Upload
  BY <1>6 DEF Upload
<1>7. CASE Judge
  BY <1>7 DEF Judge, AfterStop, SeesStop
<1>8. CASE Show
  BY <1>8 DEF Show
<1>9. CASE Hand
  BY <1>9 DEF Hand, PlanResult
<1>10. CASE Exit
  <2>1. result \in Results
    BY DEF TypeOK
  <2>2. QED
    BY <1>10, <2>1 DEF Exit, ExitReported, Results
<1>11. CASE Report
  <2>1. result \in Results /\ result # "running"
    BY DEF TypeOK, Results
  <2>2. UNCHANGED <<kind, term, stop, expired, workVars, result, code>> /\ pc' \in {pc, "exit"}
    BY <1>11 DEF Report
  <2>3. Over => Over'
    BY <1>11, <2>1 DEF Report
  <2>4. reported' => Over'
    BY <1>11, <2>1, <2>3, Zenon DEF Report, UnansweredReported
  <2>5. pc # "exited"
    BY <1>11 DEF Report
  <2>6. QED
    BY <2>2, <2>3, <2>4, <2>5
<1>12. CASE EngineChanges
  BY <1>12 DEF EngineChanges
<1>13. CASE EngineEnds
  BY <1>13 DEF EngineEnds
<1>14. CASE EngineStopped
  BY <1>14 DEF EngineStopped
<1>15. CASE WatchTick
  BY <1>15 DEF WatchTick
<1>16. CASE Settled
  BY <1>16 DEF Settled
<1>17. CASE Sigterm
  BY <1>17 DEF Sigterm
<1>18. CASE Expire
  BY <1>18 DEF Expire
<1>19. CASE Die
  BY <1>19 DEF Die
<1>20. CASE UNCHANGED vars
  BY <1>20 DEF vars
<1>21. QED
  BY <1>1, <1>2, <1>3, <1>4, <1>5, <1>6, <1>7, <1>8, <1>9, <1>10, <1>11, <1>12, <1>13,
     <1>14, <1>15, <1>16, <1>17, <1>18, <1>19, <1>20 DEF Next, Steady

\* Only the engine's own end makes a completion, and only Report hands it to the API.
LEMMA EarnedStep ==
  ASSUME TypeOK, ResultKnown, CodeIsTrue, OutcomeIsEarned, OutcomeIsTrue, [Next]_vars
  PROVE  OutcomeIsEarned' /\ OutcomeIsTrue'
<1> USE DEF OutcomeIsEarned, OutcomeIsTrue, Told, Go, End, procVars, workVars, outVars, apiVars
<1>1. CASE Preflight
  BY <1>1 DEF Preflight
<1>2. CASE Artifacts
  BY <1>2 DEF Artifacts
<1>3. CASE Fetch
  BY <1>3 DEF Fetch, FetchPhase, FetchPlay, PrepareItem, JobDone, Sync
<1>4. CASE Env
  BY <1>4 DEF Env
<1>5. CASE Start
  BY <1>5 DEF Start
<1>6. CASE Upload
  BY <1>6 DEF Upload
<1>7. CASE Judge
  BY <1>7 DEF Judge, AfterStop, SeesStop, Plan
<1>8. CASE Show
  BY <1>8 DEF Show
<1>9. CASE Hand
  BY <1>9 DEF Hand, PlanResult
<1>10. CASE Exit
  BY <1>10 DEF Exit, ExitReported
<1>11. CASE Report
  <2>1. result # "running" /\ Told \in BOOLEAN
    BY DEF TypeOK, Results
  <2>2. UNCHANGED <<kind, term, stop, expired, workVars, result, code>> /\ pc' \in {"report", "exit"}
    BY <1>11 DEF Report
  <2>3. UNCHANGED <<job, by>> \/ (job' = result /\ by' = "executor")
    BY <1>11, Zenon DEF Report
  <2>4. pc = "report" /\ engine # "running"
    BY <1>11 DEF Report
  <2>5. OutcomeIsEarned'
    BY <2>2, <2>4
  <2>6. job' = "completed" /\ by' = "executor" => engine' = "ok"
    BY <2>2, <2>3
  <2>7. job' = "canceled" /\ by' = "executor" => Told'
    BY <2>2, <2>3 DEF CodeIsTrue
  <2>8. QED
    BY <2>5, <2>6, <2>7
<1>12. CASE EngineChanges
  BY <1>12 DEF EngineChanges
<1>13. CASE EngineEnds
  BY <1>13 DEF EngineEnds
<1>14. CASE EngineStopped
  BY <1>14 DEF EngineStopped
<1>15. CASE WatchTick
  BY <1>15 DEF WatchTick
<1>16. CASE Settled
  BY <1>16 DEF Settled
<1>17. CASE Sigterm
  BY <1>17 DEF Sigterm
<1>18. CASE Expire
  BY <1>18 DEF Expire
<1>19. CASE Die
  BY <1>19 DEF Die
<1>20. CASE UNCHANGED vars
  BY <1>20 DEF vars
<1>21. QED
  BY <1>1, <1>2, <1>3, <1>4, <1>5, <1>6, <1>7, <1>8, <1>9, <1>10, <1>11, <1>12, <1>13,
     <1>14, <1>15, <1>16, <1>17, <1>18, <1>19, <1>20 DEF Next, Steady

\* What is handed over stays handed over, and every way to a report leads through it.
LEMMA HandedStep ==
  ASSUME TypeOK, ResultKnown, OutcomeIsEarned, WorkIsHanded, OutcomeIsBacked, [Next]_vars
  PROVE  WorkIsHanded' /\ OutcomeIsBacked'
<1> USE DEF OutcomeIsEarned, WorkIsHanded, OutcomeIsBacked, Go, End, procVars, workVars, outVars, apiVars
<1>1. CASE Preflight
  BY <1>1 DEF Preflight
<1>2. CASE Artifacts
  BY <1>2 DEF Artifacts
<1>3. CASE Fetch
  BY <1>3 DEF Fetch, FetchPhase, FetchPlay, PrepareItem
<1>4. CASE Env
  BY <1>4 DEF Env
<1>5. CASE Start
  BY <1>5 DEF Start
<1>6. CASE Upload
  <2>1. UNCHANGED <<kind, term, stop, expired, changed, saved, outVars, apiVars>>
        /\ pc' = "judge" /\ pc = "upload"
    BY <1>6 DEF Upload
  <2>2. (handed' /\ engine' = engine) \/ engine' = "failed"
    BY <1>6, Zenon DEF Upload
  <2>3. QED
    BY <2>1, <2>2
<1>7. CASE Judge
  BY <1>7 DEF Judge, AfterStop, SeesStop, Plan
<1>8. CASE Show
  BY <1>8 DEF Show, Plan
<1>9. CASE Hand
  <2>1. UNCHANGED <<kind, term, stop, expired, engine, changed, saved, reported, code, apiVars>>
        /\ pc' = "report" /\ pc = "hand"
    BY <1>9 DEF Hand
  <2>2. kind = "plan" => result' = "failed" \/ handed'
    BY <1>9 DEF Hand, PlanResult
  <2>3. saved => handed' \/ unhanded'
    BY <1>9, Zenon DEF Hand
  <2>4. kind # "plan" => kind = "apply"
    BY <2>1
  <2>5. QED
    BY <2>1, <2>2, <2>3, <2>4
<1>10. CASE Exit
  BY <1>10 DEF Exit, ExitReported
<1>11. CASE Report
  <2>1. UNCHANGED <<kind, term, stop, expired, workVars, result, code>>
        /\ pc' \in {"report", "exit"} /\ pc = "report"
    BY <1>11 DEF Report
  <2>2. UNCHANGED <<job, by>> \/ (job' = result /\ by' = "executor")
    BY <1>11, Zenon DEF Report
  <2>3. QED
    BY <2>1, <2>2
<1>12. CASE EngineChanges
  BY <1>12 DEF EngineChanges
<1>13. CASE EngineEnds
  BY <1>13 DEF EngineEnds
<1>14. CASE EngineStopped
  BY <1>14 DEF EngineStopped
<1>15. CASE WatchTick
  BY <1>15 DEF WatchTick
<1>16. CASE Settled
  BY <1>16 DEF Settled
<1>17. CASE Sigterm
  BY <1>17 DEF Sigterm
<1>18. CASE Expire
  BY <1>18 DEF Expire
<1>19. CASE Die
  BY <1>19 DEF Die
<1>20. CASE UNCHANGED vars
  BY <1>20 DEF vars
<1>21. QED
  BY <1>1, <1>2, <1>3, <1>4, <1>5, <1>6, <1>7, <1>8, <1>9, <1>10, <1>11, <1>12, <1>13,
     <1>14, <1>15, <1>16, <1>17, <1>18, <1>19, <1>20 DEF Next, Steady

\* The inductive invariant holds at every step.
LEMMA Inductive == Spec => []ExecutorInv
<1>1. Init => ExecutorInv
  BY DEF Init, ExecutorInv, TypeOK, ResultKnown, CodeIsTrue, OutcomeIsEarned, OutcomeIsTrue,
         WorkIsHanded, OutcomeIsBacked, Steps, Results, Statuses
<1>2. ExecutorInv /\ [Next]_vars => ExecutorInv'
  BY TypeStep, ResultStep, CodeStep, EarnedStep, HandedStep DEF ExecutorInv
<1>3. QED
  BY <1>1, <1>2, PTL DEF Spec

-----------------------------------------------------------------------------
(* The theorems. *)

\* Every variable keeps its type (Execute, WatchCancellation, Complete).
THEOREM TypeCorrect == Spec => []TypeOK
<1>1. ExecutorInv => TypeOK
  BY DEF ExecutorInv
<1>2. QED
  BY <1>1, Inductive, PTL

\* A code of an outcome means that the API holds one (Complete, ExitCode).
THEOREM ExitCorrect == Spec => []ExitIsReported
<1>1. ExecutorInv => ExitIsReported
  BY DEF ExecutorInv, CodeIsTrue, ExitIsReported
<1>2. QED
  BY <1>1, Inductive, PTL

\* The API's record of an executor is what its engine did (Execute, run).
THEOREM OutcomeCorrect == Spec => []OutcomeIsTrue
<1>1. ExecutorInv => OutcomeIsTrue
  BY DEF ExecutorInv
<1>2. QED
  BY <1>1, Inductive, PTL

\* A reported outcome has handed over what it stands for (uploadPlan, uploadState, UploadSnapshot).
THEOREM BackedCorrect == Spec => []OutcomeIsBacked
<1>1. ExecutorInv => OutcomeIsBacked
  BY DEF ExecutorInv
<1>2. QED
  BY <1>1, Inductive, PTL

\* What each step is to whoever placed the executor.
LEMMA StepRefines ==
  ASSUME ExecutorInv, [Next]_vars
  PROVE  [Contract!Next]_(Contract!vars)
<1> USE DEF Contract!Next, Contract!vars, Contract!Hold, Contract!Tell, Contract!Exit,
            Contract!Codes, Contract!OwnCodes, Over, Told, procVars, workVars, outVars, apiVars
<1>1. CASE Preflight
  BY <1>1 DEF Preflight
<1>2. CASE Artifacts
  BY <1>2 DEF Artifacts
<1>3. CASE Fetch
  BY <1>3 DEF Fetch, FetchPhase, FetchPlay, PrepareItem
<1>4. CASE Env
  BY <1>4 DEF Env
<1>5. CASE Start
  BY <1>5 DEF Start
<1>6. CASE Upload
  BY <1>6 DEF Upload
<1>7. CASE Judge
  BY <1>7 DEF Judge
<1>8. CASE Show
  BY <1>8 DEF Show
<1>9. CASE Hand
  BY <1>9 DEF Hand
<1>10. CASE Exit
  <2>1. UNCHANGED <<Over, Told>> /\ code = "none"
    BY <1>10 DEF Exit, ExecutorInv, CodeIsTrue
  <2>2. code' \in {"completed", "failed", "stopped", "unreported"}
    BY <1>10 DEF Exit, ExitReported, ExecutorInv, TypeOK, ResultKnown, Results
  <2>3. code' \in {"completed", "failed"} => Over
    BY <1>10 DEF Exit, ExitReported, ExecutorInv, CodeIsTrue
  <2>4. code' = "stopped" => Told
    BY <1>10 DEF Exit, ExitReported, ExecutorInv, CodeIsTrue, TypeOK, Results
  <2>5. QED
    BY <2>1, <2>2, <2>3, <2>4
<1>11. CASE Report
  <2>1. UNCHANGED <<term, stop, code>>
    BY <1>11 DEF Report
  <2>2. result # "running"
    BY DEF ExecutorInv, TypeOK, Results
  <2>3. (~Over /\ Over') \/ UNCHANGED Over
    BY <1>11, <2>2 DEF Report
  <2>4. QED
    BY <2>1, <2>3
<1>12. CASE EngineChanges
  BY <1>12 DEF EngineChanges
<1>13. CASE EngineEnds
  BY <1>13 DEF EngineEnds
<1>14. CASE EngineStopped
  BY <1>14 DEF EngineStopped
<1>15. CASE WatchTick
  BY <1>15 DEF WatchTick
<1>16. CASE Settled
  BY <1>16 DEF Settled
<1>17. CASE Sigterm
  BY <1>17 DEF Sigterm
<1>18. CASE Expire
  BY <1>18 DEF Expire
<1>19. CASE Die
  BY <1>19 DEF Die, ExecutorInv, CodeIsTrue
<1>20. CASE UNCHANGED vars
  BY <1>20 DEF vars
<1>21. QED
  BY <1>1, <1>2, <1>3, <1>4, <1>5, <1>6, <1>7, <1>8, <1>9, <1>10, <1>11, <1>12, <1>13,
     <1>14, <1>15, <1>16, <1>17, <1>18, <1>19, <1>20 DEF Next, Steady

\* An executor implements its contract: the exit code, read with the API's record, says whether the
\* attempt is settled, for every kind of job and every loss (ExitCode, ended).
THEOREM ContractKept == Spec => KeepsContract
<1>1. Init => Contract!Init
  BY DEF Init, Contract!Init, Over, Told
<1>2. ExecutorInv /\ [Next]_vars => [Contract!Next]_(Contract!vars)
  BY StepRefines
<1>3. QED
  BY <1>1, <1>2, Inductive, PTL DEF Spec, KeepsContract, Contract!Spec

=============================================================================
