------------------------------ MODULE PartsProofs ------------------------------
(***************************************************************************)
(* What is proved of an agent session and of the two executors holds of    *)
(* the parts side by side: a step of the whole is a step of a part or      *)
(* leaves its variables alone.  The cloud executor is proved about here,   *)
(* the other two parts in modules of their own.                            *)
(*                                                                         *)
(* The argument for the cloud executor: the outcome of executeBuild is     *)
(* read from a build that has ended, and a build that has ended stays so;  *)
(* the handle is retired before its outcome is put where Wait looks; and   *)
(* each way to the end of executeBuild either saw the build end, asked     *)
(* Cloud Build to cancel it, or has the cause StrayHasCause names.         *)
(***************************************************************************)
EXTENDS MCParts, FiniteSets, TLAPS

LEMMA SessionPart == Spec => AS!Spec
<1>1. Init => AS!Init
    BY DEF Init
<1>2. [Next]_vars => [AS!Next]_(AS!vars)
    BY DEF Next, Session, Cloud, Scratch, vars, sessionVars, AS!vars
<1>. QED BY <1>1, <1>2, PTL DEF Spec, AS!Spec

LEMMA CloudPart == Spec => CB!Spec
<1>1. Init => CB!Init
    BY DEF Init
<1>2. [Next]_vars => [CB!Next]_(CB!vars)
    BY DEF Next, Session, Cloud, Scratch, vars, cloudVars, CB!vars
<1>. QED BY <1>1, <1>2, PTL DEF Spec, CB!Spec

LEMMA ScratchPart == Spec => SB!Spec
<1>1. Init => SB!Init
    BY DEF Init
<1>2. [Next]_vars => [SB!Next]_(SB!vars)
    BY DEF Next, Session, Cloud, Scratch, vars, scratchVars, SB!vars
<1>. QED BY <1>1, <1>2, PTL DEF Spec, SB!Spec

-----------------------------------------------------------------------------
(* The cloud executor, for any number of faults of any kinds. *)

\* executeBuild no longer watches the build.
CloudEnding == {"upload", "complete", "retire", "answer", "over"}

CloudCause ==
    \/ cloudFaults > 0
    \/ ctx # "live" /\ ~handle.op
    \/ ctx = "deadline" /\ ~opts.terminate

\* The operation is set once the build exists; a build exists once it was asked for.
CloudAsked ==
    /\ run.pc = "create" => cloud = "none"
    /\ run.pc \in {"create", "created"} => ~handle.op

CloudTold ==
    /\ run.pc \in {"answer", "over"} => ~active
    /\ run.outcome = "success" => cloud = "succeeded"
    /\ handle.result \in {"success", "error"} => ~active
    /\ handle.result = "success" => cloud = "succeeded"
    /\ CB!AnswerIsTrue

CloudLeft ==
    /\ run.pc = "rewatch" => cloud # "working"
    /\ run.pc \in CloudEnding /\ cloud = "working" => CloudCause

CloudInv == CB!TypeOK /\ CloudAsked /\ CloudTold /\ CloudLeft

-----------------------------------------------------------------------------
\* Every step keeps the variables in their types.
LEMMA CloudTypeStep == CB!CloudBuildAssumption /\ CB!TypeOK /\ [CB!Next]_(CB!vars) => CB!TypeOK'
<1>. SUFFICES ASSUME CB!CloudBuildAssumption, CB!TypeOK, [CB!Next]_(CB!vars)
              PROVE  CB!TypeOK'
    OBVIOUS
<1>. USE DEF CB!CloudBuildAssumption, CB!TypeOK, CB!Over, CB!Fault, CB!CancelOperation,
             CB!SetStatus, CB!Put,
             CB!RunTo, CB!RunEnds, CB!Outcome
<1>1. CASE CB!CreateBuild BY <1>1 DEF CB!CreateBuild
<1>2. CASE CB!CreateBuildFails BY <1>2 DEF CB!CreateBuildFails
<1>3. CASE CB!SetOperation
    <2>1. handle' \in [status : {"starting", "running", "completed", "cancelled"},
                       op : BOOLEAN, result : {"none", "success", "error", "closed"}]
        BY <1>3, Zenon DEF CB!SetOperation
    <2>2. run' = [run EXCEPT !.pc = "running"]
          /\ UNCHANGED <<opts, ctx, active, cloud, wait, cloudClose, cloudFaults>>
        BY <1>3 DEF CB!SetOperation
    <2>. HIDE DEF CB!RunTo
    <2>. QED BY <2>1, <2>2
<1>4. CASE CB!MarkRunning BY <1>4 DEF CB!MarkRunning
<1>5. CASE CB!SeeEnd BY <1>5 DEF CB!SeeEnd
<1>6. CASE CB!SeeContextEnd BY <1>6 DEF CB!SeeContextEnd
<1>7. CASE CB!PollFails BY <1>7 DEF CB!PollFails
<1>8. CASE CB!CancelOwn BY <1>8 DEF CB!CancelOwn
<1>9. CASE CB!SeeCancelled BY <1>9 DEF CB!SeeCancelled
<1>10. CASE CB!Upload BY <1>10 DEF CB!Upload
<1>11. CASE CB!MarkCompleted BY <1>11 DEF CB!MarkCompleted
<1>12. CASE CB!RetireThenAnswer
    <2>1. CASE run.pc = "retire" BY <1>12, <2>1 DEF CB!RetireThenAnswer
    <2>2. CASE run.pc = "answer" BY <1>12, <2>2, SMTT(30) DEF CB!RetireThenAnswer
    <2>. QED BY <1>12, <2>1, <2>2 DEF CB!RetireThenAnswer
<1>13. CASE CB!TakeResult BY <1>13 DEF CB!TakeResult
<1>14. CASE CB!WaitCancels BY <1>14 DEF CB!WaitCancels
<1>15. CASE CB!WaitGivesUp BY <1>15 DEF CB!WaitGivesUp
<1>16. CASE CB!CloseCancels BY <1>16 DEF CB!CloseCancels
<1>17. CASE CB!CloseMarks BY <1>17 DEF CB!CloseMarks
<1>18. CASE CB!CloseAnswers BY <1>18 DEF CB!CloseAnswers
<1>19. CASE CB!CloseReturns BY <1>19 DEF CB!CloseReturns
<1>20. CASE CB!ContextEnds BY <1>20 DEF CB!ContextEnds
<1>21. CASE CB!CloudEnds BY <1>21 DEF CB!CloudEnds
<1>22. CASE UNCHANGED CB!vars BY <1>22 DEF CB!vars
<1>. QED BY <1>1, <1>2, <1>3, <1>4, <1>5, <1>6, <1>7, <1>8, <1>9, <1>10, <1>11, <1>12,
            <1>13, <1>14, <1>15, <1>16, <1>17, <1>18, <1>19, <1>20, <1>21, <1>22
         DEF CB!Next, CB!RunSteps, CB!WaitSteps, CB!CloseSteps

LEMMA CloudInit == CB!CloudBuildAssumption /\ CB!Init => CloudInv
    BY DEF CB!CloudBuildAssumption, CB!Init, CloudInv, CB!TypeOK, CloudAsked, CloudTold,
           CB!AnswerIsTrue, CloudLeft,
           CloudEnding, CloudCause, CB!Over

\* What Cloud Build has ended, what is retired and what has a cause stay so.
LEMMA CloudLasting ==
    ASSUME CB!CloudBuildAssumption, CloudInv, [CB!Next]_(CB!vars)
    PROVE  /\ cloud = "succeeded" => cloud' = "succeeded"
           /\ ~active => ~active'
           /\ cloudFaults > 0 => cloudFaults' > 0
           /\ ctx # "live" => ctx' = ctx
           /\ opts' = opts
           /\ run.pc # "create" /\ cloud # "working" => cloud' # "working"
<1>. USE DEF CB!CloudBuildAssumption, CloudInv, CB!TypeOK, CloudAsked, CB!Over, CB!Fault,
             CB!CancelOperation,
             CB!SetStatus, CB!Put, CB!RunTo, CB!RunEnds
<1>1. CASE CB!CreateBuild BY <1>1 DEF CB!CreateBuild
<1>2. CASE CB!CreateBuildFails BY <1>2 DEF CB!CreateBuildFails
<1>3. CASE CB!SetOperation BY <1>3 DEF CB!SetOperation
<1>4. CASE CB!MarkRunning BY <1>4 DEF CB!MarkRunning
<1>5. CASE CB!SeeEnd BY <1>5 DEF CB!SeeEnd
<1>6. CASE CB!SeeContextEnd BY <1>6 DEF CB!SeeContextEnd
<1>7. CASE CB!PollFails BY <1>7 DEF CB!PollFails
<1>8. CASE CB!CancelOwn BY <1>8 DEF CB!CancelOwn
<1>9. CASE CB!SeeCancelled BY <1>9 DEF CB!SeeCancelled
<1>10. CASE CB!Upload BY <1>10 DEF CB!Upload
<1>11. CASE CB!MarkCompleted BY <1>11 DEF CB!MarkCompleted
<1>12. CASE CB!RetireThenAnswer BY <1>12 DEF CB!RetireThenAnswer
<1>13. CASE CB!TakeResult BY <1>13 DEF CB!TakeResult
<1>14. CASE CB!WaitCancels BY <1>14 DEF CB!WaitCancels
<1>15. CASE CB!WaitGivesUp BY <1>15 DEF CB!WaitGivesUp
<1>16. CASE CB!CloseCancels BY <1>16 DEF CB!CloseCancels
<1>17. CASE CB!CloseMarks BY <1>17 DEF CB!CloseMarks
<1>18. CASE CB!CloseAnswers BY <1>18 DEF CB!CloseAnswers
<1>19. CASE CB!CloseReturns BY <1>19 DEF CB!CloseReturns
<1>20. CASE CB!ContextEnds BY <1>20 DEF CB!ContextEnds
<1>21. CASE CB!CloudEnds BY <1>21 DEF CB!CloudEnds
<1>22. CASE UNCHANGED CB!vars BY <1>22 DEF CB!vars
<1>. QED BY <1>1, <1>2, <1>3, <1>4, <1>5, <1>6, <1>7, <1>8, <1>9, <1>10, <1>11, <1>12,
            <1>13, <1>14, <1>15, <1>16, <1>17, <1>18, <1>19, <1>20, <1>21, <1>22
         DEF CB!Next, CB!RunSteps, CB!WaitSteps, CB!CloseSteps

-----------------------------------------------------------------------------
\* A build is asked for once, and its operation is set after that.
LEMMA CloudAskedStep ==
    ASSUME CB!CloudBuildAssumption, CloudInv, [CB!Next]_(CB!vars)
    PROVE  CloudAsked'
<1>. USE DEF CloudInv, CB!TypeOK, CloudAsked
<1>1. CASE CB!CreateBuild BY <1>1 DEF CB!CreateBuild, CB!RunTo
<1>2. CASE CB!CreateBuildFails BY <1>2 DEF CB!CreateBuildFails, CB!RunEnds
<1>3. CASE CB!SetOperation BY <1>3 DEF CB!SetOperation, CB!RunTo
<1>4. CASE CB!MarkRunning BY <1>4 DEF CB!MarkRunning, CB!SetStatus, CB!RunTo
<1>5. CASE CB!SeeEnd BY <1>5 DEF CB!SeeEnd, CB!RunEnds
<1>6. CASE CB!SeeContextEnd BY <1>6 DEF CB!SeeContextEnd, CB!RunTo, CB!RunEnds
<1>7. CASE CB!PollFails BY <1>7 DEF CB!PollFails, CB!RunEnds
<1>8. CASE CB!CancelOwn BY <1>8 DEF CB!CancelOwn, CB!RunTo, CB!RunEnds
<1>9. CASE CB!SeeCancelled BY <1>9 DEF CB!SeeCancelled, CB!RunEnds
<1>10. CASE CB!Upload BY <1>10 DEF CB!Upload, CB!RunTo
<1>11. CASE CB!MarkCompleted BY <1>11 DEF CB!MarkCompleted, CB!SetStatus, CB!RunTo
<1>12. CASE CB!RetireThenAnswer BY <1>12 DEF CB!RetireThenAnswer, CB!Put, CB!RunTo
<1>13. CASE CB!TakeResult BY <1>13 DEF CB!TakeResult
<1>14. CASE CB!WaitCancels BY <1>14 DEF CB!WaitCancels, CB!CancelOperation, CB!Fault
<1>15. CASE CB!WaitGivesUp BY <1>15 DEF CB!WaitGivesUp, CB!SetStatus
<1>16. CASE CB!CloseCancels BY <1>16 DEF CB!CloseCancels, CB!CancelOperation, CB!Fault
<1>17. CASE CB!CloseMarks BY <1>17 DEF CB!CloseMarks, CB!SetStatus
<1>18. CASE CB!CloseAnswers BY <1>18 DEF CB!CloseAnswers, CB!Put
<1>19. CASE CB!CloseReturns BY <1>19 DEF CB!CloseReturns
<1>20. CASE CB!ContextEnds BY <1>20 DEF CB!ContextEnds
<1>21. CASE CB!CloudEnds BY <1>21 DEF CB!CloudEnds
<1>22. CASE UNCHANGED CB!vars BY <1>22 DEF CB!vars
<1>. QED BY <1>1, <1>2, <1>3, <1>4, <1>5, <1>6, <1>7, <1>8, <1>9, <1>10, <1>11, <1>12,
            <1>13, <1>14, <1>15, <1>16, <1>17, <1>18, <1>19, <1>20, <1>21, <1>22
         DEF CB!Next, CB!RunSteps, CB!WaitSteps, CB!CloseSteps

\* Only executeBuild reports an outcome, read from a build that is over, and only after it
\* has retired the handle.
LEMMA CloudToldStep ==
    ASSUME CB!CloudBuildAssumption, CloudInv, [CB!Next]_(CB!vars)
    PROVE  CloudTold'
<1>0. (cloud = "succeeded" => cloud' = "succeeded") /\ (~active => ~active')
    BY CloudLasting
<1>. USE <1>0 DEF CloudInv, CB!TypeOK, CloudTold, CB!AnswerIsTrue
<1>1. CASE CB!CreateBuild BY <1>1 DEF CB!CreateBuild, CB!RunTo
<1>2. CASE CB!CreateBuildFails BY <1>2 DEF CB!CreateBuildFails, CB!RunEnds
<1>3. CASE CB!SetOperation BY <1>3 DEF CB!SetOperation, CB!RunTo
<1>4. CASE CB!MarkRunning BY <1>4 DEF CB!MarkRunning, CB!SetStatus, CB!RunTo
<1>5. CASE CB!SeeEnd BY <1>5 DEF CB!SeeEnd, CB!RunEnds, CB!Outcome
<1>6. CASE CB!SeeContextEnd BY <1>6 DEF CB!SeeContextEnd, CB!RunTo, CB!RunEnds
<1>7. CASE CB!PollFails BY <1>7 DEF CB!PollFails, CB!RunEnds
<1>8. CASE CB!CancelOwn BY <1>8 DEF CB!CancelOwn, CB!RunTo, CB!RunEnds
<1>9. CASE CB!SeeCancelled BY <1>9 DEF CB!SeeCancelled, CB!RunEnds, CB!Outcome
<1>10. CASE CB!Upload BY <1>10 DEF CB!Upload, CB!RunTo
<1>11. CASE CB!MarkCompleted BY <1>11 DEF CB!MarkCompleted, CB!SetStatus, CB!RunTo
<1>12. CASE CB!RetireThenAnswer BY <1>12 DEF CB!RetireThenAnswer, CB!Put, CB!RunTo
<1>13. CASE CB!TakeResult BY <1>13 DEF CB!TakeResult
<1>14. CASE CB!WaitCancels BY <1>14 DEF CB!WaitCancels
<1>15. CASE CB!WaitGivesUp BY <1>15 DEF CB!WaitGivesUp, CB!SetStatus
<1>16. CASE CB!CloseCancels BY <1>16 DEF CB!CloseCancels
<1>17. CASE CB!CloseMarks BY <1>17 DEF CB!CloseMarks, CB!SetStatus
<1>18. CASE CB!CloseAnswers BY <1>18 DEF CB!CloseAnswers, CB!Put
<1>19. CASE CB!CloseReturns BY <1>19 DEF CB!CloseReturns
<1>20. CASE CB!ContextEnds BY <1>20 DEF CB!ContextEnds
<1>21. CASE CB!CloudEnds BY <1>21 DEF CB!CloudEnds
<1>22. CASE UNCHANGED CB!vars BY <1>22 DEF CB!vars
<1>. QED BY <1>1, <1>2, <1>3, <1>4, <1>5, <1>6, <1>7, <1>8, <1>9, <1>10, <1>11, <1>12,
            <1>13, <1>14, <1>15, <1>16, <1>17, <1>18, <1>19, <1>20, <1>21, <1>22
         DEF CB!Next, CB!RunSteps, CB!WaitSteps, CB!CloseSteps

\* The six ways to the end of executeBuild; what else happens adds no build and takes no
\* cause away.
LEMMA CloudLeftStep ==
    ASSUME CB!CloudBuildAssumption, CloudInv, [CB!Next]_(CB!vars)
    PROVE  CloudLeft'
<1>0. /\ cloudFaults > 0 => cloudFaults' > 0
      /\ ctx # "live" => ctx' = ctx
      /\ opts' = opts
      /\ run.pc # "create" /\ cloud # "working" => cloud' # "working"
    BY CloudLasting
<1>. USE DEF CloudInv, CB!TypeOK, CloudAsked, CloudLeft, CloudEnding, CloudCause
<1>1. CASE CB!CreateBuild BY <1>0, <1>1 DEF CB!CreateBuild, CB!RunTo
<1>2. CASE CB!CreateBuildFails BY <1>0, <1>2 DEF CB!CreateBuildFails, CB!RunEnds, CB!Fault
<1>3. CASE CB!SetOperation BY <1>0, <1>3 DEF CB!SetOperation, CB!RunTo
<1>4. CASE CB!MarkRunning BY <1>0, <1>4 DEF CB!MarkRunning, CB!SetStatus, CB!RunTo
<1>5. CASE CB!SeeEnd BY <1>0, <1>5 DEF CB!SeeEnd, CB!RunEnds, CB!Over
<1>6. CASE CB!SeeContextEnd BY <1>0, <1>6 DEF CB!SeeContextEnd, CB!RunTo, CB!RunEnds
<1>7. CASE CB!PollFails BY <1>0, <1>7 DEF CB!PollFails, CB!RunEnds, CB!Fault
<1>8. CASE CB!CancelOwn BY <1>0, <1>8 DEF CB!CancelOwn, CB!CancelOperation, CB!RunTo,
                                          CB!RunEnds, CB!Fault
<1>9. CASE CB!SeeCancelled BY <1>0, <1>9 DEF CB!SeeCancelled, CB!RunEnds
<1>10. CASE CB!Upload BY <1>0, <1>10 DEF CB!Upload, CB!RunTo, CB!Fault
<1>11. CASE CB!MarkCompleted BY <1>0, <1>11 DEF CB!MarkCompleted, CB!SetStatus, CB!RunTo
<1>12. CASE CB!RetireThenAnswer BY <1>0, <1>12 DEF CB!RetireThenAnswer, CB!Put, CB!RunTo
<1>13. CASE CB!TakeResult BY <1>0, <1>13 DEF CB!TakeResult
<1>14. CASE CB!WaitCancels BY <1>0, <1>14 DEF CB!WaitCancels
<1>15. CASE CB!WaitGivesUp BY <1>0, <1>15 DEF CB!WaitGivesUp, CB!SetStatus
<1>16. CASE CB!CloseCancels BY <1>0, <1>16 DEF CB!CloseCancels
<1>17. CASE CB!CloseMarks BY <1>0, <1>17 DEF CB!CloseMarks, CB!SetStatus
<1>18. CASE CB!CloseAnswers BY <1>0, <1>18 DEF CB!CloseAnswers, CB!Put
<1>19. CASE CB!CloseReturns BY <1>0, <1>19 DEF CB!CloseReturns
<1>20. CASE CB!ContextEnds BY <1>0, <1>20 DEF CB!ContextEnds
<1>21. CASE CB!CloudEnds BY <1>0, <1>21 DEF CB!CloudEnds
<1>22. CASE UNCHANGED CB!vars BY <1>0, <1>22 DEF CB!vars
<1>. QED BY <1>1, <1>2, <1>3, <1>4, <1>5, <1>6, <1>7, <1>8, <1>9, <1>10, <1>11, <1>12,
            <1>13, <1>14, <1>15, <1>16, <1>17, <1>18, <1>19, <1>20, <1>21, <1>22
         DEF CB!Next, CB!RunSteps, CB!WaitSteps, CB!CloseSteps

LEMMA CloudInductive == ASSUME CB!CloudBuildAssumption PROVE CB!Spec => []CloudInv
<1>1. CB!Init => CloudInv
    BY CloudInit
<1>2. CloudInv /\ [CB!Next]_(CB!vars) => CloudInv'
    BY CloudTypeStep, CloudAskedStep, CloudToldStep, CloudLeftStep DEF CloudInv
<1>. QED BY <1>1, <1>2, PTL DEF CB!Spec

-----------------------------------------------------------------------------
\* The session, its iterations and the calls on them, the builds of both executors, their
\* Wait and their Close keep their types.
THEOREM TypeCorrect == ASSUME IsFiniteSet(Builds) PROVE Spec => []TypeOK
<1>1. AS!Spec => []AS!TypeOK
    BY PartsAssumption, AS!TypeCorrect
<1>2. CB!Spec => []CB!TypeOK
    <2>1. CloudInv => CB!TypeOK
        BY DEF CloudInv
    <2>. QED BY <2>1, PartsAssumption, CloudInductive, PTL
<1>3. SB!Spec => []SB!TypeOK
    BY PartsAssumption, SB!TypeCorrect DEF IsFiniteSet, SB!IsFiniteSet
<1>. QED BY <1>1, <1>2, <1>3, SessionPart, CloudPart, ScratchPart, PTL DEF TypeOK

\* reserveIteration gives every iteration of a session a number of its own, although
\* AgentCreate writes its copy of the whole record.
THEOREM IterationsDiffer == Spec => []NumbersAreUnique
<1>1. AS!Spec => []AS!NumbersAreUnique
    BY PartsAssumption, AS!IterationsDiffer
<1>. QED BY <1>1, SessionPart, PTL DEF NumbersAreUnique

\* AgentComplete names as the success of a session an iteration recorded as one.
THEOREM NamesASuccess == Spec => []SuccessIsRecorded
<1>1. AS!Spec => []AS!SuccessIsRecorded
    BY PartsAssumption, AS!NamesASuccess
<1>. QED BY <1>1, SessionPart, PTL DEF SuccessIsRecorded

\* AgentComplete's completion of a running session is never overwritten, and releases its
\* scratch unless that fails.
THEOREM CompletionStays == Spec => []CompletionLasts
<1>1. AS!Spec => []AS!CompletionLasts
    BY PartsAssumption, AS!CompletionStays
<1>. QED BY <1>1, SessionPart, PTL DEF CompletionLasts

\* gcbHandle.Wait returns an outcome only of a build that is retired, and a success only
\* of one that succeeded.
THEOREM TellsTheTruth == Spec => []AnswerIsTrue
<1>1. CloudInv => AnswerIsTrue
    BY DEF CloudInv, CloudTold, AnswerIsTrue
<1>. QED BY <1>1, PartsAssumption, CloudInductive, CloudPart, PTL

\* doBuild, Wait and Close leave a build alone in Cloud Build only for a named cause.
THEOREM NoStrayWithoutCause == Spec => []StrayHasCause
<1>1. CloudInv => StrayHasCause
    BY DEF CloudInv, CloudLeft, StrayHasCause, CB!StrayHasCause, CloudCause, CloudEnding
<1>. QED BY <1>1, PartsAssumption, CloudInductive, CloudPart, PTL

\* After DockerRunExecutor.Close no build, not even one that takes its slot then, has a
\* command accepted.
THEOREM NothingAfterClose == ASSUME IsFiniteSet(Builds) PROVE Spec => []ClosedIsQuiet
<1>1. SB!Spec => []SB!ClosedIsQuiet
    BY PartsAssumption, SB!NothingAfterClose DEF IsFiniteSet, SB!IsFiniteSet
<1>. QED BY <1>1, ScratchPart, PTL DEF ClosedIsQuiet

\* With one slot, the containers of runBuild are the running build's own, unless some
\* command was left running.
THEOREM OneBuildOneContainer ==
    ASSUME IsFiniteSet(Builds), MaxParallel = 1
    PROVE  Spec => []OnlyItsContainer
<1>1. SB!Spec => []SB!OnlyItsContainer
    BY PartsAssumption, SB!OneBuildOneContainer DEF IsFiniteSet, SB!IsFiniteSet
<1>. QED BY <1>1, ScratchPart, PTL DEF OnlyItsContainer
=============================================================================
