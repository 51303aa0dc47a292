-------------------------- MODULE TaskQueueProofs --------------------------
(***************************************************************************)
(* Proofs about TaskQueue, for any number of tasks, threads, processes,    *)
(* failures and crashes.  On both backends:                                *)
(*                                                                         *)
(*   TypeCorrect         - types are kept;                                 *)
(*   HistoryIsLinear     - retries of a task are one chain.                *)
(*                                                                         *)
(* With the thread pool (~ Durable):                                       *)
(*                                                                         *)
(*   DeliveredOnce       - one holder per task at any time;                *)
(*   RunsMatchTasks      - runs tell what became of their tasks;           *)
(*   StagingIsAccounted  - staged directories are there when needed, and   *)
(*                         somebody answers for each;                      *)
(*   PoolImplementsChain - the refinement of RetryChain.                   *)
(*                                                                         *)
(* PoolInv is inductive, whatever fails: where a task is (Placed), what    *)
(* rows, requests and workers know of each other (RowsFit, RequestsFit,    *)
(* WorkersFit), and who owns a run or a directory (RunsOwned, DirsOwned).  *)
(* Story is inductive beside it, and about executions in which nothing has *)
(* failed yet: runs tell what their tasks do (Tells), a directory has an   *)
(* owner (Accounted), and the runs without a task are no more than the     *)
(* retries lost between processes (OrphanBound).                           *)
(***************************************************************************)
EXTENDS TaskQueue, FiniteSetTheorems, FunctionTheorems, TLAPS

-----------------------------------------------------------------------------
(* Types and the history of retries, on both backends.                     *)

LEMMA InitType == Init => TypeOK
BY NoneAssumption DEF Init, TypeOK, NoTask, NoReq, NoExec, TaskRow, ReqState,
   ExecState, TaskStatus, Types, Result, RunStatus, ReqPc, ExecPc, Queue

LEMMA QueueOfType == \A x \in Req \cup Worker : QueueOf(ProcOf[x]) \in Queue
BY ProcOfAssumption DEF QueueOf, Queue

LEMMA TypeNext == TypeOK /\ HoldersHaveTask /\ [Next]_vars => TypeOK'
<1> SUFFICES ASSUME TypeOK, HoldersHaveTask, [Next]_vars PROVE TypeOK'
  OBVIOUS
<1>a. /\ \A q \in Req : req[q] \in ReqState
      /\ \A w \in Worker : exec[w] \in ExecState
      /\ \A t \in Task : task[t] \in TaskRow
  BY DEF TypeOK
<1>1. ASSUME NEW q \in Req, Upload(q) PROVE TypeOK'
  <2>1. PICK d \in Dir :
          /\ dir' = [dir EXCEPT ![d] = "present"]
          /\ req' = [req EXCEPT ![q] = [NoReq EXCEPT !.pc = "prepare",
                       !.type = "knowledge_base_upload", !.dir = d]]
    BY <1>1 DEF Upload
  <2>2. req' \in [Req -> ReqState]
    BY <2>1 DEF TypeOK, ReqState, NoReq, ReqPc, Types
  <2> QED BY <1>1, <2>1, <2>2 DEF Upload, TypeOK
<1>2. ASSUME NEW q \in Req, IngestionDag(q) PROVE TypeOK'
  BY <1>2 DEF IngestionDag, TypeOK, ReqState, NoReq, ReqPc, Types
<1>3. ASSUME NEW q \in Req, SourceIngest(q) PROVE TypeOK'
  BY <1>3 DEF SourceIngest, TypeOK, ReqState, NoReq, ReqPc, Types
<1>4. ASSUME NEW q \in Req, NEW t \in Task, Retry(q, t) PROVE TypeOK'
  BY <1>4 DEF Retry, TypeOK, ReqState, NoReq, ReqPc, Types, TaskRow
<1>5. ASSUME NEW q \in Req, CreateRun(q) PROVE TypeOK'
  <2>1. PICK r \in Run :
          /\ run' = [run EXCEPT ![r] = "running"]
          /\ req' = [req EXCEPT ![q] = [@ EXCEPT !.pc = "enqueue", !.run = r]]
    BY <1>5 DEF CreateRun
  <2>r. [req[q] EXCEPT !.pc = "enqueue", !.run = r] \in ReqState
    BY <1>a DEF ReqState, ReqPc
  <2>2. req' \in [Req -> ReqState]
    BY <2>1, <2>r DEF TypeOK
  <2> QED BY <1>5, <2>1, <2>2 DEF CreateRun, TypeOK, RunStatus
<1>6. ASSUME NEW q \in Req, Enqueue(q) PROVE TypeOK'
  <2>1. PICK u \in Task :
          /\ task' = [task EXCEPT ![u] = NewRow(q)]
          /\ req' = [req EXCEPT ![q] = [@ EXCEPT !.pc = "submit", !.task = u]]
    BY <1>6 DEF Enqueue, Absent
  <2>2. NewRow(q) \in TaskRow
    BY DEF NewRow, TypeOK, ReqState, TaskRow, TaskStatus, Result
  <2>r. [req[q] EXCEPT !.pc = "submit", !.task = u] \in ReqState
    BY <1>a DEF ReqState, ReqPc
  <2>3. req' \in [Req -> ReqState]
    BY <2>1, <2>r DEF TypeOK
  <2> QED BY <1>6, <2>1, <2>2, <2>3 DEF Enqueue, TypeOK
<1>7. ASSUME NEW q \in Req, EnqueueRetry(q) PROVE TypeOK'
  <2> DEFINE t == req[q].target
  <2>1. PICK u \in Task :
          /\ task' = [task EXCEPT ![u] = NewRow(q), ![t] = LinkedRow(t, u)]
          /\ req' = [req EXCEPT ![q] = [@ EXCEPT !.pc = "submit", !.task = u]]
    BY <1>7 DEF EnqueueRetry, Absent
  <2>2. NewRow(q) \in TaskRow
    BY DEF NewRow, TypeOK, ReqState, TaskRow, TaskStatus, Result
  <2>3. t \in Task
    BY <1>7 DEF EnqueueRetry, TypeOK, ReqState
  <2>4. LinkedRow(t, u) \in TaskRow
    BY <2>3 DEF LinkedRow, TypeOK, TaskRow
  <2>r. [req[q] EXCEPT !.pc = "submit", !.task = u] \in ReqState
    BY <1>a DEF ReqState, ReqPc
  <2>5. req' \in [Req -> ReqState]
    BY <2>1, <2>r DEF TypeOK
  <2> QED BY <1>7, <2>1, <2>2, <2>4, <2>5 DEF EnqueueRetry, TypeOK
<1>8. ASSUME NEW q \in Req, RetryRejected(q) PROVE TypeOK'
  BY <1>8 DEF RetryRejected, TypeOK, ReqState, ReqPc, NoReq
<1>9. ASSUME NEW q \in Req, Submit(q) PROVE TypeOK'
  BY <1>9 DEF Submit, TypeOK, ReqState, ReqPc, NoReq, HoldersHaveTask, RequestHolds, WorkerHolds
<1>10. ASSUME NEW q \in Req, RequestFails(q) PROVE TypeOK'
  BY <1>10 DEF RequestFails, TypeOK, ReqState, ReqPc, NoReq
<1>11. ASSUME NEW w \in Worker, Take(w) PROVE TypeOK'
  <2> DEFINE c == QueueOf(ProcOf[w])
  <2>1. PICK t \in queue[c] :
          /\ exec' = [exec EXCEPT ![w] = [NoExec EXCEPT !.pc = "start", !.task = t]]
          /\ queue' = Dequeued(c, t)
    BY <1>11 DEF Take
  <2>2. t \in Task
    BY QueueOfType DEF TypeOK
  <2>3. exec' \in [Worker -> ExecState]
    BY <2>1, <2>2 DEF TypeOK, ExecState, ExecPc, NoExec, Result
  <2>4. queue' \in [Queue -> SUBSET Task]
    BY <2>1 DEF TypeOK, Dequeued
  <2> QED BY <1>11, <2>3, <2>4 DEF Take, TypeOK
<1>12. ASSUME NEW w \in Worker, Start(w) PROVE TypeOK'
  <2> DEFINE t == exec[w].task
  <2>1. t \in Task
    BY <1>12 DEF Start, HoldersHaveTask, RequestHolds, WorkerHolds
  <2>2. [task[t] EXCEPT !.status = "running", !.result = None,
           !.attempts = task[t].attempts + 1] \in TaskRow
    <3> DEFINE x == task[t]  n == x.attempts + 1
    <3>1. x \in TaskRow
      BY <1>a, <2>1
    <3>2. n \in Nat
      BY <3>1 DEF TaskRow
    <3> HIDE DEF x, n
    <3>3. [x EXCEPT !.status = "running", !.result = None, !.attempts = n] \in TaskRow
      BY <3>1, <3>2 DEF TaskRow, TaskStatus, Result
    <3> QED BY <3>3 DEF x, n
  <2>3. FirstStep(Row(w).type) \in ExecPc
    BY DEF FirstStep, ExecPc
  <2>4. [exec[w] EXCEPT !.pc = FirstStep(Row(w).type)] \in ExecState
    BY <1>a, <2>3 DEF ExecState
  <2>5. task' \in [Task -> TaskRow]
    <3>1. task' = [task EXCEPT ![t] = [task[t] EXCEPT !.status = "running",
                     !.result = None, !.attempts = task[t].attempts + 1]]
      BY <1>12 DEF Start, SetRunning
    <3> QED BY <2>2, <3>1 DEF TypeOK
  <2>6. exec' \in [Worker -> ExecState]
    BY <1>12, <2>4 DEF Start, TypeOK
  <2> QED BY <1>12, <2>5, <2>6 DEF Start, TypeOK
<1>13. ASSUME NEW w \in Worker, Ingest(w) PROVE TypeOK'
  <2>1. /\ [exec[w] EXCEPT !.pc = "cleanup", !.raised = TRUE, !.result = None] \in ExecState
        /\ [exec[w] EXCEPT !.pc = "cleanup", !.raised = TRUE, !.retain = TRUE] \in ExecState
        /\ [exec[w] EXCEPT !.pc = "lock", !.result = "completed"] \in ExecState
        /\ [exec[w] EXCEPT !.pc = "lock", !.retain = TRUE,
                           !.result = "completed_with_failures"] \in ExecState
    BY <1>a DEF ExecState, ExecPc, Result
  <2>2. exec' \in [Worker -> ExecState]
    BY <1>13, <2>1 DEF Ingest, Raise, TypeOK
  <2>3. run' \in [Run -> RunStatus]
    BY <1>13 DEF Ingest, TypeOK, RunStatus
  <2> QED BY <1>13, <2>2, <2>3 DEF Ingest, TypeOK
<1>14. ASSUME NEW w \in Worker, LockIndex(w) PROVE TypeOK'
  BY <1>14 DEF LockIndex, TypeOK, ExecState, ExecPc
<1>15. ASSUME NEW w \in Worker, Index(w) PROVE TypeOK'
  BY <1>15 DEF Index, TypeOK, ExecState, ExecPc
<1>r. ASSUME NEW w \in Worker, NEW pc \in {"cleanup", "report"}, Raise(w, pc)
      PROVE exec' \in [Worker -> ExecState]
  <2>1. [exec[w] EXCEPT !.pc = pc, !.raised = TRUE, !.result = None] \in ExecState
    BY <1>a DEF ExecState, ExecPc, Result
  <2> QED BY <1>r, <2>1 DEF Raise, TypeOK
<1>16. ASSUME NEW w \in Worker, MarkRunFailed(w) PROVE TypeOK'
  <2>1. exec' \in [Worker -> ExecState]
    BY <1>16, <1>r DEF MarkRunFailed
  <2> QED BY <1>16, <2>1 DEF MarkRunFailed, TypeOK, RunStatus, FailedStatus
<1>17. ASSUME NEW w \in Worker, Cleanup(w) PROVE TypeOK'
  <2>1. exec' \in [Worker -> ExecState]
    BY <1>17 DEF Cleanup, TypeOK, ExecState, ExecPc
  <2>2. dir' \in [Dir -> {"unused", "present", "removed"}]
    BY <1>17 DEF Cleanup, TypeOK
  <2> QED BY <1>17, <2>1, <2>2 DEF Cleanup, TypeOK
<1>18. ASSUME NEW w \in Worker, BeginDag(w) PROVE TypeOK'
  <2>1. exec' \in [Worker -> ExecState]
    BY <1>18 DEF BeginDag, TypeOK, ExecState, ExecPc
  <2>2. run' \in [Run -> RunStatus]
    BY <1>18 DEF BeginDag, TypeOK, RunStatus
  <2> QED BY <1>18, <2>1, <2>2 DEF BeginDag, TypeOK
<1>19. ASSUME NEW w \in Worker, EndDag(w) PROVE TypeOK'
  <2>1. \A s \in {"completed", "completed_with_failures"} :
          [exec[w] EXCEPT !.pc = "report", !.result = s] \in ExecState
    BY <1>a DEF ExecState, ExecPc, Result
  <2>2. exec' \in [Worker -> ExecState]
    BY <1>19, <2>1, <1>r DEF EndDag, TypeOK
  <2>3. run' \in [Run -> RunStatus]
    BY <1>19 DEF EndDag, TypeOK, RunStatus
  <2> QED BY <1>19, <2>2, <2>3 DEF EndDag, TypeOK
<1>20. ASSUME NEW w \in Worker, EndSource(w) PROVE TypeOK'
  <2>1. [exec[w] EXCEPT !.pc = "report", !.result = "completed"] \in ExecState
    BY <1>a DEF ExecState, ExecPc, Result
  <2>2. exec' \in [Worker -> ExecState]
    BY <1>20, <2>1, <1>r DEF EndSource, TypeOK
  <2> QED BY <1>20, <2>2 DEF EndSource, TypeOK
<1>21. ASSUME NEW w \in Worker, Report(w) PROVE TypeOK'
  <2> DEFINE t == exec[w].task
  <2>1. t \in Task /\ exec[w].result \in Result
    BY <1>21, <1>a DEF Report, HoldersHaveTask, RequestHolds, WorkerHolds, ExecState
  <2>2. [task[t] EXCEPT !.status = IF exec[w].raised THEN "failed" ELSE "completed",
                        !.result = exec[w].result] \in TaskRow
    <3> DEFINE x == task[t]
               s == IF exec[w].raised THEN "failed" ELSE "completed"
               v == exec[w].result
    <3>1. x \in TaskRow /\ s \in TaskStatus /\ v \in Result
      BY <1>a, <2>1 DEF TaskStatus
    <3> HIDE DEF x, s, v
    <3>2. [x EXCEPT !.status = s, !.result = v] \in TaskRow
      BY <3>1 DEF TaskRow
    <3> QED BY <3>2 DEF x, s, v
  <2>3. [exec[w] EXCEPT !.pc = "ack"] \in ExecState
    BY <1>a DEF ExecState, ExecPc
  <2> QED BY <1>21, <2>1, <2>2, <2>3 DEF Report, TypeOK
<1>22. ASSUME NEW w \in Worker, Ack(w) PROVE TypeOK'
  BY <1>22 DEF Ack, TypeOK, ExecState, ExecPc, NoExec, Result
<1>23. ASSUME NEW w \in Worker, Requeue(w) PROVE TypeOK'
  <2>1. exec[w].task \in Task
    BY <1>23 DEF Requeue, HoldersHaveTask, RequestHolds, WorkerHolds
  <2>2. queue' \in [Queue -> SUBSET Task]
    BY <1>23, <2>1 DEF Requeue, TypeOK
  <2> QED BY <1>23, <2>2 DEF Requeue, TypeOK
<1>24. ASSUME NEW p \in Proc, Crash(p) PROVE TypeOK'
  <2>1. Held(p) \subseteq Task
    BY DEF Held, HoldersHaveTask, RequestHolds, WorkerHolds
  <2>2. NoReq \in ReqState /\ NoExec \in ExecState
    BY DEF NoReq, NoExec, ReqState, ExecState, ReqPc, ExecPc, Result
  <2>3. req' \in [Req -> ReqState] /\ exec' \in [Worker -> ExecState]
    BY <1>24, <1>a, <2>2 DEF Crash
  <2>4. queue' \in [Queue -> SUBSET Task]
    BY <1>24, <2>1 DEF Crash, TypeOK
  <2> QED BY <1>24, <2>3, <2>4 DEF Crash, TypeOK
<1>25. CASE UNCHANGED vars
  BY <1>25 DEF vars, TypeOK
<1>26. ASSUME NEW q \in Req, SubmitRaises(q) PROVE TypeOK'
  BY <1>26 DEF SubmitRaises, TypeOK, ReqState, ReqPc, NoReq
<1>27. ASSUME NEW w \in Worker, JobFails(w) PROVE TypeOK'
  <2>1. NoExec \in ExecState
    BY DEF NoExec, ExecState, ExecPc, Result
  <2>2. exec' \in [Worker -> ExecState]
    BY <1>27, <1>r, <2>1 DEF JobFails, TypeOK
  <2> QED BY <1>27, <2>2 DEF JobFails, TypeOK
<1> QED
  BY <1>1, <1>2, <1>3, <1>4, <1>5, <1>6, <1>7, <1>8, <1>9, <1>10, <1>11, <1>12, <1>13,
     <1>14, <1>15, <1>16, <1>17, <1>18, <1>19, <1>20, <1>21, <1>22, <1>23, <1>24, <1>25,
     <1>26, <1>27
  DEF Next, RequestStep, WorkerStep, Quiescent

-----------------------------------------------------------------------------
(* Which actions write which table.                                        *)

LEMMA TaskWriters ==
  [Next]_vars =>
    \/ UNCHANGED task
    \/ \E q \in Req : Enqueue(q) \/ EnqueueRetry(q)
    \/ \E w \in Worker : Start(w) \/ Report(w)
<1> SUFFICES ASSUME [Next]_vars, task' # task
             PROVE  \/ \E q \in Req : Enqueue(q) \/ EnqueueRetry(q)
                    \/ \E w \in Worker : Start(w) \/ Report(w)
  OBVIOUS
<1>1. ~ UNCHANGED vars
  BY DEF vars
<1>2. ASSUME NEW q \in Req
      PROVE  ~ (\/ Upload(q) \/ IngestionDag(q) \/ SourceIngest(q)
                \/ (\E t \in Task : Retry(q, t))
                \/ CreateRun(q) \/ RetryRejected(q) \/ Submit(q) \/ SubmitRaises(q)
                \/ RequestFails(q))
  BY DEF Upload, IngestionDag, SourceIngest, Retry, CreateRun, RetryRejected, Submit,
         SubmitRaises, RequestFails
<1>3. ASSUME NEW w \in Worker
      PROVE  ~ (\/ Take(w) \/ Ingest(w) \/ LockIndex(w) \/ Index(w) \/ MarkRunFailed(w)
                \/ Cleanup(w) \/ BeginDag(w) \/ EndDag(w) \/ EndSource(w) \/ Ack(w)
                \/ Requeue(w) \/ JobFails(w))
  BY DEF Take, Ingest, LockIndex, Index, MarkRunFailed, Cleanup, BeginDag, EndDag,
         EndSource, Ack, Requeue, JobFails
<1>4. \A p \in Proc : ~ Crash(p)
  BY DEF Crash
<1> QED BY <1>1, <1>2, <1>3, <1>4 DEF Next, RequestStep, WorkerStep, Quiescent

\* The steps by which a worker carries on with the task it has.
Carries(w) ==
  \/ Start(w) \/ Ingest(w) \/ LockIndex(w) \/ Index(w) \/ MarkRunFailed(w) \/ Cleanup(w)
  \/ BeginDag(w) \/ EndDag(w) \/ EndSource(w) \/ Report(w)

LEMMA CarriesFrame ==
  ASSUME TypeOK, NEW w \in Worker, Carries(w)
  PROVE  /\ \A x \in Worker \ {w} : exec'[x] = exec[x]
         /\ exec'[w].task = exec[w].task
         /\ exec[w].pc # "idle" /\ exec[w].pc # "ack"
         /\ exec'[w].pc # "idle" /\ exec'[w].pc # "start"
         /\ UNCHANGED <<queue, req>>
<1> DEFINE Frame == /\ \A x \in Worker \ {w} : exec'[x] = exec[x]
                    /\ exec'[w].task = exec[w].task
                    /\ exec'[w].pc # "idle" /\ exec'[w].pc # "start"
<1>0. exec \in [Worker -> ExecState] /\ exec[w] \in ExecState
  BY DEF TypeOK
<1>r. ASSUME NEW pc \in {"cleanup", "report"}, Raise(w, pc) PROVE Frame
  BY <1>0, <1>r DEF Raise, ExecState
<1>1. CASE Start(w)
  <2>1. FirstStep(Row(w).type) \in {"ingest", "dag", "source"}
    BY DEF FirstStep
  <2>2. Frame
    BY <1>0, <1>1, <2>1 DEF Start, ExecState
  <2> QED BY <1>1, <2>2 DEF Start
<1>2. CASE Ingest(w)
  <2>1. ASSUME exec' = [exec EXCEPT ![w] = [@ EXCEPT !.pc = "cleanup", !.raised = TRUE,
                                                      !.retain = TRUE]]
        PROVE  Frame
    BY <1>0, <2>1 DEF ExecState
  <2>2. ASSUME exec' = [exec EXCEPT ![w] = [@ EXCEPT !.pc = "lock", !.result = "completed"]]
        PROVE  Frame
    BY <1>0, <2>2 DEF ExecState
  <2>3. ASSUME exec' = [exec EXCEPT ![w] = [@ EXCEPT !.pc = "lock", !.retain = TRUE,
                                                   !.result = "completed_with_failures"]]
        PROVE  Frame
    BY <1>0, <2>3 DEF ExecState
  <2>4. Frame
    BY <1>2, <1>r, <2>1, <2>2, <2>3 DEF Ingest
  <2> QED BY <1>2, <2>4 DEF Ingest
<1>3. CASE LockIndex(w)
  BY <1>0, <1>3 DEF LockIndex, ExecState
<1>4. CASE Index(w)
  BY <1>0, <1>4 DEF Index, ExecState
<1>5. CASE MarkRunFailed(w)
  BY <1>r, <1>5 DEF MarkRunFailed
<1>6. CASE Cleanup(w)
  <2>1. Frame
    BY <1>0, <1>6 DEF Cleanup, ExecState
  <2> QED BY <1>6, <2>1 DEF Cleanup
<1>7. CASE BeginDag(w)
  <2>1. Frame
    BY <1>0, <1>7 DEF BeginDag, ExecState
  <2> QED BY <1>7, <2>1 DEF BeginDag
<1>8. CASE EndDag(w)
  <2>1. ASSUME NEW s, exec' = [exec EXCEPT ![w] = [@ EXCEPT !.pc = "report", !.result = s]]
        PROVE  Frame
    BY <1>0, <2>1 DEF ExecState
  <2>2. Frame
    BY <1>8, <1>r, <2>1 DEF EndDag
  <2> QED BY <1>8, <2>2 DEF EndDag
<1>9. CASE EndSource(w)
  <2>1. ASSUME exec' = [exec EXCEPT ![w] = [@ EXCEPT !.pc = "report", !.result = "completed"]]
        PROVE  Frame
    BY <1>0, <2>1 DEF ExecState
  <2>2. Frame
    BY <1>9, <1>r, <2>1 DEF EndSource
  <2> QED BY <1>9, <2>2 DEF EndSource
<1>10. CASE Report(w)
  <2>1. Frame
    BY <1>0, <1>10 DEF Report, ExecState
  <2> QED BY <1>10, <2>1 DEF Report
<1> QED
  BY <1>1, <1>2, <1>3, <1>4, <1>5, <1>6, <1>7, <1>8, <1>9, <1>10 DEF Carries

LEMMA HoldersNext == TypeOK /\ HoldersHaveTask /\ [Next]_vars => HoldersHaveTask'
<1> SUFFICES ASSUME TypeOK, HoldersHaveTask, [Next]_vars PROVE HoldersHaveTask'
  OBVIOUS
<1>0. /\ RequestHolds /\ WorkerHolds
      /\ req \in [Req -> ReqState] /\ exec \in [Worker -> ExecState]
  BY DEF HoldersHaveTask, TypeOK
<1>q. ASSUME UNCHANGED req PROVE RequestHolds'
  BY <1>0, <1>q DEF RequestHolds
<1>w. ASSUME UNCHANGED exec PROVE WorkerHolds'
  BY <1>0, <1>w DEF WorkerHolds
<1>f. ASSUME NEW q \in Req, NEW v, req' = [req EXCEPT ![q] = v], v.pc # "submit"
      PROVE  RequestHolds'
  BY <1>0, <1>f DEF RequestHolds
<1>n. /\ NoReq.pc # "submit"
      /\ \A d \in Dir : [NoReq EXCEPT !.pc = "prepare", !.type = "knowledge_base_upload",
                                        !.dir = d].pc # "submit"
      /\ [NoReq EXCEPT !.pc = "prepare", !.type = "pipeline_dag_ingestion"].pc # "submit"
      /\ [NoReq EXCEPT !.pc = "enqueue", !.type = "source_ingest"].pc # "submit"
      /\ \A t \in Task :
           [NoReq EXCEPT !.pc = "prepare", !.type = task[t].type, !.target = t,
                         !.attempts = task[t].attempts, !.dir = task[t].dir].pc # "submit"
  BY DEF NoReq
<1>1. ASSUME NEW q \in Req, Upload(q) PROVE RequestHolds' /\ WorkerHolds'
  <2>1. PICK d \in Dir : req' = [req EXCEPT ![q] = [NoReq EXCEPT !.pc = "prepare",
                           !.type = "knowledge_base_upload", !.dir = d]]
    BY <1>1 DEF Upload
  <2> QED BY <1>1, <2>1, <1>n, <1>f, <1>w DEF Upload
<1>2. ASSUME NEW q \in Req, IngestionDag(q) PROVE RequestHolds' /\ WorkerHolds'
  BY <1>2, <1>n, <1>f, <1>w DEF IngestionDag
<1>3. ASSUME NEW q \in Req, SourceIngest(q) PROVE RequestHolds' /\ WorkerHolds'
  BY <1>3, <1>n, <1>f, <1>w DEF SourceIngest
<1>4. ASSUME NEW q \in Req, NEW t \in Task, Retry(q, t) PROVE RequestHolds' /\ WorkerHolds'
  BY <1>4, <1>n, <1>f, <1>w DEF Retry
<1>5. ASSUME NEW q \in Req, CreateRun(q) PROVE RequestHolds' /\ WorkerHolds'
  <2>1. PICK r \in Run : req' = [req EXCEPT ![q] = [@ EXCEPT !.pc = "enqueue", !.run = r]]
    BY <1>5 DEF CreateRun
  <2>2. [req[q] EXCEPT !.pc = "enqueue", !.run = r].pc # "submit"
    BY <1>0 DEF ReqState
  <2> QED BY <1>5, <2>1, <2>2, <1>f, <1>w DEF CreateRun
<1>6. ASSUME NEW q \in Req, Enqueue(q) \/ EnqueueRetry(q) PROVE RequestHolds' /\ WorkerHolds'
  <2>1. PICK u \in Task : req' = [req EXCEPT ![q] = [@ EXCEPT !.pc = "submit", !.task = u]]
    BY <1>6 DEF Enqueue, EnqueueRetry, Absent
  <2>2. [req[q] EXCEPT !.pc = "submit", !.task = u].task = u
    BY <1>0 DEF ReqState
  <2>3. RequestHolds'
    BY <1>0, <2>1, <2>2 DEF RequestHolds
  <2> QED BY <1>6, <2>3, <1>w DEF Enqueue, EnqueueRetry
<1>7. ASSUME NEW q \in Req, RetryRejected(q) PROVE RequestHolds' /\ WorkerHolds'
  BY <1>7, <1>n, <1>f, <1>w DEF RetryRejected
<1>8. ASSUME NEW q \in Req, Submit(q) PROVE RequestHolds' /\ WorkerHolds'
  BY <1>8, <1>n, <1>f, <1>w DEF Submit
<1>9. ASSUME NEW q \in Req, RequestFails(q) PROVE RequestHolds' /\ WorkerHolds'
  BY <1>9, <1>n, <1>f, <1>w DEF RequestFails
<1>10. ASSUME NEW w \in Worker, Take(w) PROVE RequestHolds' /\ WorkerHolds'
  <2>1. PICK t \in Task : exec' = [exec EXCEPT ![w] = [NoExec EXCEPT !.pc = "start", !.task = t]]
    BY <1>10, QueueOfType DEF Take, TypeOK
  <2>2. WorkerHolds'
    BY <1>0, <2>1 DEF WorkerHolds, NoExec
  <2> QED BY <1>10, <2>2, <1>q DEF Take
<1>11. ASSUME NEW w \in Worker, Carries(w) PROVE RequestHolds' /\ WorkerHolds'
  <2>1. /\ \A x \in Worker \ {w} : exec'[x] = exec[x]
        /\ exec'[w].task = exec[w].task
        /\ exec[w].pc # "idle" /\ exec'[w].pc # "idle" /\ UNCHANGED req
    BY <1>11, CarriesFrame
  <2> QED BY <1>0, <2>1, <1>q DEF WorkerHolds
<1>12. ASSUME NEW w \in Worker, Ack(w) PROVE RequestHolds' /\ WorkerHolds'
  <2>1. WorkerHolds'
    BY <1>0, <1>12 DEF Ack, WorkerHolds, NoExec
  <2> QED BY <1>12, <2>1, <1>q DEF Ack
<1>a. ASSUME NEW q \in Req, SubmitRaises(q) PROVE RequestHolds' /\ WorkerHolds'
  BY <1>a, <1>n, <1>f, <1>w DEF SubmitRaises
<1>b. ASSUME NEW w \in Worker, JobFails(w) PROVE RequestHolds' /\ WorkerHolds'
  <2>1. ASSUME exec' = [exec EXCEPT ![w] = NoExec] PROVE WorkerHolds'
    BY <1>0, <2>1 DEF WorkerHolds, NoExec
  <2>2. ASSUME exec[w].pc = "markfailed", Raise(w, "cleanup") PROVE WorkerHolds'
    BY <1>0, <2>2 DEF WorkerHolds, Raise, ExecState
  <2>3. WorkerHolds'
    BY <1>b, <2>1, <2>2 DEF JobFails
  <2> QED BY <1>b, <2>3, <1>q DEF JobFails
<1>13. ASSUME NEW w \in Worker, Requeue(w) PROVE RequestHolds' /\ WorkerHolds'
  BY <1>13, <1>q, <1>w DEF Requeue
<1>14. ASSUME NEW p \in Proc, Crash(p) PROVE RequestHolds' /\ WorkerHolds'
  <2>1. RequestHolds'
    BY <1>0, <1>14 DEF Crash, RequestHolds, NoReq
  <2>2. WorkerHolds'
    BY <1>0, <1>14 DEF Crash, WorkerHolds, NoExec
  <2> QED BY <2>1, <2>2
<1>15. ASSUME UNCHANGED vars PROVE RequestHolds' /\ WorkerHolds'
  <2>1. UNCHANGED req /\ UNCHANGED exec
    BY <1>15 DEF vars
  <2> QED BY <2>1, <1>q, <1>w
<1>16. RequestHolds' /\ WorkerHolds'
  BY <1>1, <1>2, <1>3, <1>4, <1>5, <1>6, <1>7, <1>8, <1>9, <1>10, <1>11, <1>12, <1>13,
     <1>14, <1>15, <1>a, <1>b
  DEF Next, RequestStep, WorkerStep, Carries, Quiescent
<1> QED BY <1>16 DEF HoldersHaveTask

-----------------------------------------------------------------------------
(* Retry history is linear, whichever processes race and whatever crashes.  *)

\* What the worker writes to a row touches neither its links nor its existence.
LEMMA WorkerWrites ==
  ASSUME TypeOK, HoldersHaveTask, NEW w \in Worker, Start(w) \/ Report(w)
  PROVE  \A t \in Task :
           /\ task'[t].next = task[t].next /\ task'[t].prev = task[t].prev
           /\ task'[t].status = "absent" => task'[t] = task[t]
<1>1. task \in [Task -> TaskRow] /\ exec[w].task \in Task
  BY DEF TypeOK, HoldersHaveTask, WorkerHolds, Start, Report
<1>2. CASE Start(w)
  <2> DEFINE x == exec[w].task  n == task[x].attempts + 1
  <2>1. task' = [task EXCEPT ![x] = [@ EXCEPT !.status = "running", !.result = None,
                                              !.attempts = n]]
    BY <1>2 DEF Start, SetRunning
  <2> HIDE DEF n
  <2> QED BY <1>1, <2>1 DEF TaskRow
<1>3. CASE Report(w)
  <2> DEFINE x == exec[w].task
             s == IF exec[w].raised THEN "failed" ELSE "completed"
  <2>1. task' = [task EXCEPT ![x] = [@ EXCEPT !.status = s, !.result = exec[w].result]]
    BY <1>3 DEF Report
  <2>2. s # "absent"
    OBVIOUS
  <2> HIDE DEF s
  <2> QED BY <1>1, <2>1, <2>2 DEF TaskRow
<1> QED BY <1>2, <1>3

\* The insert of a new task, and the insert and link of a retry.
LEMMA EnqueueWrites ==
  ASSUME TypeOK, AbsentIsBlank, NEW q \in Req, Enqueue(q)
  PROVE  \E u \in Task : /\ task[u] = NoTask
                        /\ task'[u].next = None /\ task'[u].prev = None
                        /\ task'[u].status = "pending"
                        /\ \A t \in Task \ {u} : task'[t] = task[t]
<1>1. PICK u \in Absent : task' = [task EXCEPT ![u] = NewRow(q)]
  BY DEF Enqueue
<1>2. u \in Task /\ task[u] = NoTask
  BY DEF Absent, AbsentIsBlank
<1>3. task'[u] = NewRow(q) /\ \A t \in Task \ {u} : task'[t] = task[t]
  BY <1>1, <1>2 DEF TypeOK
<1>4. NewRow(q).next = None /\ NewRow(q).prev = None /\ NewRow(q).status = "pending"
  BY DEF NewRow, Enqueue
<1> QED BY <1>2, <1>3, <1>4

LEMMA RetryWrites ==
  ASSUME TypeOK, AbsentIsBlank, TargetExists, NEW q \in Req, EnqueueRetry(q)
  PROVE  \E t, u \in Task :
           /\ t # u /\ task[u] = NoTask /\ task[t].status # "absent"
           /\ task[t].next = None /\ EdgeFree(t)
           /\ task'[u].next = None /\ task'[u].prev = t /\ task'[u].status = "pending"
           /\ task'[t] = [task[t] EXCEPT !.next = u]
           /\ \A x \in Task \ {t, u} : task'[x] = task[x]
<1> DEFINE t == req[q].target
<1>1. PICK u \in Absent : task' = [task EXCEPT ![u] = NewRow(q), ![t] = LinkedRow(t, u)]
  BY DEF EnqueueRetry
<1>2. t \in Task /\ task[t].status # "absent"
  BY DEF TypeOK, ReqState, EnqueueRetry, TargetExists
<1>3. u \in Task /\ u # t /\ task[u] = NoTask
  BY <1>2 DEF Absent, AbsentIsBlank
<1>4. /\ task'[u] = NewRow(q) /\ task'[t] = LinkedRow(t, u)
      /\ \A x \in Task \ {t, u} : task'[x] = task[x]
  BY <1>1, <1>2, <1>3 DEF TypeOK
<1>5. NewRow(q).next = None /\ NewRow(q).prev = t /\ NewRow(q).status = "pending"
  BY DEF NewRow
<1>6. EdgeFree(t) /\ task[t].next = None
  BY DEF EnqueueRetry, Linkable
<1> QED BY <1>2, <1>3, <1>4, <1>5, <1>6 DEF LinkedRow

\* A request's target was its target before, or is a task that has finished.
LEMMA TargetChosen ==
  ASSUME TypeOK, [Next]_vars, NEW q \in Req, req'[q].target # None
  PROVE  req'[q].target = req[q].target \/ task[req'[q].target].status # "absent"
<1> DEFINE Chosen == req'[q].target = req[q].target \/ task[req'[q].target].status # "absent"
<1>0. req \in [Req -> ReqState]
  BY DEF TypeOK
<1>k. ASSUME UNCHANGED req PROVE Chosen
  BY <1>k
<1>n. ASSUME NEW r \in Req, NEW v, req' = [req EXCEPT ![r] = v], v.target = None
      PROVE  Chosen
  BY <1>0, <1>n
<1>1. ASSUME NEW r \in Req, Upload(r) PROVE Chosen
  <2>1. PICK d \in Dir : req' = [req EXCEPT ![r] = [NoReq EXCEPT !.pc = "prepare",
                           !.type = "knowledge_base_upload", !.dir = d]]
    BY <1>1 DEF Upload
  <2>2. [NoReq EXCEPT !.pc = "prepare", !.type = "knowledge_base_upload",
                      !.dir = d].target = None
    BY DEF NoReq
  <2> QED BY <2>1, <2>2, <1>n
<1>2. ASSUME NEW r \in Req, IngestionDag(r) PROVE Chosen
  <2>1. [NoReq EXCEPT !.pc = "prepare", !.type = "pipeline_dag_ingestion"].target = None
    BY DEF NoReq
  <2> QED BY <1>2, <2>1, <1>n DEF IngestionDag
<1>3. ASSUME NEW r \in Req, SourceIngest(r) PROVE Chosen
  <2>1. [NoReq EXCEPT !.pc = "enqueue", !.type = "source_ingest"].target = None
    BY DEF NoReq
  <2> QED BY <1>3, <2>1, <1>n DEF SourceIngest
<1>4. ASSUME NEW r \in Req, NEW t \in Task, Retry(r, t) PROVE Chosen
  <2> DEFINE v == [NoReq EXCEPT !.pc = "prepare", !.type = task[t].type, !.target = t,
                                !.attempts = task[t].attempts, !.dir = task[t].dir]
  <2>1. req' = [req EXCEPT ![r] = v]
    BY <1>4 DEF Retry
  <2>2. v.target = t
    BY DEF NoReq
  <2>3. task[t].status # "absent"
    BY <1>4 DEF Retry, IsRetryable
  <2> HIDE DEF v
  <2> QED BY <1>0, <2>1, <2>2, <2>3
<1>5. ASSUME NEW r \in Req, CreateRun(r) PROVE Chosen
  <2>1. PICK x \in Run : req' = [req EXCEPT ![r] = [@ EXCEPT !.pc = "enqueue", !.run = x]]
    BY <1>5 DEF CreateRun
  <2> QED BY <1>0, <2>1 DEF ReqState
<1>6. ASSUME NEW r \in Req, Enqueue(r) \/ EnqueueRetry(r) PROVE Chosen
  <2>1. PICK u \in Task : req' = [req EXCEPT ![r] = [@ EXCEPT !.pc = "submit", !.task = u]]
    BY <1>6 DEF Enqueue, EnqueueRetry, Absent
  <2> QED BY <1>0, <2>1 DEF ReqState
<1>7. ASSUME NEW r \in Req, RetryRejected(r) \/ Submit(r) \/ SubmitRaises(r) \/ RequestFails(r)
      PROVE Chosen
  <2>1. NoReq.target = None
    BY DEF NoReq
  <2> QED BY <1>7, <2>1, <1>n DEF RetryRejected, Submit, SubmitRaises, RequestFails
<1>8. ASSUME NEW w \in Worker, Take(w) \/ Ack(w) \/ Requeue(w) \/ JobFails(w) PROVE Chosen
  BY <1>8, <1>k DEF Take, Ack, Requeue, JobFails
<1>9. ASSUME NEW w \in Worker, Carries(w) PROVE Chosen
  BY <1>9, <1>k, CarriesFrame
<1>10. ASSUME NEW p \in Proc, Crash(p) PROVE Chosen
  BY <1>10, <1>0 DEF Crash, NoReq
<1>11. ASSUME UNCHANGED vars PROVE Chosen
  BY <1>11, <1>k DEF vars
<1> HIDE DEF Chosen
<1>12. Chosen
  BY <1>1, <1>2, <1>3, <1>4, <1>5, <1>6, <1>7, <1>8, <1>9, <1>10, <1>11
  DEF Next, RequestStep, WorkerStep, Carries, Quiescent
<1> QED BY <1>12 DEF Chosen

LEMMA LinkNext == LinkInv /\ [Next]_vars => LinkInv'
<1> SUFFICES ASSUME LinkInv, [Next]_vars PROVE LinkInv'
  OBVIOUS
<1> USE DEF LinkInv
<1>n. None \notin Task /\ NoTask.status = "absent" /\ NoTask.next = None /\ NoTask.prev = None
  BY NoneAssumption DEF NoTask
<1>t. TypeOK' /\ HoldersHaveTask'
  BY TypeNext, HoldersNext
<1> DEFINE Links == /\ AbsentIsBlank' /\ LinearHistory'
                    /\ \A t \in Task : task[t].status # "absent" => task'[t].status # "absent"
<1>1. ASSUME UNCHANGED task PROVE Links
  BY <1>1 DEF AbsentIsBlank, LinearHistory
<1>2. ASSUME NEW w \in Worker, Start(w) \/ Report(w) PROVE Links
  <2>1. \A t \in Task :
          /\ task'[t].next = task[t].next /\ task'[t].prev = task[t].prev
          /\ task'[t].status = "absent" => task'[t] = task[t]
    BY <1>2, WorkerWrites
  <2> QED BY <2>1 DEF AbsentIsBlank, LinearHistory
<1>3. ASSUME NEW q \in Req, Enqueue(q) PROVE Links
  <2>1. PICK u \in Task : /\ task[u] = NoTask
                         /\ task'[u].next = None /\ task'[u].prev = None
                         /\ task'[u].status = "pending"
                         /\ \A t \in Task \ {u} : task'[t] = task[t]
    BY <1>3, EnqueueWrites
  <2>2. \A t \in Task : task'[t].next = task[t].next /\ task'[t].prev = task[t].prev
    BY <1>n, <2>1
  <2>3. LinearHistory'
    BY <2>2 DEF LinearHistory
  <2> QED BY <2>1, <2>3 DEF AbsentIsBlank
<1>4. ASSUME NEW q \in Req, EnqueueRetry(q) PROVE Links
  <2>1. PICK t \in Task, u \in Task :
          /\ t # u /\ task[u] = NoTask /\ task[t].status # "absent"
          /\ task[t].next = None /\ EdgeFree(t)
          /\ task'[u].next = None /\ task'[u].prev = t /\ task'[u].status = "pending"
          /\ task'[t] = [task[t] EXCEPT !.next = u]
          /\ \A x \in Task \ {t, u} : task'[x] = task[x]
    BY <1>4, RetryWrites
  <2>2. task'[t].next = u /\ task'[t].prev = task[t].prev /\ task'[t].status = task[t].status
    BY <2>1 DEF TypeOK, TaskRow
  <2>3. ASSUME NEW a \in Task, NEW b \in Task PROVE task'[a].next = b <=> task'[b].prev = a
    \* No row led to u, and u led to none; none leads from t before, one does now.
    <3>1. (task[a].next = b <=> task[b].prev = a) /\ (task[a].next = u <=> task[u].prev = a)
      BY DEF LinearHistory
    <3>2. task[b].prev # t
      BY <2>1 DEF EdgeFree
    <3>3. task[a].next # u
      BY <1>n, <2>1, <3>1
    <3>4. task'[a].next = IF a = t THEN u ELSE task[a].next
      <4>1. CASE a = t
        BY <2>2, <4>1
      <4>2. CASE a = u
        BY <1>n, <2>1, <4>2
      <4>3. CASE a \notin {t, u}
        BY <2>1, <4>3
      <4> QED BY <4>1, <4>2, <4>3
    <3>5. task'[b].prev = IF b = u THEN t ELSE task[b].prev
      <4>1. CASE b = t
        BY <2>1, <2>2, <4>1
      <4>2. CASE b = u
        BY <2>1, <4>2
      <4>3. CASE b \notin {t, u}
        BY <2>1, <4>3
      <4> QED BY <4>1, <4>2, <4>3
    <3>6. CASE a = t
      BY <2>1, <3>2, <3>4, <3>5, <3>6
    <3>7. CASE a # t /\ b = u
      BY <3>3, <3>4, <3>5, <3>7
    <3>8. CASE a # t /\ b # u
      BY <3>1, <3>4, <3>5, <3>8
    <3> QED BY <3>6, <3>7, <3>8
  <2>4. LinearHistory'
    BY <2>3 DEF LinearHistory
  <2>5. AbsentIsBlank'
    BY <2>1, <2>2 DEF AbsentIsBlank
  <2> QED BY <2>1, <2>2, <2>4, <2>5
<1> HIDE DEF Links
<1>5. Links
  BY <1>1, <1>2, <1>3, <1>4, TaskWriters
<1>6. TargetExists'
  <2> SUFFICES ASSUME NEW q \in Req, req'[q].target # None
               PROVE  task'[req'[q].target].status # "absent"
    BY DEF TargetExists
  <2>1. req'[q].target \in Task
    BY <1>t DEF TypeOK, ReqState
  <2>2. task[req'[q].target].status # "absent"
    BY TargetChosen DEF TargetExists
  <2> QED BY <1>5, <2>1, <2>2 DEF Links
<1> QED BY <1>t, <1>5, <1>6 DEF Links

LEMMA LinkInit == Init => LinkInv
<1> SUFFICES ASSUME Init PROVE LinkInv
  OBVIOUS
<1>1. TypeOK
  BY InitType
<1>n. None \notin Task /\ NoTask.next = None /\ NoTask.prev = None
  BY NoneAssumption DEF NoTask
<1>2. AbsentIsBlank /\ LinearHistory
  BY <1>n DEF Init, AbsentIsBlank, LinearHistory
<1>3. HoldersHaveTask /\ TargetExists
  BY DEF Init, HoldersHaveTask, RequestHolds, WorkerHolds, TargetExists, NoReq, NoExec
<1> QED BY <1>1, <1>2, <1>3 DEF LinkInv

\* The invariant that carries the two theorems below.
LEMMA LinkInvariant == Spec => []LinkInv
BY LinkInit, LinkNext, PTL DEF Spec

\* Every row, run, directory, queue entry and thread keeps its type, on both
\* backends and for any number of crashes.
THEOREM TypeCorrect == Spec => []TypeOK
<1>1. LinkInv => TypeOK
  BY DEF LinkInv
<1> QED BY <1>1, LinkInvariant, PTL

\* Retry history is linear on both backends: two retries of one task cannot
\* both be inserted, however requests of any number of processes interleave.
THEOREM HistoryIsLinear == Spec => []LinearHistory
<1>1. LinkInv => LinearHistory
  BY DEF LinkInv
<1> QED BY <1>1, LinkInvariant, PTL

-----------------------------------------------------------------------------
(* Where a task is.                                                        *)

\* A worker goes on with its task between the first report and the last.
Working(w) == exec[w].pc \notin {"idle", "start", "ack"}

\* What a step does to a worker when it neither gives it a task nor reports.
KeepsOrDrops(w) ==
  \/ exec'[w] = exec[w]
  \/ exec'[w] = NoExec
  \/ exec'[w].task = exec[w].task /\ Working(w) /\ Working(w)'

\* The steps of a runner between its first and its last report.
Middle(w) ==
  \/ Ingest(w) \/ LockIndex(w) \/ Index(w) \/ MarkRunFailed(w) \/ Cleanup(w)
  \/ BeginDag(w) \/ EndDag(w) \/ EndSource(w)

\* They write neither a row nor a queue, and the worker keeps its task.
LEMMA MiddleFrame ==
  ASSUME TypeOK, NEW w \in Worker, Middle(w)
  PROVE  /\ Working(w) /\ Working(w)'
         /\ exec'[w].task = exec[w].task
         /\ \A x \in Worker \ {w} : exec'[x] = exec[x]
         /\ UNCHANGED <<task, queue, req>>
<1>1. Carries(w)
  BY DEF Middle, Carries
<1>2. /\ \A x \in Worker \ {w} : exec'[x] = exec[x]
      /\ exec'[w].task = exec[w].task
      /\ exec[w].pc # "idle" /\ exec[w].pc # "ack"
      /\ exec'[w].pc # "idle" /\ exec'[w].pc # "start"
      /\ UNCHANGED <<queue, req>>
  BY <1>1, CarriesFrame
<1>3. UNCHANGED task /\ exec[w].pc # "start"
  BY DEF Middle, Ingest, LockIndex, Index, MarkRunFailed, Cleanup, BeginDag, EndDag, EndSource
<1>4. exec'[w].pc # "ack"
  <2>0. exec \in [Worker -> ExecState] /\ exec[w] \in ExecState
    BY DEF TypeOK
  <2>1. ASSUME NEW pc \in {"cleanup", "report"}, Raise(w, pc) PROVE exec'[w].pc # "ack"
    BY <2>0, <2>1 DEF Raise, ExecState
  <2>2. CASE Ingest(w)
    BY <2>0, <2>1, <2>2 DEF Ingest, ExecState
  <2>3. CASE LockIndex(w) \/ Index(w) \/ Cleanup(w) \/ BeginDag(w)
    BY <2>0, <2>3 DEF LockIndex, Index, Cleanup, BeginDag, ExecState
  <2>4. CASE MarkRunFailed(w)
    BY <2>1, <2>4 DEF MarkRunFailed
  <2>5. CASE EndDag(w)
    BY <2>0, <2>1, <2>5 DEF EndDag, ExecState
  <2>6. CASE EndSource(w)
    BY <2>0, <2>1, <2>6 DEF EndSource, ExecState
  <2> QED BY <2>2, <2>3, <2>4, <2>5, <2>6 DEF Middle
<1> QED BY <1>2, <1>3, <1>4 DEF Working

\* No task gets anywhere, and no row is written.
Quiet ==
  /\ UNCHANGED task
  /\ \A q \in Req : req'[q].pc = "submit" => req'[q] = req[q]
  /\ \A c \in Queue : queue'[c] \subseteq queue[c]
  /\ \A w \in Worker : KeepsOrDrops(w)

\* The steps by which a task gets from one place to another.
LEMMA PoolSteps ==
  ASSUME TypeOK, ~ Durable, [Next]_vars
  PROVE  \/ Quiet
         \/ \E q \in Req : Enqueue(q) \/ EnqueueRetry(q) \/ Submit(q)
         \/ \E w \in Worker : Take(w) \/ Start(w) \/ Report(w)
<1>0. req \in [Req -> ReqState] /\ exec \in [Worker -> ExecState]
  BY DEF TypeOK
<1>q. ASSUME NEW q \in Req, NEW v, req' = [req EXCEPT ![q] = v], v.pc # "submit",
             UNCHANGED <<task, queue, exec>>
      PROVE  Quiet
  BY <1>0, <1>q DEF Quiet, KeepsOrDrops
<1>1. ASSUME NEW q \in Req, Upload(q) PROVE Quiet
  <2>1. PICK d \in Dir : req' = [req EXCEPT ![q] = [NoReq EXCEPT !.pc = "prepare",
                           !.type = "knowledge_base_upload", !.dir = d]]
    BY <1>1 DEF Upload
  <2>2. [NoReq EXCEPT !.pc = "prepare", !.type = "knowledge_base_upload",
                      !.dir = d].pc # "submit"
    BY DEF NoReq
  <2> QED BY <1>1, <1>q, <2>1, <2>2 DEF Upload
<1>2. ASSUME NEW q \in Req, IngestionDag(q) PROVE Quiet
  <2>1. [NoReq EXCEPT !.pc = "prepare", !.type = "pipeline_dag_ingestion"].pc # "submit"
    BY DEF NoReq
  <2> QED BY <1>2, <1>q, <2>1 DEF IngestionDag
<1>3. ASSUME NEW q \in Req, SourceIngest(q) PROVE Quiet
  <2>1. [NoReq EXCEPT !.pc = "enqueue", !.type = "source_ingest"].pc # "submit"
    BY DEF NoReq
  <2> QED BY <1>3, <1>q, <2>1 DEF SourceIngest
<1>4. ASSUME NEW q \in Req, NEW t \in Task, Retry(q, t) PROVE Quiet
  <2>1. [NoReq EXCEPT !.pc = "prepare", !.type = task[t].type, !.target = t,
                      !.attempts = task[t].attempts, !.dir = task[t].dir].pc # "submit"
    BY DEF NoReq
  <2> QED BY <1>4, <1>q, <2>1 DEF Retry
<1>5. ASSUME NEW q \in Req, CreateRun(q) PROVE Quiet
  <2>1. PICK r \in Run : req' = [req EXCEPT ![q] = [@ EXCEPT !.pc = "enqueue", !.run = r]]
    BY <1>5 DEF CreateRun
  <2>2. [req[q] EXCEPT !.pc = "enqueue", !.run = r].pc # "submit"
    BY <1>0 DEF ReqState
  <2> QED BY <1>5, <1>q, <2>1, <2>2 DEF CreateRun
<1>6. ASSUME NEW q \in Req, RetryRejected(q) \/ SubmitRaises(q) \/ RequestFails(q) PROVE Quiet
  <2>1. NoReq.pc # "submit"
    BY DEF NoReq
  <2> QED BY <1>6, <1>q, <2>1 DEF RetryRejected, SubmitRaises, RequestFails
<1>7. ASSUME NEW w \in Worker, Middle(w) PROVE Quiet
  BY <1>7, MiddleFrame DEF Quiet, KeepsOrDrops
<1>8. ASSUME NEW w \in Worker, Ack(w) PROVE Quiet
  BY <1>0, <1>8 DEF Ack, Quiet, KeepsOrDrops
<1>9. ASSUME NEW w \in Worker, JobFails(w) PROVE Quiet
  <2>1. \A x \in Worker : KeepsOrDrops(x)
    <3>1. CASE exec' = [exec EXCEPT ![w] = NoExec]
      BY <1>0, <3>1 DEF KeepsOrDrops
    <3>2. CASE exec[w].pc = "markfailed" /\ Raise(w, "cleanup")
      BY <1>0, <3>2 DEF KeepsOrDrops, Raise, Working, ExecState
    <3> QED BY <1>9, <3>1, <3>2 DEF JobFails
  <2> QED BY <1>9, <2>1 DEF JobFails, Quiet
<1>10. ASSUME NEW p \in Proc, Crash(p) PROVE Quiet
  <2>1. \A q \in Req : req'[q].pc = "submit" => req'[q] = req[q]
    BY <1>0, <1>10 DEF Crash, NoReq
  <2>2. \A c \in Queue : queue'[c] \subseteq queue[c]
    BY <1>10 DEF Crash, TypeOK
  <2>3. \A w \in Worker : KeepsOrDrops(w)
    BY <1>0, <1>10 DEF Crash, KeepsOrDrops
  <2> QED BY <1>10, <2>1, <2>2, <2>3 DEF Crash, Quiet
<1>11. ASSUME UNCHANGED vars PROVE Quiet
  BY <1>11 DEF vars, Quiet, KeepsOrDrops
<1>12. \A w \in Worker : ~ Requeue(w)
  BY DEF Requeue
<1> QED
  BY <1>1, <1>2, <1>3, <1>4, <1>5, <1>6, <1>7, <1>8, <1>9, <1>10, <1>11, <1>12
  DEF Next, RequestStep, WorkerStep, Middle, Quiescent

\* The insert of a row, with or without the link to it.
LEMMA Inserts ==
  ASSUME LinkInv, NEW q \in Req, Enqueue(q) \/ EnqueueRetry(q)
  PROVE  \E u \in Task :
           /\ task[u].status = "absent" /\ task'[u] = NewRow(q)
           /\ \A t \in Task \ {u} : task'[t] = [task[t] EXCEPT !.next = task'[t].next]
           /\ \A t \in Task \ {u} : task'[t].next = IF t = req[q].target THEN u ELSE task[t].next
           /\ req' = [req EXCEPT ![q] = [@ EXCEPT !.pc = "submit", !.task = u]]
           /\ UNCHANGED <<run, dir, queue, exec, faults>>
<1>0. task \in [Task -> TaskRow] /\ None \notin Task
  BY NoneAssumption DEF LinkInv, TypeOK
<1>1. CASE Enqueue(q)
  <2>1. PICK u \in Absent :
          /\ task' = [task EXCEPT ![u] = NewRow(q)]
          /\ req' = [req EXCEPT ![q] = [@ EXCEPT !.pc = "submit", !.task = u]]
    BY <1>1 DEF Enqueue
  <2>2. u \in Task /\ task[u].status = "absent"
    BY DEF Absent
  <2>3. task'[u] = NewRow(q) /\ \A t \in Task \ {u} : task'[t] = task[t]
    BY <1>0, <2>1, <2>2
  <2>4. req[q].target \notin Task
    BY <1>0, <1>1 DEF Enqueue
  <2>5. \A t \in Task : task[t] = [task[t] EXCEPT !.next = task[t].next]
    BY <1>0 DEF TaskRow
  <2>6. ASSUME NEW x \in Task \ {u}
        PROVE  /\ task'[x] = [task[x] EXCEPT !.next = task'[x].next]
               /\ task'[x].next = IF x = req[q].target THEN u ELSE task[x].next
    BY <2>3, <2>4, <2>5
  <2> QED BY <1>1, <2>1, <2>2, <2>3, <2>6 DEF Enqueue
<1>2. CASE EnqueueRetry(q)
  <2> DEFINE t == req[q].target
  <2>1. PICK u \in Absent :
          /\ task' = [task EXCEPT ![u] = NewRow(q), ![t] = LinkedRow(t, u)]
          /\ req' = [req EXCEPT ![q] = [@ EXCEPT !.pc = "submit", !.task = u]]
    BY <1>2 DEF EnqueueRetry
  <2>2. u \in Task /\ task[u].status = "absent"
    BY DEF Absent
  <2>3. t \in Task /\ task[t].status # "absent" /\ t # u
    BY <1>2, <2>2 DEF EnqueueRetry, LinkInv, TypeOK, ReqState, TargetExists
  <2>4. /\ task'[u] = NewRow(q)
        /\ task'[t] = [task[t] EXCEPT !.next = u]
        /\ \A x \in Task \ {u, t} : task'[x] = task[x]
    BY <1>0, <2>1, <2>2, <2>3 DEF LinkedRow
  <2>5. \A x \in Task : task[x] = [task[x] EXCEPT !.next = task[x].next]
    BY <1>0 DEF TaskRow
  <2>6. task'[t].next = u
    BY <1>0, <2>3, <2>4 DEF TaskRow
  <2>7. ASSUME NEW x \in Task \ {u}
        PROVE  /\ task'[x] = [task[x] EXCEPT !.next = task'[x].next]
               /\ task'[x].next = IF x = t THEN u ELSE task[x].next
    BY <2>4, <2>5, <2>6
  <2> QED BY <1>2, <2>1, <2>2, <2>4, <2>7 DEF EnqueueRetry
<1> QED BY <1>1, <1>2

\* The status of a row is that of the place its task is in.
StatusByPlace ==
  \A t \in Task :
    /\ \A q \in Req : Submitting(q, t) => task[t].status = "pending"
    /\ \A c \in Queue : Queued(c, t) => task[t].status = "pending"
    /\ \A w \in Worker : Executing(w, t) =>
         /\ exec[w].pc = "start" => task[t].status = "pending"
         /\ exec[w].pc \notin {"start", "ack"} => task[t].status = "running"
         /\ exec[w].pc = "ack" => Terminal(t)

\* A task has one holder, and its row says which.
Placed == SingleDelivery /\ StatusByPlace

\* Nobody holds a task that is not there.
LEMMA AbsentIsNowhere ==
  ASSUME LinkInv, Placed, NEW t \in Task, task[t].status = "absent"
  PROVE  /\ \A q \in Req : ~ Submitting(q, t)
         /\ \A c \in Queue : ~ Queued(c, t)
         /\ \A w \in Worker : ~ Executing(w, t)
<1>1. ASSUME NEW w \in Worker, Executing(w, t) PROVE FALSE
  <2>1. exec[w].pc # "idle"
    BY <1>1, NoneAssumption DEF Executing, LinkInv, HoldersHaveTask, WorkerHolds, NoExec
  <2> QED BY <1>1, <2>1 DEF Placed, StatusByPlace, Terminal
<1> QED BY <1>1 DEF Placed, StatusByPlace

\* Every step of the pool leaves a task with at most one holder.
LEMMA PlacedNext ==
  ASSUME LinkInv, ~ Durable, Placed, [Next]_vars
  PROVE  Placed'
<1>0. /\ task \in [Task -> TaskRow] /\ req \in [Req -> ReqState]
      /\ exec \in [Worker -> ExecState] /\ queue \in [Queue -> SUBSET Task]
      /\ TypeOK /\ None \notin Task
  BY NoneAssumption DEF LinkInv, TypeOK
<1>i. \A w \in Worker, t \in Task : Executing(w, t) => exec[w].pc # "idle"
  BY <1>0 DEF Executing, LinkInv, HoldersHaveTask, WorkerHolds, NoExec
<1>s. SingleDelivery /\ StatusByPlace
  BY DEF Placed
<1>1. CASE Quiet
  <2>1. \A t \in Task :
          /\ \A q \in Req : Submitting(q, t)' => Submitting(q, t)
          /\ \A c \in Queue : Queued(c, t)' => Queued(c, t)
          /\ \A w \in Worker : Executing(w, t)' => Executing(w, t)
    BY <1>0, <1>1 DEF Quiet, KeepsOrDrops, Submitting, Queued, Executing, NoExec
  <2>2. SingleDelivery'
    BY <1>s, <2>1 DEF SingleDelivery
  <2>3. ASSUME NEW t \in Task, NEW w \in Worker, Executing(w, t)'
        PROVE  /\ exec'[w].pc = "start" => task'[t].status = "pending"
               /\ exec'[w].pc \notin {"start", "ack"} => task'[t].status = "running"
               /\ exec'[w].pc = "ack" => Terminal(t)'
    <3>1. Executing(w, t) /\ exec[w].pc # "idle"
      BY <1>i, <2>1, <2>3
    <3>2. exec'[w] # NoExec
      BY <1>0, <2>3 DEF Executing, NoExec
    <3>3. exec'[w] = exec[w] \/ (Working(w) /\ Working(w)')
      BY <1>1, <3>2 DEF Quiet, KeepsOrDrops
    <3> QED BY <1>1, <1>s, <3>1, <3>3 DEF Quiet, StatusByPlace, Working, Terminal
  <2>4. StatusByPlace'
    BY <1>1, <1>s, <2>1, <2>3 DEF StatusByPlace, Quiet
  <2> QED BY <2>2, <2>4 DEF Placed
<1>2. ASSUME NEW q \in Req, Enqueue(q) \/ EnqueueRetry(q) PROVE Placed'
  <2>1. PICK u \in Task :
          /\ task[u].status = "absent" /\ task'[u] = NewRow(q)
          /\ \A t \in Task \ {u} : task'[t] = [task[t] EXCEPT !.next = task'[t].next]
          /\ req' = [req EXCEPT ![q] = [@ EXCEPT !.pc = "submit", !.task = u]]
          /\ UNCHANGED <<queue, exec>>
    BY <1>2, Inserts
  <2>2. /\ task'[u].status = "pending"
        /\ \A t \in Task \ {u} : task'[t].status = task[t].status
    <3>1. task'[u].status = "pending"
      BY <2>1 DEF NewRow
    <3>2. ASSUME NEW t \in Task \ {u} PROVE task'[t].status = task[t].status
      <4> DEFINE v == task'[t].next
      <4>1. task'[t] = [task[t] EXCEPT !.next = v] /\ task[t] \in TaskRow
        BY <1>0, <2>1
      <4> HIDE DEF v
      <4> QED BY <4>1 DEF TaskRow
    <3> QED BY <3>1, <3>2
  <2>3. /\ req'[q].pc = "submit" /\ req'[q].task = u
        /\ \A r \in Req \ {q} : req'[r] = req[r]
    BY <1>0, <2>1 DEF ReqState
  <2>e. req[q].pc = "enqueue"
    BY <1>2 DEF Enqueue, EnqueueRetry
  <2>4. /\ \A r \in Req, t \in Task : Submitting(r, t)' <=> (r = q /\ t = u) \/ Submitting(r, t)
        /\ \A c \in Queue, t \in Task : Queued(c, t)' <=> Queued(c, t)
        /\ \A w \in Worker, t \in Task : Executing(w, t)' <=> Executing(w, t)
    BY <2>1, <2>3, <2>e DEF Submitting, Queued, Executing
  <2>5. /\ \A r \in Req : ~ Submitting(r, u)
        /\ \A c \in Queue : ~ Queued(c, u)
        /\ \A w \in Worker : ~ Executing(w, u)
    BY <2>1, AbsentIsNowhere
  <2>6. SingleDelivery'
    BY <1>s, <2>4, <2>5 DEF SingleDelivery
  <2>7. StatusByPlace'
    BY <1>s, <2>1, <2>2, <2>4, <2>5 DEF StatusByPlace, Terminal
  <2> QED BY <2>6, <2>7 DEF Placed
<1>3. ASSUME NEW q \in Req, Submit(q) PROVE Placed'
  <2> DEFINE c == QueueOf(ProcOf[q])  u == req[q].task
  <2>1. /\ Submitting(q, u) /\ u \in Task /\ c \in Queue
    BY <1>3, QueueOfType DEF Submit, Submitting, LinkInv, HoldersHaveTask, RequestHolds
  <2>2. /\ \A r \in Req, t \in Task : Submitting(r, t)' <=> r # q /\ Submitting(r, t)
        /\ \A e \in Queue, t \in Task : Queued(e, t)' <=> (e = c /\ t = u) \/ Queued(e, t)
        /\ \A w \in Worker, t \in Task : Executing(w, t)' <=> Executing(w, t)
        /\ UNCHANGED <<task, exec>>
    BY <1>0, <1>3, <2>1 DEF Submit, Submitting, Queued, Executing, NoReq
  <2> HIDE DEF c, u
  <2>3. SingleDelivery'
    <3> SUFFICES ASSUME NEW t \in Task PROVE
          /\ \A a, b \in Req : Submitting(a, t)' /\ Submitting(b, t)' => a = b
          /\ \A a, b \in Queue : Queued(a, t)' /\ Queued(b, t)' => a = b
          /\ \A w, x \in Worker : Executing(w, t)' /\ Executing(x, t)' => w = x
          /\ \A a \in Req, b \in Queue : ~ (Submitting(a, t)' /\ Queued(b, t)')
          /\ \A a \in Req, w \in Worker : ~ (Submitting(a, t)' /\ Executing(w, t)')
          /\ \A b \in Queue, w \in Worker : ~ (Queued(b, t)' /\ Executing(w, t)')
      BY DEF SingleDelivery
    <3> QED BY <1>s, <2>1, <2>2 DEF SingleDelivery
  <2>4. StatusByPlace'
    BY <1>s, <2>1, <2>2 DEF StatusByPlace, Terminal
  <2> QED BY <2>3, <2>4 DEF Placed
<1>4. ASSUME NEW w \in Worker, Take(w) PROVE Placed'
  <2> DEFINE c == QueueOf(ProcOf[w])
  <2>1. PICK u \in queue[c] :
          /\ exec' = [exec EXCEPT ![w] = [NoExec EXCEPT !.pc = "start", !.task = u]]
          /\ queue' = Dequeued(c, u)
    BY <1>4 DEF Take
  <2>2. u \in Task /\ c \in Queue /\ Queued(c, u) /\ UNCHANGED <<task, req>>
    BY <1>0, <1>4, QueueOfType DEF Queued, Take
  <2>3. /\ exec'[w].task = u /\ exec'[w].pc = "start"
        /\ \A x \in Worker \ {w} : exec'[x] = exec[x]
    BY <1>0, <2>1 DEF NoExec
  <2>4. /\ \A r \in Req, t \in Task : Submitting(r, t)' <=> Submitting(r, t)
        /\ \A e \in Queue, t \in Task : Queued(e, t)' <=> Queued(e, t) /\ ~ (e = c /\ t = u)
        /\ \A x \in Worker, t \in Task :
             Executing(x, t)' <=> (x = w /\ t = u) \/ (x # w /\ Executing(x, t))
    BY <1>0, <2>1, <2>2, <2>3 DEF Submitting, Queued, Executing, Dequeued
  <2> HIDE DEF c
  <2>5. SingleDelivery'
    <3> SUFFICES ASSUME NEW t \in Task PROVE
          /\ \A a, b \in Req : Submitting(a, t)' /\ Submitting(b, t)' => a = b
          /\ \A a, b \in Queue : Queued(a, t)' /\ Queued(b, t)' => a = b
          /\ \A x, y \in Worker : Executing(x, t)' /\ Executing(y, t)' => x = y
          /\ \A a \in Req, b \in Queue : ~ (Submitting(a, t)' /\ Queued(b, t)')
          /\ \A a \in Req, x \in Worker : ~ (Submitting(a, t)' /\ Executing(x, t)')
          /\ \A b \in Queue, x \in Worker : ~ (Queued(b, t)' /\ Executing(x, t)')
      BY DEF SingleDelivery
    <3> QED BY <1>s, <2>2, <2>4 DEF SingleDelivery
  <2>6. StatusByPlace'
    BY <1>s, <2>2, <2>3, <2>4 DEF StatusByPlace, Terminal
  <2> QED BY <2>5, <2>6 DEF Placed
<1>5. ASSUME NEW w \in Worker, Start(w) \/ Report(w) PROVE Placed'
  <2>0. PICK u \in Task : u = exec[w].task
    BY <1>5 DEF Start, Report, LinkInv, HoldersHaveTask, WorkerHolds
  <2>1. /\ Executing(w, u)
        /\ \A x \in Worker \ {w} : exec'[x] = exec[x]
        /\ exec'[w].task = u
        /\ exec[w].pc # "idle" /\ exec'[w].pc # "idle" /\ exec'[w].pc # "start"
        /\ UNCHANGED <<queue, req>>
    BY <1>0, <1>5, <2>0, CarriesFrame DEF Carries, Executing
  <2>2. /\ \A r \in Req, t \in Task : Submitting(r, t)' <=> Submitting(r, t)
        /\ \A e \in Queue, t \in Task : Queued(e, t)' <=> Queued(e, t)
        /\ \A x \in Worker, t \in Task : Executing(x, t)' <=> Executing(x, t)
    BY <2>1 DEF Submitting, Queued, Executing
  <2>3. SingleDelivery'
    BY <1>s, <2>2 DEF SingleDelivery
  <2>4. \A t \in Task \ {u} : task'[t].status = task[t].status
    BY <1>0, <1>5, <2>0 DEF Start, SetRunning, Report, TaskRow
  <2>5. \/ task'[u].status = "running" /\ exec'[w].pc # "ack"
        \/ Terminal(u)' /\ exec'[w].pc = "ack"
    <3>1. CASE Start(w)
      <4>1. task'[u].status = "running"
        BY <1>0, <2>0, <3>1 DEF Start, SetRunning, TaskRow
      <4>2. exec'[w].pc = FirstStep(Row(w).type)
        BY <1>0, <3>1 DEF Start, ExecState
      <4>3. FirstStep(Row(w).type) \in {"ingest", "dag", "source"}
        BY DEF FirstStep
      <4> QED BY <4>1, <4>2, <4>3
    <3>2. CASE Report(w)
      <4>1. task'[u].status \in {"failed", "completed"}
        BY <1>0, <2>0, <3>2 DEF Report, TaskRow
      <4>2. exec'[w].pc = "ack"
        BY <1>0, <3>2 DEF Report, ExecState
      <4> QED BY <4>1, <4>2 DEF Terminal
    <3> QED BY <1>5, <3>1, <3>2
  <2>6. StatusByPlace'
    <3>1. ASSUME NEW t \in Task \ {u}
          PROVE  /\ \A q \in Req : Submitting(q, t)' => task'[t].status = "pending"
                 /\ \A e \in Queue : Queued(e, t)' => task'[t].status = "pending"
                 /\ \A x \in Worker : Executing(x, t)' =>
                      /\ exec'[x].pc = "start" => task'[t].status = "pending"
                      /\ exec'[x].pc \notin {"start", "ack"} => task'[t].status = "running"
                      /\ exec'[x].pc = "ack" => Terminal(t)'
      <4>1. ~ Executing(w, t)
        BY <2>1 DEF Executing
      <4> QED BY <1>s, <2>1, <2>2, <2>4, <4>1 DEF StatusByPlace, Terminal
    <3>2. /\ \A q \in Req : ~ Submitting(q, u)
          /\ \A e \in Queue : ~ Queued(e, u)
          /\ \A x \in Worker : Executing(x, u) => x = w
      BY <1>s, <2>1 DEF SingleDelivery
    <3>3. /\ \A q \in Req : ~ Submitting(q, u)'
          /\ \A e \in Queue : ~ Queued(e, u)'
          /\ \A x \in Worker : Executing(x, u)' =>
               /\ exec'[x].pc # "start"
               /\ exec'[x].pc # "ack" => task'[u].status = "running"
               /\ exec'[x].pc = "ack" => Terminal(u)'
      BY <2>1, <2>2, <2>5, <3>2
    <3> QED BY <2>1, <3>1, <3>3 DEF StatusByPlace
  <2> QED BY <2>3, <2>6 DEF Placed
<1> QED
  BY <1>0, <1>1, <1>2, <1>3, <1>4, <1>5, PoolSteps

-----------------------------------------------------------------------------
(* What rows, requests and workers of a pool know of runs and directories. *)

\* Types of task that come with a run.
WithRun == {"knowledge_base_upload", "pipeline_dag_ingestion"}

\* A request on its way to insert a task.
Preparer(q) == req[q].pc \in {"prepare", "enqueue"}

\* What a row has depends on its type; only finished tasks have a retry.
RowsFit == \A t \in Task :
  /\ task[t].dir # None <=> task[t].type = "knowledge_base_upload"
  /\ task[t].run # None <=> task[t].type \in WithRun
  /\ task[t].next # None => Terminal(t)

\* What a request has depends on its type and its step; a process retries a
\* task in one request at a time.
RequestsFit == \A q \in Req :
  /\ req[q].pc = "idle" => req[q] = NoReq
  /\ req[q].dir # None <=> req[q].type = "knowledge_base_upload"
  /\ req[q].pc = "prepare" => req[q].run = None /\ req[q].type \in WithRun
  /\ req[q].pc \in {"enqueue", "submit"} => (req[q].run # None <=> req[q].type \in WithRun)
  /\ req[q].pc = "submit" =>
       task[req[q].task].dir = req[q].dir /\ task[req[q].task].run = req[q].run
  /\ req[q].target # None =>
       /\ req[q].type = task[req[q].target].type /\ req[q].dir = task[req[q].target].dir
       /\ Terminal(req[q].target)
       /\ req[q].dir # None => task[req[q].target].status = "failed"
       /\ \A r \in Req : req[r].target = req[q].target /\ ProcOf[r] = ProcOf[q] => r = q

\* A run belongs to one task, or to the one request that will insert it.
RunsOwned ==
  /\ \A t \in Task : task[t].run # None => run[task[t].run] # "absent"
  /\ \A q \in Req : req[q].run # None => run[req[q].run] # "absent"
  /\ \A t, u \in Task : task[t].run # None /\ task[t].run = task[u].run => t = u
  /\ \A q \in Req : req[q].pc = "enqueue" /\ req[q].run # None =>
       /\ \A t \in Task : task[t].run # req[q].run
       /\ \A r \in Req : req[r].run = req[q].run => r = q

\* A directory belongs to one live attempt, and is there while it waits.
DirsOwned ==
  /\ \A t \in Task : task[t].dir # None => dir[task[t].dir] # "unused"
  /\ \A q \in Req : req[q].dir # None => dir[req[q].dir] # "unused"
  /\ \A q \in Req : Preparer(q) /\ req[q].target = None /\ req[q].dir # None =>
       /\ dir[req[q].dir] = "present"
       /\ \A t \in Task : task[t].dir # req[q].dir
       /\ \A r \in Req : req[r].dir = req[q].dir => r = q
  /\ \A q \in Req : Preparer(q) /\ req[q].target # None /\ req[q].dir # None =>
       (task[req[q].target].next = None => dir[req[q].dir] = "present")
  /\ \A t \in Task : task[t].dir # None /\ task[t].status = "pending" => dir[task[t].dir] = "present"
  /\ \A t, u \in Task :
       task[t].dir # None /\ task[t].dir = task[u].dir /\ task[t].next = None /\ task[u].next = None
         => t = u

\* The steps of the upload runner, and what each runner may take for granted.
UploadPcs == {"ingest", "lock", "index", "markfailed", "cleanup"}
WorkerFits(w) ==
  /\ exec[w].pc \in UploadPcs =>
       Row(w).type = "knowledge_base_upload" /\ dir[Row(w).dir] = "present"
  /\ exec[w].pc \in {"dag", "dagrun"} => Row(w).type = "pipeline_dag_ingestion"
  /\ exec[w].pc = "source" => Row(w).type \notin WithRun
WorkersFit == \A w \in Worker : WorkerFits(w)

\* The inductive invariant of the pool.
PoolInv ==
  LinkInv /\ Placed /\ RowsFit /\ RequestsFit /\ RunsOwned /\ DirsOwned /\ WorkersFit

\* No identifier is None.
LEMMA Nones ==
  /\ None \notin Task /\ None \notin Run /\ None \notin Dir /\ None # "completed"
  /\ None # "completed_with_failures" /\ None # "knowledge_base_upload" /\ None \notin WithRun
BY NoneAssumption DEF Types, WithRun

\* Steps of requests that end.
LEMMA RequestsEnd ==
  ASSUME PoolInv, UNCHANGED <<task, run, dir>>,
         \A q \in Req : req'[q] = req[q] \/ req'[q] = NoReq
  PROVE  RowsFit' /\ RequestsFit' /\ RunsOwned' /\ DirsOwned'
<1>0. /\ RowsFit /\ RequestsFit /\ RunsOwned /\ DirsOwned
      /\ NoReq.pc = "idle" /\ NoReq.dir = None /\ NoReq.type = None /\ NoReq.run = None
      /\ NoReq.target = None
  BY DEF PoolInv, NoReq
<1>1. RowsFit'
  BY <1>0 DEF RowsFit, Terminal
<1>2. RequestsFit'
  BY <1>0, Nones DEF RequestsFit, Terminal
<1>3. RunsOwned'
  BY <1>0 DEF RunsOwned
<1>4. DirsOwned'
  BY <1>0 DEF DirsOwned, Preparer
<1> QED BY <1>1, <1>2, <1>3, <1>4

\* Steps of requests that begin: uploads, ingestion requests and retries.
LEMMA RequestBegins ==
  ASSUME PoolInv, NEW q \in Req, NEW v, req[q].pc = "idle", req' = [req EXCEPT ![q] = v],
         UNCHANGED <<task, run>>,
         v.pc \in {"prepare", "enqueue"}, v.run = None,
         v.pc = "prepare" <=> v.type \in WithRun,
         v.dir # None <=> v.type = "knowledge_base_upload",
         v.dir \in Dir \cup {None},
         v.target # None =>
           /\ v.target \in Task /\ v.type = task[v.target].type /\ v.dir = task[v.target].dir
           /\ Terminal(v.target) /\ RetryLockFree(ProcOf[q], v.target)
           /\ v.dir # None => task[v.target].status = "failed" /\ dir[v.dir] = "present",
         v.target = None /\ v.dir # None => dir[v.dir] = "unused" /\ dir'[v.dir] = "present",
         \A d \in Dir : dir'[d] = dir[d] \/ (d = v.dir /\ dir[d] = "unused" /\ dir'[d] = "present")
  PROVE  RowsFit' /\ RequestsFit' /\ RunsOwned' /\ DirsOwned'
<1>0. /\ RowsFit /\ RequestsFit /\ RunsOwned /\ DirsOwned
      /\ req'[q] = v /\ \A r \in Req \ {q} : req'[r] = req[r]
      /\ \A r \in Req : req[r].target \in Task \cup {None} /\ req[r].dir \in Dir \cup {None}
      /\ \A t \in Task : task[t].dir \in Dir \cup {None}
  BY DEF PoolInv, LinkInv, TypeOK, ReqState, TaskRow
<1>1. RowsFit'
  BY <1>0 DEF RowsFit, Terminal
<1>2. RequestsFit'
  <2>1. ASSUME NEW r \in Req, NEW s \in Req, req'[r].target # None,
               req'[s].target = req'[r].target, ProcOf[s] = ProcOf[r]
        PROVE  r = s
    BY <1>0, <2>1 DEF RequestsFit, RetryLockFree
  <2>2. ASSUME NEW r \in Req
        PROVE  /\ req'[r].pc = "idle" => req'[r] = NoReq
               /\ req'[r].dir # None <=> req'[r].type = "knowledge_base_upload"
               /\ req'[r].pc = "prepare" => req'[r].run = None /\ req'[r].type \in WithRun
               /\ req'[r].pc \in {"enqueue", "submit"} =>
                    (req'[r].run # None <=> req'[r].type \in WithRun)
               /\ req'[r].pc = "submit" => /\ task[req'[r].task].dir = req'[r].dir
                                           /\ task[req'[r].task].run = req'[r].run
    <3>1. CASE r = q
      BY <1>0, <3>1
    <3>2. CASE r # q
      BY <1>0, <3>2 DEF RequestsFit
    <3> QED BY <3>1, <3>2
  <2>3. ASSUME NEW r \in Req, req'[r].target # None
        PROVE  /\ req'[r].type = task[req'[r].target].type
               /\ req'[r].dir = task[req'[r].target].dir
               /\ Terminal(req'[r].target)
               /\ req'[r].dir # None => task[req'[r].target].status = "failed"
    <3>1. CASE r = q
      BY <1>0, <2>3, <3>1
    <3>2. CASE r # q
      BY <1>0, <2>3, <3>2 DEF RequestsFit
    <3> QED BY <3>1, <3>2
  <2> QED BY <2>1, <2>2, <2>3 DEF RequestsFit, Terminal
<1>3. RunsOwned'
  BY <1>0 DEF RunsOwned
<1>4. DirsOwned'
  <2>1. \A d \in Dir : (dir[d] # "unused" => dir'[d] # "unused") /\ (dir[d] = "present" => dir'[d] = "present")
    OBVIOUS
  <2>2. ASSUME NEW r \in Req, Preparer(r)', req'[r].target = None, req'[r].dir # None
        PROVE  /\ dir'[req'[r].dir] = "present"
               /\ \A t \in Task : task'[t].dir # req'[r].dir
               /\ \A s \in Req : req'[s].dir = req'[r].dir => s = r
    <3>1. CASE r = q
      BY <1>0, <2>2, <3>1 DEF DirsOwned
    <3>2. CASE r # q
      <4>1. /\ dir[req[r].dir] = "present" /\ req[r].dir \in Dir
            /\ \A t \in Task : task[t].dir # req[r].dir
            /\ \A s \in Req : req[s].dir = req[r].dir => s = r
        BY <1>0, <2>2, <3>2 DEF DirsOwned, Preparer
      <4>2. req[r].dir # v.dir
        BY <1>0, <2>2, <3>2, <4>1
      <4> QED BY <1>0, <2>1, <3>2, <4>1, <4>2
    <3> QED BY <3>1, <3>2
  <2>3. ASSUME NEW r \in Req, Preparer(r)', req'[r].target # None, req'[r].dir # None,
               task'[req'[r].target].next = None
        PROVE  dir'[req'[r].dir] = "present"
    BY <1>0, <2>1, <2>3 DEF DirsOwned, Preparer
  <2>4. /\ \A t \in Task : task'[t].dir # None => dir'[task'[t].dir] # "unused"
        /\ \A r \in Req : req'[r].dir # None => dir'[req'[r].dir] # "unused"
        /\ \A t \in Task : task'[t].dir # None /\ task'[t].status = "pending" =>
             dir'[task'[t].dir] = "present"
    BY <1>0, <2>1 DEF DirsOwned
  <2>5. \A t, u \in Task :
          task'[t].dir # None /\ task'[t].dir = task'[u].dir /\ task'[t].next = None
            /\ task'[u].next = None => t = u
    BY <1>0 DEF DirsOwned
  <2> QED BY <2>2, <2>3, <2>4, <2>5 DEF DirsOwned
<1> QED BY <1>1, <1>2, <1>3, <1>4

\* A request creates its run.
LEMMA CreateRunFits ==
  ASSUME PoolInv, NEW q \in Req, CreateRun(q)
  PROVE  RowsFit' /\ RequestsFit' /\ RunsOwned' /\ DirsOwned'
<1>0. /\ RowsFit /\ RequestsFit /\ RunsOwned /\ DirsOwned
      /\ req \in [Req -> ReqState] /\ run \in [Run -> RunStatus]
  BY DEF PoolInv, LinkInv, TypeOK
<1>1. PICK r \in Run :
        /\ run[r] = "absent" /\ run' = [run EXCEPT ![r] = "running"]
        /\ req' = [req EXCEPT ![q] = [@ EXCEPT !.pc = "enqueue", !.run = r]]
  BY DEF CreateRun
<1>2. /\ req[q].pc = "prepare" /\ UNCHANGED <<task, dir>>
      /\ req'[q].pc = "enqueue" /\ req'[q].run = r /\ req'[q].type = req[q].type
      /\ req'[q].target = req[q].target /\ req'[q].dir = req[q].dir
      /\ \A s \in Req \ {q} : req'[s] = req[s]
      /\ run'[r] = "running" /\ \A x \in Run \ {r} : run'[x] = run[x]
      /\ r # None
  BY <1>0, <1>1, Nones DEF CreateRun, ReqState
<1>3. RowsFit'
  BY <1>0, <1>2 DEF RowsFit, Terminal
<1>4. RequestsFit'
  <2>1. ASSUME NEW s \in Req
        PROVE  /\ req'[s].pc = "idle" => req'[s] = NoReq
               /\ req'[s].dir # None <=> req'[s].type = "knowledge_base_upload"
               /\ req'[s].pc = "prepare" => req'[s].run = None /\ req'[s].type \in WithRun
               /\ req'[s].pc \in {"enqueue", "submit"} =>
                    (req'[s].run # None <=> req'[s].type \in WithRun)
               /\ req'[s].pc = "submit" => /\ task[req'[s].task].dir = req'[s].dir
                                           /\ task[req'[s].task].run = req'[s].run
    <3>1. CASE s = q
      BY <1>0, <1>2, <3>1 DEF RequestsFit
    <3>2. CASE s # q
      BY <1>0, <1>2, <3>2 DEF RequestsFit
    <3> QED BY <3>1, <3>2
  <2>2. ASSUME NEW s \in Req
        PROVE  /\ req'[s].target = req[s].target /\ req'[s].type = req[s].type
               /\ req'[s].dir = req[s].dir
    BY <1>2
  <2> QED BY <1>0, <1>2, <2>1, <2>2 DEF RequestsFit, Terminal
<1>5. RunsOwned'
  <2>1. /\ \A t \in Task : task[t].run # r
        /\ \A s \in Req : req[s].run # r
    BY <1>0, <1>1, <1>2 DEF RunsOwned
  <2>2. \A x \in Run : run[x] # "absent" => run'[x] # "absent"
    BY <1>2
  <2>t. /\ \A t \in Task : task[t].run \in Run \cup {None}
        /\ \A s \in Req : req[s].run \in Run \cup {None}
    BY DEF PoolInv, LinkInv, TypeOK, TaskRow, ReqState
  <2>3. ASSUME NEW s \in Req, req'[s].pc = "enqueue", req'[s].run # None
        PROVE  /\ \A t \in Task : task[t].run # req'[s].run
               /\ \A x \in Req : req'[x].run = req'[s].run => x = s
    <3>1. CASE s = q
      BY <1>2, <2>1, <3>1
    <3>2. CASE s # q
      BY <1>0, <1>2, <2>1, <2>3, <3>2 DEF RunsOwned
    <3> QED BY <3>1, <3>2
  <2>4. \A s \in Req : req'[s].run # None => run'[req'[s].run] # "absent"
    BY <1>0, <1>2, <2>2, <2>t DEF RunsOwned
  <2> QED BY <1>0, <1>2, <2>2, <2>t, <2>3, <2>4 DEF RunsOwned
<1>6. DirsOwned'
  <2>1. \A s \in Req : /\ req'[s].target = req[s].target /\ req'[s].dir = req[s].dir
                       /\ Preparer(s)' <=> Preparer(s)
    BY <1>2 DEF Preparer
  <2> QED BY <1>0, <1>2, <2>1 DEF DirsOwned
<1> QED BY <1>3, <1>4, <1>5, <1>6

\* A request inserts its row, and a retry links it to the task it retries.
LEMMA InsertFits ==
  ASSUME PoolInv, NEW q \in Req, Enqueue(q) \/ EnqueueRetry(q)
  PROVE  RowsFit' /\ RequestsFit' /\ RunsOwned' /\ DirsOwned'
<1>0. /\ LinkInv /\ RowsFit /\ RequestsFit /\ RunsOwned /\ DirsOwned
      /\ req \in [Req -> ReqState] /\ task \in [Task -> TaskRow]
  BY DEF PoolInv, LinkInv, TypeOK
<1>1. PICK u \in Task :
        /\ task[u].status = "absent" /\ task'[u] = NewRow(q)
        /\ \A t \in Task \ {u} : task'[t] = [task[t] EXCEPT !.next = task'[t].next]
        /\ \A t \in Task \ {u} : task'[t].next = IF t = req[q].target THEN u ELSE task[t].next
        /\ req' = [req EXCEPT ![q] = [@ EXCEPT !.pc = "submit", !.task = u]]
        /\ UNCHANGED <<run, dir, queue, exec, faults>>
  BY <1>0, Inserts
<1>u. /\ task[u].run = None /\ task[u].dir = None /\ task[u].type = None /\ task[u].next = None
  BY <1>1 DEF PoolInv, LinkInv, AbsentIsBlank, NoTask
<1>2. ASSUME NEW t \in Task \ {u}
      PROVE  /\ task'[t].status = task[t].status /\ task'[t].type = task[t].type
             /\ task'[t].run = task[t].run /\ task'[t].dir = task[t].dir
             /\ task'[t].result = task[t].result
  <2> DEFINE x == task[t]  n == task'[t].next
  <2>1. task'[t] = [x EXCEPT !.next = n] /\ x \in TaskRow
    BY <1>0, <1>1
  <2> HIDE DEF n
  <2> QED BY <2>1 DEF TaskRow
<1>3. /\ task'[u].status = "pending" /\ task'[u].type = req[q].type /\ task'[u].next = None
      /\ task'[u].run = req[q].run /\ task'[u].dir = req[q].dir
  BY <1>1 DEF NewRow
<1>4. /\ req'[q].pc = "submit" /\ req'[q].task = u
      /\ req'[q].run = req[q].run /\ req'[q].type = req[q].type
      /\ req'[q].target = req[q].target /\ req'[q].dir = req[q].dir
      /\ \A s \in Req \ {q} : req'[s] = req[s]
  BY <1>0, <1>1 DEF ReqState
<1>e. /\ req[q].pc = "enqueue"
      /\ req[q].target # None => req[q].target \in Task /\ task[req[q].target].next = None
  BY <1>0 DEF Enqueue, EnqueueRetry, Linkable, ReqState
<1>f. \A s \in Req : req[s].target # None => /\ req[s].target \in Task /\ req[s].target # u
                                             /\ task[req[s].target].status \in {"completed", "failed"}
  BY <1>0, <1>1 DEF RequestsFit, Terminal, ReqState
<1>g. \A s \in Req : req[s].pc = "submit" => req[s].task \in Task /\ req[s].task # u
  BY <1>0, <1>1 DEF PoolInv, LinkInv, HoldersHaveTask, RequestHolds, Placed, StatusByPlace, Submitting
<1>5. RowsFit'
  <2>1. ASSUME NEW t \in Task, t # u, task'[t].next # None PROVE Terminal(t)'
    <3>1. Terminal(t)
      <4>1. CASE t = req[q].target
        BY <1>f, <4>1, Nones DEF Terminal
      <4>2. CASE t # req[q].target
        BY <1>0, <1>1, <2>1, <4>2 DEF RowsFit
      <4> QED BY <4>1, <4>2
    <3> QED BY <1>2, <2>1, <3>1 DEF Terminal
  <2> QED BY <1>0, <1>2, <1>3, <1>e, <2>1 DEF RowsFit, RequestsFit
<1>6. RequestsFit'
  <2>1. ASSUME NEW s \in Req
        PROVE  /\ req'[s].pc = "idle" => req'[s] = NoReq
               /\ req'[s].dir # None <=> req'[s].type = "knowledge_base_upload"
               /\ req'[s].pc = "prepare" => req'[s].run = None /\ req'[s].type \in WithRun
               /\ req'[s].pc \in {"enqueue", "submit"} =>
                    (req'[s].run # None <=> req'[s].type \in WithRun)
               /\ req'[s].pc = "submit" => /\ task'[req'[s].task].dir = req'[s].dir
                                           /\ task'[req'[s].task].run = req'[s].run
    <3>1. CASE s = q
      BY <1>0, <1>3, <1>4, <1>e, <3>1 DEF RequestsFit
    <3>2. CASE s # q
      BY <1>0, <1>2, <1>4, <1>g, <3>2 DEF RequestsFit
    <3> QED BY <3>1, <3>2
  <2>2. ASSUME NEW s \in Req
        PROVE  /\ req'[s].target = req[s].target /\ req'[s].type = req[s].type
               /\ req'[s].dir = req[s].dir
    BY <1>4
  <2>3. ASSUME NEW s \in Req, req'[s].target # None
        PROVE  /\ req'[s].type = task'[req'[s].target].type
               /\ req'[s].dir = task'[req'[s].target].dir
               /\ task'[req'[s].target].status \in {"completed", "failed"}
               /\ req'[s].dir # None => task'[req'[s].target].status = "failed"
               /\ \A r \in Req : req'[r].target = req'[s].target /\ ProcOf[r] = ProcOf[s] => r = s
    <3>1. PICK t \in Task : t = req[s].target /\ t # u
      BY <1>f, <2>2, <2>3
    <3>2. /\ req[s].type = task[t].type /\ req[s].dir = task[t].dir
          /\ task[t].status \in {"completed", "failed"}
          /\ req[s].dir # None => task[t].status = "failed"
          /\ \A r \in Req : req[r].target = t /\ ProcOf[r] = ProcOf[s] => r = s
      BY <1>0, <2>2, <2>3, <3>1 DEF RequestsFit, Terminal
    <3> QED BY <1>2, <2>2, <3>1, <3>2
  <2> QED BY <2>1, <2>3 DEF RequestsFit, Terminal
<1>7. RunsOwned'
  <2>1. \A t \in Task \ {u} : task'[t].run # None => task'[t].run # req[q].run
    BY <1>0, <1>2, <1>e DEF RunsOwned
  <2>2. \A t, x \in Task : task'[t].run # None /\ task'[t].run = task'[x].run => t = x
    BY <1>0, <1>2, <1>3, <2>1 DEF RunsOwned
  <2>3. \A s \in Req : req'[s].run = req[s].run
    BY <1>4
  <2>4. ASSUME NEW s \in Req, req'[s].pc = "enqueue", req'[s].run # None
        PROVE  /\ \A t \in Task : task'[t].run # req'[s].run
               /\ \A r \in Req : req'[r].run = req'[s].run => r = s
    BY <1>0, <1>2, <1>3, <1>4, <1>e, <2>3, <2>4 DEF RunsOwned
  <2> QED BY <1>0, <1>1, <1>2, <1>3, <2>2, <2>3, <2>4 DEF RunsOwned
<1>8. DirsOwned'
  <2>1. \A s \in Req : req'[s].target = req[s].target /\ req'[s].dir = req[s].dir
    BY <1>4
  <2>2. \A s \in Req : Preparer(s)' => Preparer(s) /\ s # q
    BY <1>4 DEF Preparer
  <2>3. req[q].dir # None => dir[req[q].dir] = "present"
    BY <1>0, <1>e DEF DirsOwned, Preparer
  <2>4. ASSUME NEW s \in Req, Preparer(s)', req'[s].target = None, req'[s].dir # None
        PROVE  /\ dir[req'[s].dir] = "present"
               /\ \A t \in Task : task'[t].dir # req'[s].dir
               /\ \A r \in Req : req'[r].dir = req'[s].dir => r = s
    BY <1>0, <1>2, <1>3, <2>1, <2>2, <2>4 DEF DirsOwned
  <2>5. ASSUME NEW s \in Req, Preparer(s)', req'[s].target # None, req'[s].dir # None,
               task'[req'[s].target].next = None
        PROVE  dir[req'[s].dir] = "present"
    <3>1. task[req[s].target].next = None
      BY <1>1, <1>f, <2>1, <2>5, Nones
    <3> QED BY <1>0, <2>1, <2>2, <2>5, <3>1 DEF DirsOwned
  <2>6. ASSUME NEW t \in Task, NEW x \in Task, task'[t].dir # None, task'[t].dir = task'[x].dir,
               task'[t].next = None, task'[x].next = None
        PROVE  t = x
    <3>1. ASSUME NEW y \in Task \ {u}, task'[y].next = None, task'[y].dir = req[q].dir,
                 req[q].dir # None
          PROVE  FALSE
      <4>1. y # req[q].target /\ task[y].next = None /\ task[y].dir = req[q].dir
        BY <1>1, <1>2, <3>1, Nones
      <4>2. CASE req[q].target = None
        BY <1>0, <1>e, <3>1, <4>1, <4>2 DEF DirsOwned, Preparer
      <4>3. CASE req[q].target # None
        <5>1. task[req[q].target].dir = req[q].dir
          BY <1>0, <4>3 DEF RequestsFit
        <5> QED BY <1>0, <1>e, <3>1, <4>1, <4>3, <5>1 DEF DirsOwned
      <4> QED BY <4>2, <4>3
    <3>2. CASE t = u \/ x = u
      BY <1>3, <2>6, <3>1, <3>2
    <3>3. CASE t # u /\ x # u
      <4>1. task[t].next = None /\ task[x].next = None
        BY <1>1, <2>6, <3>3, Nones
      <4> QED BY <1>0, <1>2, <2>6, <3>3, <4>1 DEF DirsOwned
    <3> QED BY <3>2, <3>3
  <2>7. /\ \A t \in Task : task'[t].dir # None => dir[task'[t].dir] # "unused"
        /\ \A s \in Req : req'[s].dir # None => dir[req'[s].dir] # "unused"
        /\ \A t \in Task : task'[t].dir # None /\ task'[t].status = "pending" =>
             dir[task'[t].dir] = "present"
    BY <1>0, <1>2, <1>3, <2>1, <2>3 DEF DirsOwned
  <2> QED BY <1>1, <2>4, <2>5, <2>6, <2>7 DEF DirsOwned
<1> QED BY <1>5, <1>6, <1>7, <1>8

\* What the runner of a task does to its run and its directory.
LEMMA RunnerFits ==
  ASSUME PoolInv, NEW w \in Worker, Working(w), UNCHANGED <<task, req>>,
         \A r \in Run : run'[r] = run[r] \/ run'[r] # "absent",
         \A d \in Dir : dir'[d] = dir[d] \/ (d = Row(w).dir /\ dir[d] = "present" /\ dir'[d] = "removed"),
         \A x \in Worker \ {w} : exec'[x] = exec[x]
  PROVE  /\ RowsFit' /\ RequestsFit' /\ RunsOwned' /\ DirsOwned'
         /\ \A x \in Worker \ {w} : WorkerFits(x)'
<1>0. /\ LinkInv /\ RowsFit /\ RequestsFit /\ RunsOwned /\ DirsOwned /\ WorkersFit
      /\ SingleDelivery /\ StatusByPlace
      /\ req \in [Req -> ReqState] /\ task \in [Task -> TaskRow]
  BY DEF PoolInv, Placed, LinkInv, TypeOK
<1>1. PICK u \in Task : u = exec[w].task
  BY <1>0 DEF Working, LinkInv, HoldersHaveTask, WorkerHolds
<1>2. task[u].status = "running" /\ \A x \in Worker \ {w} : exec[x].task # u
  BY <1>0, <1>1 DEF Working, StatusByPlace, SingleDelivery, Executing
<1>3. task[u].next = None
  BY <1>0, <1>2 DEF RowsFit, Terminal
<1>4. RowsFit' /\ RequestsFit'
  BY <1>0 DEF RowsFit, RequestsFit, Terminal
<1>5. RunsOwned'
  BY <1>0 DEF RunsOwned, TaskRow, ReqState
<1>6. \A d \in Dir : /\ dir[d] # "unused" => dir'[d] # "unused"
                     /\ d # task[u].dir => dir'[d] = dir[d]
  BY <1>1 DEF Row
<1>t. /\ \A t \in Task : task[t].dir \in Dir \cup {None}
      /\ \A q \in Req : req[q].dir \in Dir \cup {None} /\ req[q].target \in Task \cup {None}
  BY <1>0 DEF TaskRow, ReqState
<1>7. \A t \in Task : task[t].dir # None /\ task[t].dir = task[u].dir /\ t # u =>
        task[t].next # None /\ Terminal(t)
  BY <1>0, <1>3 DEF DirsOwned, RowsFit
<1>8. DirsOwned'
  <2>1. ASSUME NEW q \in Req, Preparer(q), req[q].target # None, req[q].dir # None,
               task[req[q].target].next = None
        PROVE  dir'[req[q].dir] = "present"
    <3>1. PICK t \in Task : t = req[q].target
      BY <1>t, <2>1
    <3>2. Terminal(t) /\ req[q].dir = task[t].dir
      BY <1>0, <2>1, <3>1 DEF RequestsFit
    <3>3. t # u
      BY <1>2, <3>2 DEF Terminal
    <3>4. task[t].dir # task[u].dir
      BY <1>7, <2>1, <3>1, <3>2, <3>3
    <3> QED BY <1>0, <1>6, <1>t, <2>1, <3>2, <3>4 DEF DirsOwned
  <2>2. ASSUME NEW q \in Req, Preparer(q), req[q].target = None, req[q].dir # None
        PROVE  dir'[req[q].dir] = "present"
    BY <1>0, <1>6, <1>t, <2>2 DEF DirsOwned
  <2>3. ASSUME NEW t \in Task, task[t].dir # None, task[t].status = "pending"
        PROVE  dir'[task[t].dir] = "present"
    BY <1>0, <1>2, <1>6, <1>7, <1>t, <2>3 DEF DirsOwned, Terminal
  <2>4. /\ \A t \in Task : task[t].dir # None => dir'[task[t].dir] # "unused"
        /\ \A q \in Req : req[q].dir # None => dir'[req[q].dir] # "unused"
    BY <1>0, <1>6, <1>t DEF DirsOwned
  <2> QED BY <1>0, <2>1, <2>2, <2>3, <2>4 DEF DirsOwned, Preparer
<1>9. ASSUME NEW x \in Worker \ {w} PROVE WorkerFits(x)'
  <2>1. WorkerFits(x)
    BY <1>0 DEF WorkersFit
  <2>2. ASSUME exec[x].pc \in UploadPcs PROVE dir'[Row(x).dir] = "present"
    <3>1. PICK t \in Task : t = exec[x].task
      BY <1>0, <2>2 DEF LinkInv, HoldersHaveTask, WorkerHolds, UploadPcs
    <3>2. task[t].status = "running" /\ t # u
      BY <1>0, <1>2, <2>2, <3>1 DEF StatusByPlace, Executing, UploadPcs
    <3>3. task[t].dir # None /\ dir[task[t].dir] = "present"
      BY <1>0, <2>1, <2>2, <3>1 DEF WorkerFits, Row, RowsFit
    <3> QED BY <1>6, <1>7, <1>t, <3>1, <3>2, <3>3 DEF Row, Terminal
  <2> QED BY <2>1, <2>2 DEF WorkerFits, Row
<1> QED BY <1>4, <1>5, <1>8, <1>9

\* A step of a runner keeps the inductive invariant.
LEMMA MiddleFits ==
  ASSUME PoolInv, NEW w \in Worker, Middle(w)
  PROVE  RowsFit' /\ RequestsFit' /\ RunsOwned' /\ DirsOwned' /\ WorkersFit'
<1>0. /\ RowsFit /\ RunsOwned /\ DirsOwned /\ WorkerFits(w) /\ exec[w] \in ExecState
      /\ run \in [Run -> RunStatus] /\ exec \in [Worker -> ExecState]
      /\ dir \in [Dir -> {"unused", "present", "removed"}]
  BY DEF PoolInv, LinkInv, TypeOK, WorkersFit
<1>1. /\ Working(w) /\ Working(w)'
      /\ exec'[w].task = exec[w].task
      /\ \A x \in Worker \ {w} : exec'[x] = exec[x]
      /\ UNCHANGED <<task, queue, req>>
  BY MiddleFrame DEF PoolInv, LinkInv
<1>2. \A r \in Run : run'[r] = run[r] \/ run'[r] # "absent"
  BY <1>0 DEF Middle, Ingest, LockIndex, Index, MarkRunFailed, Cleanup, BeginDag, EndDag,
     EndSource, FailedStatus
<1>3. \A d \in Dir : dir'[d] = dir[d] \/ (d = Row(w).dir /\ dir[d] = "present" /\ dir'[d] = "removed")
  <2>1. CASE Cleanup(w)
    <3>1. dir[Row(w).dir] = "present"
      BY <1>0, <2>1 DEF Cleanup, WorkerFits, UploadPcs
    <3> QED BY <1>0, <2>1, <3>1 DEF Cleanup
  <2>2. CASE ~ Cleanup(w)
    BY <2>2 DEF Middle, Ingest, LockIndex, Index, MarkRunFailed, BeginDag, EndDag, EndSource
  <2> QED BY <2>1, <2>2
<1>4. WorkerFits(w)'
  <2>0. exec \in [Worker -> ExecState] /\ exec[w] \in ExecState
    BY <1>0
  <2>r. ASSUME NEW pc \in {"cleanup", "report"}, Raise(w, pc) PROVE exec'[w].pc = pc
    BY <2>0, <2>r DEF Raise, ExecState
  <2>1. \/ exec[w].pc \in UploadPcs /\ exec'[w].pc \in UploadPcs /\ UNCHANGED dir
        \/ exec'[w].pc = "report"
        \/ exec[w].pc = "dag" /\ exec'[w].pc = "dagrun"
    <3>1. CASE Ingest(w)
      <4>1. exec'[w].pc \in {"cleanup", "lock"}
        BY <2>0, <2>r, <3>1 DEF Ingest, ExecState
      <4> QED BY <3>1, <4>1 DEF Ingest, UploadPcs
    <3>2. CASE LockIndex(w) \/ Index(w) \/ Cleanup(w) \/ BeginDag(w)
      BY <1>0, <3>2 DEF LockIndex, Index, Cleanup, BeginDag, ExecState, UploadPcs
    <3>3. CASE MarkRunFailed(w)
      BY <2>r, <3>3 DEF MarkRunFailed, UploadPcs
    <3>4. CASE EndDag(w)
      <4>s. ASSUME NEW s, exec' = [exec EXCEPT ![w] = [@ EXCEPT !.pc = "report", !.result = s]]
            PROVE  exec'[w].pc = "report"
        BY <2>0, <4>s DEF ExecState
      <4>1. exec'[w].pc = "report"
        BY <2>r, <3>4, <4>s DEF EndDag
      <4> QED BY <4>1
    <3>5. CASE EndSource(w)
      <4>1. exec'[w].pc = "report"
        BY <2>0, <2>r, <3>5 DEF EndSource, ExecState
      <4> QED BY <4>1
    <3> QED BY <3>1, <3>2, <3>3, <3>4, <3>5 DEF Middle
  <2> QED BY <1>0, <1>1, <2>1 DEF WorkerFits, Row, UploadPcs
<1>5. /\ RowsFit' /\ RequestsFit' /\ RunsOwned' /\ DirsOwned'
      /\ \A x \in Worker \ {w} : WorkerFits(x)'
  BY <1>1, <1>2, <1>3, RunnerFits
<1> QED BY <1>4, <1>5 DEF WorkersFit

\* A worker's report: the status, the result and the attempts of its task.
LEMMA StatusWrites ==
  ASSUME LinkInv, NEW w \in Worker, NEW u \in Task, u = exec[w].task, Start(w) \/ Report(w)
  PROVE  /\ \A t \in Task : /\ task'[t].type = task[t].type /\ task'[t].run = task[t].run
                            /\ task'[t].dir = task[t].dir /\ task'[t].next = task[t].next
         /\ \A t \in Task \ {u} : task'[t] = task[t]
         /\ Start(w) => /\ task'[u].status = "running"
                        /\ exec' = [exec EXCEPT ![w].pc = FirstStep(task[u].type)]
         /\ Report(w) => /\ task'[u].status = IF exec[w].raised THEN "failed" ELSE "completed"
                         /\ task'[u].result = exec[w].result
                         /\ exec' = [exec EXCEPT ![w].pc = "ack"]
         /\ UNCHANGED <<run, dir, req, faults>>
<1>0. task \in [Task -> TaskRow] /\ task[u] \in TaskRow
  BY DEF LinkInv, TypeOK
<1>1. CASE Start(w)
  <2> DEFINE n == task[u].attempts + 1
  <2>1. task' = [task EXCEPT ![u] = [@ EXCEPT !.status = "running", !.result = None,
                                              !.attempts = n]]
    BY <1>1 DEF Start, SetRunning
  <2> HIDE DEF n
  <2>2. \A t \in Task \ {u} : task'[t] = task[t]
    BY <1>0, <2>1
  <2>3. /\ task'[u].status = "running" /\ task'[u].type = task[u].type
        /\ task'[u].run = task[u].run /\ task'[u].dir = task[u].dir
        /\ task'[u].next = task[u].next
    BY <1>0, <2>1 DEF TaskRow
  <2>4. ~ Report(w)
    BY <1>1 DEF Start, Report
  <2> QED BY <1>1, <2>2, <2>3, <2>4 DEF Start, Row
<1>2. CASE Report(w)
  <2> DEFINE s == IF exec[w].raised THEN "failed" ELSE "completed"
  <2>1. task' = [task EXCEPT ![u] = [@ EXCEPT !.status = s, !.result = exec[w].result]]
    BY <1>2 DEF Report
  <2> HIDE DEF s
  <2>2. \A t \in Task \ {u} : task'[t] = task[t]
    BY <1>0, <2>1
  <2>3. /\ task'[u].status = s /\ task'[u].result = exec[w].result
        /\ task'[u].type = task[u].type
        /\ task'[u].run = task[u].run /\ task'[u].dir = task[u].dir
        /\ task'[u].next = task[u].next
    BY <1>0, <2>1 DEF TaskRow
  <2>4. ~ Start(w)
    BY <1>2 DEF Start, Report
  <2> QED BY <1>2, <2>2, <2>3, <2>4 DEF Report, s
<1> QED BY <1>1, <1>2

\* A report keeps the inductive invariant.
LEMMA StatusFits ==
  ASSUME PoolInv, NEW w \in Worker, Start(w) \/ Report(w)
  PROVE  RowsFit' /\ RequestsFit' /\ RunsOwned' /\ DirsOwned' /\ WorkersFit'
<1>0. /\ LinkInv /\ RowsFit /\ RequestsFit /\ RunsOwned /\ DirsOwned /\ WorkersFit
      /\ SingleDelivery /\ StatusByPlace
      /\ exec \in [Worker -> ExecState] /\ exec[w] \in ExecState
  BY DEF PoolInv, Placed, LinkInv, TypeOK
<1>1. PICK u \in Task : u = exec[w].task
  BY <1>0 DEF Start, Report, LinkInv, HoldersHaveTask, WorkerHolds
<1>2. /\ \A t \in Task : /\ task'[t].type = task[t].type /\ task'[t].run = task[t].run
                         /\ task'[t].dir = task[t].dir /\ task'[t].next = task[t].next
      /\ \A t \in Task \ {u} : task'[t] = task[t]
      /\ Start(w) => task'[u].status = "running"
      /\ Report(w) => task'[u].status = IF exec[w].raised THEN "failed" ELSE "completed"
      /\ UNCHANGED <<run, dir, req, faults>>
  BY <1>0, <1>1, StatusWrites
<1>3. /\ task[u].status \in {"pending", "running"} /\ task[u].next = None
      /\ task'[u].status # "pending"
      /\ Start(w) => task[u].status = "pending"
  BY <1>0, <1>1, <1>2 DEF Start, Report, StatusByPlace, Executing, RowsFit, Terminal
<1>4. RowsFit'
  BY <1>0, <1>2, <1>3 DEF RowsFit, Terminal
<1>5. RequestsFit'
  <2>1. ASSUME NEW q \in Req, req[q].target # None
        PROVE  req[q].target \in Task \ {u}
    BY <1>0, <1>3, <2>1 DEF RequestsFit, Terminal, LinkInv, TypeOK, ReqState
  <2>2. ASSUME NEW q \in Req, req[q].pc = "submit" PROVE req[q].task \in Task
    BY <1>0, <2>2 DEF LinkInv, HoldersHaveTask, RequestHolds
  <2> QED BY <1>0, <1>2, <2>1, <2>2 DEF RequestsFit, Terminal
<1>6. RunsOwned'
  BY <1>0, <1>2 DEF RunsOwned
<1>7. DirsOwned'
  <2>1. \A t \in Task : task'[t].status = "pending" => task[t].status = "pending"
    BY <1>2, <1>3
  <2>2. \A q \in Req : Preparer(q)' <=> Preparer(q)
    BY <1>2 DEF Preparer
  <2>3. \A q \in Req : req[q].target \in Task \cup {None}
    BY <1>0 DEF LinkInv, TypeOK, ReqState
  <2> QED BY <1>0, <1>2, <2>1, <2>2, <2>3 DEF DirsOwned
<1>8. WorkersFit'
  <2>1. ASSUME NEW x \in Worker \ {w} PROVE WorkerFits(x)'
    <3>1. exec'[x] = exec[x]
      BY <1>0 DEF Start, Report
    <3>2. exec[x].pc \in UploadPcs \cup {"dag", "dagrun", "source"} => exec[x].task \in Task
      BY <1>0 DEF LinkInv, HoldersHaveTask, WorkerHolds, UploadPcs
    <3> QED BY <1>0, <1>2, <3>1, <3>2 DEF WorkersFit, WorkerFits, Row
  <2>2. WorkerFits(w)'
    <3>1. exec'[w].task = u
      BY <1>0, <1>1, CarriesFrame DEF Carries, LinkInv
    <3>2. CASE Report(w)
      <4>1. exec'[w].pc = "ack"
        BY <1>0, <3>2 DEF Report, ExecState
      <4> QED BY <4>1 DEF WorkerFits, UploadPcs
    <3>3. CASE Start(w)
      <4>1. exec'[w].pc = FirstStep(task[u].type)
        BY <1>0, <1>1, <3>3 DEF Start, Row, ExecState
      <4>2. task[u].dir # None => dir[task[u].dir] = "present"
        BY <1>0, <1>3, <3>3 DEF DirsOwned
      <4>3. CASE task[u].type = "knowledge_base_upload"
        BY <1>0, <1>2, <3>1, <4>1, <4>2, <4>3 DEF FirstStep, WorkerFits, Row, RowsFit, UploadPcs
      <4>4. CASE task[u].type = "pipeline_dag_ingestion"
        BY <1>0, <1>2, <3>1, <4>1, <4>4 DEF FirstStep, WorkerFits, Row, UploadPcs
      <4>5. CASE task[u].type \notin WithRun
        BY <1>0, <1>2, <3>1, <4>1, <4>5 DEF FirstStep, WorkerFits, Row, UploadPcs, WithRun
      <4> QED BY <4>3, <4>4, <4>5 DEF WithRun
    <3> QED BY <3>2, <3>3
  <2> QED BY <2>1, <2>2 DEF WorkersFit
<1> QED BY <1>4, <1>5, <1>6, <1>7, <1>8

\* Workers who are let be, or whose job is over.
LEMMA WorkersKeep ==
  ASSUME PoolInv, \A x \in Worker : exec'[x] = exec[x] \/ exec'[x] = NoExec,
         \A t \in Task : task[t].status # "absent" =>
           task'[t].type = task[t].type /\ task'[t].dir = task[t].dir,
         \A d \in Dir : dir[d] = "present" => dir'[d] = "present"
  PROVE  WorkersFit'
<1>1. SUFFICES ASSUME NEW x \in Worker PROVE WorkerFits(x)'
  BY DEF WorkersFit
<1>2. CASE exec'[x] = NoExec
  BY <1>2 DEF NoExec, WorkerFits, UploadPcs
<1>3. CASE exec'[x] = exec[x] /\ exec[x].pc \in UploadPcs \cup {"dag", "dagrun", "source"}
  <2>1. PICK t \in Task : t = exec[x].task
    BY <1>3 DEF PoolInv, LinkInv, HoldersHaveTask, WorkerHolds, UploadPcs
  <2>2. task[t].status = "running"
    BY <1>3, <2>1 DEF PoolInv, Placed, StatusByPlace, Executing, UploadPcs
  <2>3. WorkerFits(x) /\ RowsFit /\ task[t].dir \in Dir \cup {None}
    BY DEF PoolInv, WorkersFit, LinkInv, TypeOK, TaskRow
  <2> QED BY <1>3, <2>1, <2>2, <2>3 DEF WorkerFits, Row, RowsFit
<1>4. CASE exec'[x] = exec[x] /\ exec[x].pc \notin UploadPcs \cup {"dag", "dagrun", "source"}
  BY <1>4 DEF WorkerFits
<1> QED BY <1>2, <1>3, <1>4

\* Every step keeps the inductive invariant.
LEMMA PoolNext ==
  ASSUME PoolInv, ~ Durable, [Next]_vars
  PROVE  PoolInv'
<1> DEFINE Fit == RowsFit' /\ RequestsFit' /\ RunsOwned' /\ DirsOwned' /\ WorkersFit'
<1>0. /\ LinkInv /\ Placed /\ RowsFit /\ RequestsFit /\ RunsOwned /\ DirsOwned /\ WorkersFit
      /\ req \in [Req -> ReqState] /\ exec \in [Worker -> ExecState]
      /\ task \in [Task -> TaskRow]
  BY DEF PoolInv, LinkInv, TypeOK
<1>1. LinkInv' /\ Placed'
  BY <1>0, LinkNext, PlacedNext
<1>k. ASSUME UNCHANGED <<task, exec>>, \A d \in Dir : dir[d] = "present" => dir'[d] = "present"
      PROVE  WorkersFit'
  BY <1>k, WorkersKeep
<1>r. NoReq.pc = "idle" /\ NoReq.run = None /\ NoReq.target = None /\ NoReq.dir = None
  BY DEF NoReq
<1>2. ASSUME NEW q \in Req, Upload(q) PROVE Fit
  <2>1. PICK d \in Dir :
          /\ dir[d] = "unused" /\ dir' = [dir EXCEPT ![d] = "present"]
          /\ req' = [req EXCEPT ![q] = [NoReq EXCEPT !.pc = "prepare",
                       !.type = "knowledge_base_upload", !.dir = d]]
    BY <1>2 DEF Upload
  <2> DEFINE v == [NoReq EXCEPT !.pc = "prepare", !.type = "knowledge_base_upload", !.dir = d]
  <2>2. /\ v.pc = "prepare" /\ v.type = "knowledge_base_upload" /\ v.dir = d
        /\ v.run = None /\ v.target = None /\ d # None
    BY Nones DEF NoReq
  <2>3. /\ dir'[d] = "present" /\ \A e \in Dir \ {d} : dir'[e] = dir[e]
    BY <1>0, <2>1 DEF PoolInv, LinkInv, TypeOK
  <2>4. req[q].pc = "idle" /\ UNCHANGED <<task, run, exec>> /\ req' = [req EXCEPT ![q] = v]
    BY <1>2, <2>1 DEF Upload
  <2> HIDE DEF v
  <2>a. /\ \A e \in Dir : dir'[e] = dir[e] \/ (e = v.dir /\ dir[e] = "unused" /\ dir'[e] = "present")
        /\ v.type \in WithRun
    BY <2>1, <2>2, <2>3 DEF WithRun
  <2>5. RowsFit' /\ RequestsFit' /\ RunsOwned' /\ DirsOwned'
    BY <2>1, <2>2, <2>3, <2>4, <2>a, RequestBegins
  <2>6. WorkersFit'
    BY <1>k, <2>1, <2>3, <2>4
  <2> QED BY <2>5, <2>6
<1>3. ASSUME NEW q \in Req, IngestionDag(q) PROVE Fit
  <2> DEFINE v == [NoReq EXCEPT !.pc = "prepare", !.type = "pipeline_dag_ingestion"]
  <2>1. /\ v.pc = "prepare" /\ v.type = "pipeline_dag_ingestion" /\ v.dir = None
        /\ v.run = None /\ v.target = None
    BY DEF NoReq
  <2>2. /\ req[q].pc = "idle" /\ UNCHANGED <<task, run, exec, dir>>
        /\ req' = [req EXCEPT ![q] = v]
    BY <1>3 DEF IngestionDag
  <2> HIDE DEF v
  <2>3. RowsFit' /\ RequestsFit' /\ RunsOwned' /\ DirsOwned'
    BY <2>1, <2>2, RequestBegins DEF WithRun
  <2> QED BY <1>k, <2>2, <2>3
<1>4. ASSUME NEW q \in Req, SourceIngest(q) PROVE Fit
  <2> DEFINE v == [NoReq EXCEPT !.pc = "enqueue", !.type = "source_ingest"]
  <2>1. /\ v.pc = "enqueue" /\ v.type = "source_ingest" /\ v.dir = None
        /\ v.run = None /\ v.target = None
    BY DEF NoReq
  <2>2. /\ req[q].pc = "idle" /\ UNCHANGED <<task, run, exec, dir>>
        /\ req' = [req EXCEPT ![q] = v]
    BY <1>4 DEF SourceIngest
  <2> HIDE DEF v
  <2>3. v.pc # "prepare" /\ v.type \notin WithRun /\ v.type # "knowledge_base_upload"
    BY <2>1 DEF WithRun
  <2>4. \A d \in Dir : dir'[d] = dir[d]
    BY <2>2
  <2>5. RowsFit' /\ RequestsFit' /\ RunsOwned' /\ DirsOwned'
    BY <2>1, <2>2, <2>3, <2>4, RequestBegins
  <2> QED BY <1>k, <2>2, <2>5
<1>5. ASSUME NEW q \in Req, NEW t \in Task, Retry(q, t) PROVE Fit
  <2> DEFINE v == [NoReq EXCEPT !.pc = "prepare", !.type = task[t].type, !.target = t,
                                !.attempts = task[t].attempts, !.dir = task[t].dir]
  <2>1. /\ v.pc = "prepare" /\ v.type = task[t].type /\ v.dir = task[t].dir
        /\ v.run = None /\ v.target = t
    BY DEF NoReq
  <2>2. /\ req[q].pc = "idle" /\ UNCHANGED <<task, run, exec, dir>>
        /\ req' = [req EXCEPT ![q] = v]
        /\ RetryLockFree(ProcOf[q], t) /\ IsRetryable(t)
    BY <1>5 DEF Retry
  <2> HIDE DEF v
  <2>3. /\ Terminal(t) /\ task[t].type \in WithRun
        /\ task[t].dir # None => task[t].status = "failed" /\ dir[task[t].dir] = "present"
        /\ task[t].dir # None <=> task[t].type = "knowledge_base_upload"
        /\ task[t].dir \in Dir \cup {None}
    BY <1>0, <2>2 DEF IsRetryable, StagedFilesAvailable, Terminal, WithRun, RowsFit, TaskRow
  <2>4. RowsFit' /\ RequestsFit' /\ RunsOwned' /\ DirsOwned'
    BY <2>1, <2>2, <2>3, RequestBegins, Nones
  <2> QED BY <1>k, <2>2, <2>4
<1>6. ASSUME NEW q \in Req, CreateRun(q) PROVE Fit
  <2>1. UNCHANGED <<task, exec, dir>>
    BY <1>6 DEF CreateRun
  <2> QED BY <1>6, <1>k, <2>1, CreateRunFits
<1>7. ASSUME NEW q \in Req, Enqueue(q) \/ EnqueueRetry(q) PROVE Fit
  <2>1. PICK u \in Task :
          /\ task[u].status = "absent"
          /\ \A t \in Task \ {u} : task'[t] = [task[t] EXCEPT !.next = task'[t].next]
          /\ UNCHANGED <<run, dir, queue, exec, faults>>
    BY <1>0, <1>7, Inserts
  <2>2. ASSUME NEW t \in Task, task[t].status # "absent"
        PROVE  task'[t].type = task[t].type /\ task'[t].dir = task[t].dir
    <3> DEFINE x == task[t]  n == task'[t].next
    <3>1. task'[t] = [x EXCEPT !.next = n] /\ x \in TaskRow
      BY <1>0, <2>1, <2>2
    <3> HIDE DEF n
    <3> QED BY <3>1 DEF TaskRow
  <2>3. WorkersFit'
    BY <2>1, <2>2, WorkersKeep
  <2> QED BY <1>7, <2>3, InsertFits
<1>8. ASSUME NEW q \in Req, RetryRejected(q) \/ Submit(q) \/ SubmitRaises(q) \/ RequestFails(q)
      PROVE  Fit
  <2>1. UNCHANGED <<task, run, dir, exec>> /\ \A r \in Req : req'[r] = req[r] \/ req'[r] = NoReq
    BY <1>0, <1>8 DEF RetryRejected, Submit, SubmitRaises, RequestFails
  <2> QED BY <1>k, <2>1, RequestsEnd
<1>9. ASSUME NEW w \in Worker, Take(w) PROVE Fit
  <2>1. UNCHANGED <<task, run, dir, req>>
    BY <1>9 DEF Take
  <2>2. /\ exec'[w].pc = "start" /\ \A x \in Worker \ {w} : exec'[x] = exec[x]
    BY <1>0, <1>9 DEF Take, NoExec
  <2>3. WorkersFit'
    BY <1>0, <2>1, <2>2 DEF WorkersFit, WorkerFits, Row, UploadPcs
  <2> QED BY <2>1, <2>3, RequestsEnd
<1>10. ASSUME NEW w \in Worker, Start(w) \/ Report(w) PROVE Fit
  BY <1>10, StatusFits
<1>11. ASSUME NEW w \in Worker, Middle(w) PROVE Fit
  BY <1>11, MiddleFits
<1>12. ASSUME NEW w \in Worker, Ack(w) PROVE Fit
  <2>1. UNCHANGED <<task, run, dir, req>> /\ \A x \in Worker : exec'[x] = exec[x] \/ exec'[x] = NoExec
    BY <1>0, <1>12 DEF Ack
  <2> QED BY <2>1, RequestsEnd, WorkersKeep
<1>13. ASSUME NEW w \in Worker, JobFails(w) PROVE Fit
  <2>1. UNCHANGED <<task, run, dir, req>>
    BY <1>13 DEF JobFails
  <2>2. CASE exec' = [exec EXCEPT ![w] = NoExec]
    <3>1. \A x \in Worker : exec'[x] = exec[x] \/ exec'[x] = NoExec
      BY <1>0, <2>2
    <3> QED BY <2>1, <3>1, RequestsEnd, WorkersKeep
  <2>3. CASE exec[w].pc = "markfailed" /\ Raise(w, "cleanup")
    <3>1. /\ exec'[w].pc = "cleanup" /\ exec'[w].task = exec[w].task
          /\ \A x \in Worker \ {w} : exec'[x] = exec[x]
      BY <1>0, <2>3 DEF Raise, ExecState
    <3>2. WorkersFit'
      BY <1>0, <2>1, <2>3, <3>1 DEF WorkersFit, WorkerFits, Row, UploadPcs
    <3> QED BY <2>1, <3>2, RequestsEnd
  <2> QED BY <1>13, <2>2, <2>3 DEF JobFails
<1>14. ASSUME NEW p \in Proc, Crash(p) PROVE Fit
  <2>1. /\ UNCHANGED <<task, run, dir>>
        /\ \A x \in Worker : exec'[x] = exec[x] \/ exec'[x] = NoExec
        /\ \A r \in Req : req'[r] = req[r] \/ req'[r] = NoReq
    BY <1>14 DEF Crash
  <2> QED BY <2>1, RequestsEnd, WorkersKeep
<1>15. ASSUME UNCHANGED vars PROVE Fit
  <2>1. UNCHANGED <<task, run, dir, req, exec>>
    BY <1>15 DEF vars
  <2> QED BY <1>k, <2>1, RequestsEnd
<1>16. \A w \in Worker : ~ Requeue(w)
  BY DEF Requeue
<1> HIDE DEF Fit
<1>17. Fit
  BY <1>2, <1>3, <1>4, <1>5, <1>6, <1>7, <1>8, <1>9, <1>10, <1>11, <1>12, <1>13, <1>14,
     <1>15, <1>16
  DEF Next, RequestStep, WorkerStep, Middle, Quiescent
<1> QED BY <1>1, <1>17 DEF PoolInv, Fit

\* The initial state satisfies it.
LEMMA PoolInit == Init => PoolInv
<1> SUFFICES ASSUME Init PROVE PoolInv
  OBVIOUS
<1>1. LinkInv
  BY LinkInit
<1>2. /\ \A t \in Task : task[t] = NoTask
      /\ \A c \in Queue : queue[c] = {}
      /\ \A q \in Req : req[q] = NoReq
      /\ \A w \in Worker : exec[w] = NoExec
  BY DEF Init
<1>3. /\ NoTask.dir = None /\ NoTask.run = None /\ NoTask.type = None /\ NoTask.next = None
      /\ NoTask.status = "absent"
      /\ NoReq.pc = "idle" /\ NoReq.dir = None /\ NoReq.run = None /\ NoReq.type = None
      /\ NoReq.target = None /\ NoExec.pc = "idle" /\ NoExec.task = None
  BY DEF NoTask, NoReq, NoExec
<1>4. Placed
  BY <1>2, <1>3, Nones DEF Placed, SingleDelivery, StatusByPlace, Submitting, Queued, Executing
<1>5. RowsFit /\ RequestsFit
  BY <1>2, <1>3, Nones DEF RowsFit, RequestsFit
<1>6. RunsOwned /\ DirsOwned
  BY <1>2, <1>3 DEF RunsOwned, DirsOwned, Preparer
<1>7. WorkersFit
  BY <1>2, <1>3 DEF WorkersFit, WorkerFits, UploadPcs
<1> QED BY <1>1, <1>4, <1>5, <1>6, <1>7 DEF PoolInv

\* So it always holds.
LEMMA PoolInvariant == ASSUME ~ Durable PROVE Spec => []PoolInv
<1>1. PoolInv /\ [Next]_vars => PoolInv'
  BY PoolNext
<1> QED BY <1>1, PoolInit, PTL DEF Spec

-----------------------------------------------------------------------------
(* Unless something failed: runs and directories tell what became of tasks. *)

\* A run that waits for its row is running.
RequestsTell == \A q \in Req :
  req[q].pc = "enqueue" /\ req[q].run # None => run[req[q].run] = "running"

\* A run tells what its row tells.
RowsTell == \A t \in Task : task[t].run # None =>
  /\ task[t].status = "pending" => run[task[t].run] = "running"
  /\ task[t].status = "completed" => run[task[t].run] = task[t].result
  /\ task[t].status = "failed" /\ task[t].type = "knowledge_base_upload" =>
       run[task[t].run] \in {"running", "failed"}

\* A worker knows what its run tells, until it reports it.
WorkerTells(w) ==
  /\ exec[w].pc \in {"start", "ingest"} => ~ exec[w].raised /\ ~ exec[w].retain
  /\ exec[w].pc = "ingest" => run[Row(w).run] = "running"
  /\ exec[w].pc \in {"lock", "index", "markfailed"} => ~ exec[w].raised
  /\ exec[w].pc \in UploadPcs \cup {"report"} /\ exec[w].pc # "ingest"
       /\ ~ exec[w].raised /\ Row(w).run # None =>
       /\ run[Row(w).run] = exec[w].result
       /\ exec[w].pc # "report" => (exec[w].retain <=> exec[w].result = "completed_with_failures")
  /\ exec[w].pc \in {"cleanup", "report"} /\ exec[w].raised /\ Row(w).dir # None =>
       run[Row(w).run] \in {"running", "failed"}
  /\ exec[w].pc = "report" /\ Row(w).dir # None /\ dir[Row(w).dir] = "present" =>
       run[Row(w).run] # "completed"
WorkersTell == \A w \in Worker : WorkerTells(w)

\* The three together.
Tells == RequestsTell /\ RowsTell /\ WorkersTell

\* A directory on disk has somebody to answer for it.
Accounted == \A d \in Dir : dir[d] = "present" =>
  \/ \E q \in Req : req[q].dir = d
  \/ \E t \in Task : /\ task[t].dir = d
                     /\ Terminal(t) => run[task[t].run] # "completed"

\* What a runner's step does, in terms of the fields it writes.
Same(w) == /\ exec'[w].raised = exec[w].raised /\ exec'[w].retain = exec[w].retain
           /\ exec'[w].result = exec[w].result
Goes(w, from, to) == exec[w].pc = from /\ exec'[w].pc = to
Sets(w, s) == run' = [run EXCEPT ![Row(w).run] = s]

Effect(w) ==
  \/ /\ Goes(w, "ingest", "cleanup") /\ exec'[w].raised /\ UNCHANGED <<run, dir>>
  \/ /\ Goes(w, "ingest", "lock") /\ Sets(w, "completed") /\ UNCHANGED dir
     /\ exec'[w].raised = exec[w].raised /\ exec'[w].retain = exec[w].retain
     /\ exec'[w].result = "completed"
  \/ /\ Goes(w, "ingest", "lock") /\ Sets(w, "completed_with_failures") /\ UNCHANGED dir
     /\ exec'[w].raised = exec[w].raised /\ exec'[w].retain
     /\ exec'[w].result = "completed_with_failures"
  \/ /\ Goes(w, "lock", "index") \/ Goes(w, "index", "cleanup") \/ Goes(w, "index", "markfailed")
     /\ Same(w) /\ UNCHANGED <<run, dir>>
  \/ /\ Goes(w, "markfailed", "cleanup") /\ exec'[w].raised /\ Sets(w, "failed") /\ UNCHANGED dir
  \/ /\ Goes(w, "cleanup", "report") /\ Same(w) /\ UNCHANGED run
     /\ dir' = IF exec[w].retain THEN dir ELSE [dir EXCEPT ![Row(w).dir] = "removed"]
  \/ /\ Goes(w, "dag", "dagrun") /\ Sets(w, "running") /\ UNCHANGED dir
  \/ /\ Goes(w, "dagrun", "report") /\ UNCHANGED dir
     /\ \/ exec'[w].raised /\ UNCHANGED run
        \/ Sets(w, exec'[w].result)
  \/ /\ Goes(w, "source", "report") /\ UNCHANGED <<run, dir>>

\* The steps of a runner in these terms.
LEMMA MiddleEffect ==
  ASSUME TypeOK, NEW w \in Worker, Middle(w)
  PROVE  Effect(w)
<1>0. exec \in [Worker -> ExecState] /\ exec[w] \in ExecState
  BY DEF TypeOK
<1>r. ASSUME NEW pc \in {"cleanup", "report"}, Raise(w, pc)
      PROVE exec'[w].pc = pc /\ exec'[w].raised
  BY <1>0, <1>r DEF Raise, ExecState
<1>1. CASE Ingest(w)
  <2>1. CASE Raise(w, "cleanup") /\ UNCHANGED run
    BY <1>r, <1>1, <2>1 DEF Ingest, Effect, Goes
  <2>2. CASE /\ exec' = [exec EXCEPT ![w] = [@ EXCEPT !.pc = "cleanup", !.raised = TRUE,
                                                      !.retain = TRUE]]
             /\ UNCHANGED run
    <3>1. exec'[w].pc = "cleanup" /\ exec'[w].raised
      BY <1>0, <2>2 DEF ExecState
    <3> QED BY <1>1, <2>2, <3>1 DEF Ingest, Effect, Goes
  <2>3. CASE /\ run' = [run EXCEPT ![Row(w).run] = "completed"]
             /\ exec' = [exec EXCEPT ![w] = [@ EXCEPT !.pc = "lock", !.result = "completed"]]
    <3>1. /\ exec'[w].pc = "lock" /\ exec'[w].result = "completed"
          /\ exec'[w].raised = exec[w].raised /\ exec'[w].retain = exec[w].retain
      BY <1>0, <2>3 DEF ExecState
    <3> QED BY <1>1, <2>3, <3>1 DEF Ingest, Effect, Goes, Sets
  <2>4. CASE /\ run' = [run EXCEPT ![Row(w).run] = "completed_with_failures"]
             /\ exec' = [exec EXCEPT ![w] = [@ EXCEPT !.pc = "lock", !.retain = TRUE,
                                                   !.result = "completed_with_failures"]]
    <3>1. /\ exec'[w].pc = "lock" /\ exec'[w].result = "completed_with_failures"
          /\ exec'[w].raised = exec[w].raised /\ exec'[w].retain
      BY <1>0, <2>4 DEF ExecState
    <3> QED BY <1>1, <2>4, <3>1 DEF Ingest, Effect, Goes, Sets
  <2> QED BY <1>1, <2>1, <2>2, <2>3, <2>4 DEF Ingest
<1>2. CASE LockIndex(w)
  <2>1. exec'[w].pc = "index" /\ Same(w)
    BY <1>0, <1>2 DEF LockIndex, Same, ExecState
  <2> QED BY <1>2, <2>1 DEF LockIndex, Effect, Goes
<1>3. CASE Index(w)
  <2>1. PICK pc \in {"cleanup", "markfailed"} : exec' = [exec EXCEPT ![w].pc = pc]
    BY <1>3 DEF Index
  <2>2. exec'[w].pc = pc /\ Same(w)
    BY <1>0, <2>1 DEF Same, ExecState
  <2> QED BY <1>3, <2>2 DEF Index, Effect, Goes
<1>4. CASE MarkRunFailed(w)
  BY <1>r, <1>4 DEF MarkRunFailed, Effect, FailedStatus, Goes, Sets
<1>5. CASE Cleanup(w)
  <2>1. exec'[w].pc = "report" /\ Same(w)
    BY <1>0, <1>5 DEF Cleanup, Same, ExecState
  <2> QED BY <1>5, <2>1 DEF Cleanup, Effect, Goes, Discards
<1>6. CASE BeginDag(w)
  <2>1. exec'[w].pc = "dagrun"
    BY <1>0, <1>6 DEF BeginDag, ExecState
  <2> QED BY <1>6, <2>1 DEF BeginDag, Effect, Goes, Sets
<1>7. CASE EndDag(w)
  <2>1. CASE Raise(w, "report") /\ UNCHANGED run
    BY <1>r, <1>7, <2>1 DEF EndDag, Effect, Goes
  <2>2. ASSUME NEW s, run' = [run EXCEPT ![Row(w).run] = s],
               exec' = [exec EXCEPT ![w] = [@ EXCEPT !.pc = "report", !.result = s]]
        PROVE  exec'[w].pc = "report" /\ Sets(w, exec'[w].result)
    BY <1>0, <2>2 DEF ExecState, Sets
  <2>3. CASE \E s \in {"completed", "completed_with_failures"} :
               /\ run' = [run EXCEPT ![Row(w).run] = s]
               /\ exec' = [exec EXCEPT ![w] = [@ EXCEPT !.pc = "report", !.result = s]]
    BY <1>7, <2>2, <2>3 DEF EndDag, Effect, Goes
  <2> QED BY <1>7, <2>1, <2>3 DEF EndDag
<1>8. CASE EndSource(w)
  <2>1. exec'[w].pc = "report"
    BY <1>0, <1>r, <1>8 DEF EndSource, ExecState
  <2> QED BY <1>8, <2>1 DEF EndSource, Effect, Goes
<1> QED BY <1>1, <1>2, <1>3, <1>4, <1>5, <1>6, <1>7, <1>8 DEF Middle

\* A runner keeps its run and what it knows together, and touches no finished
\* task's run.
LEMMA MiddleTells ==
  ASSUME PoolInv, Tells, NEW w \in Worker, Middle(w)
  PROVE  /\ Tells'
         /\ \A t \in Task : task[t].run # None /\ Terminal(t) => run'[task[t].run] = run[task[t].run]
         /\ \A d \in Dir : dir'[d] = "present" => dir[d] = "present"
<1>0. /\ LinkInv /\ TypeOK /\ RowsFit /\ RequestsFit /\ RunsOwned /\ DirsOwned /\ WorkersFit
      /\ SingleDelivery /\ StatusByPlace /\ RequestsTell /\ RowsTell /\ WorkersTell
      /\ req \in [Req -> ReqState] /\ task \in [Task -> TaskRow] /\ run \in [Run -> RunStatus]
      /\ dir \in [Dir -> {"unused", "present", "removed"}]
  BY DEF PoolInv, Placed, LinkInv, TypeOK, Tells
<1>t. /\ \A t \in Task : task[t].run \in Run \cup {None} /\ task[t].dir \in Dir \cup {None}
      /\ \A q \in Req : req[q].run \in Run \cup {None}
      /\ \A t \in Task : task[t].type = "knowledge_base_upload" =>
           task[t].run # None /\ task[t].dir # None
  BY <1>0 DEF TaskRow, ReqState, RowsFit, WithRun
<1>f. /\ Working(w) /\ Working(w)'
      /\ exec'[w].task = exec[w].task
      /\ \A x \in Worker \ {w} : exec'[x] = exec[x]
      /\ UNCHANGED <<task, queue, req>>
  BY <1>0, MiddleFrame
<1>1. PICK u \in Task : u = exec[w].task
  BY <1>0, <1>f DEF Working, LinkInv, HoldersHaveTask, WorkerHolds
<1>2. task[u].status = "running" /\ \A x \in Worker \ {w} : exec[x].task # u
  BY <1>0, <1>1, <1>f DEF Working, StatusByPlace, SingleDelivery, Executing
<1>3. Effect(w)
  BY <1>0, MiddleEffect
<1>r. Row(w) = task[u] /\ Row(w)' = task[u]
  BY <1>1, <1>f DEF Row
<1>4. /\ \A r \in Run : r # task[u].run => run'[r] = run[r]
      /\ \A d \in Dir : dir'[d] = "present" => dir[d] = "present"
  <2>1. \/ UNCHANGED run
        \/ \E s : Sets(w, s)
    BY <1>3 DEF Effect
  <2>2. UNCHANGED dir \/ dir' = [dir EXCEPT ![task[u].dir] = "removed"]
    BY <1>3, <1>r DEF Effect
  <2> QED BY <1>0, <1>r, <2>1, <2>2 DEF Sets
<1>5. \A t \in Task \ {u} : task[t].run # None => run'[task[t].run] = run[task[t].run]
  BY <1>0, <1>t, <1>4 DEF RunsOwned
<1>6. RequestsTell'
  BY <1>0, <1>t, <1>4, <1>f DEF RequestsTell, RunsOwned
<1>7. RowsTell'
  BY <1>0, <1>2, <1>5, <1>f DEF RowsTell
<1>8. ASSUME NEW x \in Worker \ {w} PROVE WorkerTells(x)'
  <2>1. exec'[x] = exec[x] /\ WorkerTells(x) /\ WorkerFits(x)
    BY <1>0, <1>f DEF WorkersTell, WorkersFit
  <2>2. CASE exec[x].pc \in {"idle", "ack"}
    BY <2>1, <2>2 DEF WorkerTells, UploadPcs
  <2>3. CASE exec[x].pc \notin {"idle", "ack"}
    <3>1. PICK t \in Task : t = exec[x].task /\ t # u
      BY <1>0, <1>2, <2>3 DEF LinkInv, HoldersHaveTask, WorkerHolds
    <3>2. Row(x) = task[t] /\ Row(x)' = task[t]
      BY <1>f, <2>1, <3>1 DEF Row
    <3>3. task[t].run # None => run'[task[t].run] = run[task[t].run]
      BY <1>5, <3>1
    <3>4. /\ exec[x].pc = "ingest" => task[t].run # None
          /\ task[t].dir # None => task[t].run # None
      BY <1>0, <1>t, <2>1, <3>2 DEF WorkerFits, UploadPcs, RowsFit
    <3> QED BY <1>4, <1>t, <2>1, <3>2, <3>3, <3>4 DEF WorkerTells, UploadPcs
  <2> QED BY <2>2, <2>3
<1>9. WorkerTells(w)'
  <2> DEFINE e == exec[w]  f == exec'[w]  r == task[u].run  d == task[u].dir
  <2>0. WorkerTells(w) /\ WorkerFits(w)
    BY <1>0 DEF WorkersTell, WorkersFit
  <2>u. e.pc \in UploadPcs => r \in Run /\ d \in Dir /\ d # None
    BY <1>t, <1>r, <2>0 DEF WorkerFits
  <2>g. e.pc \in {"dag", "dagrun"} => r \in Run /\ d = None
    BY <1>0, <1>r, <1>t, <2>0 DEF WorkerFits, RowsFit, WithRun
  <2>s. e.pc = "source" => r = None /\ d = None
    BY <1>0, <1>r, <1>t, <2>0 DEF WorkerFits, RowsFit, WithRun
  <2>1. CASE Goes(w, "ingest", "cleanup") /\ f.raised /\ UNCHANGED <<run, dir>>
    <3>1. run[r] = "running"
      BY <1>r, <2>0, <2>1 DEF WorkerTells, Goes
    <3> QED BY <1>r, <2>1, <3>1 DEF WorkerTells, Goes
  <2>2. CASE /\ Goes(w, "ingest", "lock") /\ Sets(w, "completed") /\ UNCHANGED dir
             /\ f.raised = e.raised /\ f.retain = e.retain /\ f.result = "completed"
    <3>1. run'[r] = "completed" /\ ~ e.raised /\ ~ e.retain
      BY <1>0, <1>r, <2>0, <2>2, <2>u DEF WorkerTells, Goes, Sets, UploadPcs
    <3> QED BY <1>r, <2>2, <3>1 DEF WorkerTells, Goes
  <2>3. CASE /\ Goes(w, "ingest", "lock") /\ Sets(w, "completed_with_failures") /\ UNCHANGED dir
             /\ f.raised = e.raised /\ f.retain /\ f.result = "completed_with_failures"
    <3>1. run'[r] = "completed_with_failures" /\ ~ e.raised
      BY <1>0, <1>r, <2>0, <2>3, <2>u DEF WorkerTells, Goes, Sets, UploadPcs
    <3> QED BY <1>r, <2>3, <3>1 DEF WorkerTells, Goes
  <2>4. CASE /\ Goes(w, "lock", "index") \/ Goes(w, "index", "cleanup") \/ Goes(w, "index", "markfailed")
             /\ Same(w) /\ UNCHANGED <<run, dir>>
    <3>1. ~ e.raised
      BY <2>0, <2>4 DEF WorkerTells, Goes
    <3> QED BY <1>r, <2>0, <2>4, <3>1 DEF WorkerTells, Goes, Same, UploadPcs
  <2>5. CASE Goes(w, "markfailed", "cleanup") /\ f.raised /\ Sets(w, "failed") /\ UNCHANGED dir
    <3>1. run'[r] = "failed"
      BY <1>0, <1>r, <2>5, <2>u DEF Goes, Sets, UploadPcs
    <3> QED BY <1>r, <2>5, <3>1 DEF WorkerTells, Goes
  <2>6. CASE /\ Goes(w, "cleanup", "report") /\ Same(w) /\ UNCHANGED run
             /\ dir' = IF e.retain THEN dir ELSE [dir EXCEPT ![Row(w).dir] = "removed"]
    <3>1. e.pc = "cleanup" /\ f.pc = "report" /\ r \in Run /\ d \in Dir
      BY <2>6, <2>u DEF Goes, UploadPcs
    <3>2. /\ ~ e.raised => run[r] = e.result /\ (e.retain <=> e.result = "completed_with_failures")
          /\ e.raised => run[r] \in {"running", "failed"}
      BY <1>r, <1>t, <2>0, <2>u, <3>1, Nones DEF WorkerTells, UploadPcs
    <3>3. dir'[d] = "present" => run[r] # "completed"
      <4>1. ~ e.retain => dir'[d] = "removed"
        BY <1>0, <1>r, <2>6, <3>1
      <4> QED BY <3>2, <4>1
    <3> QED BY <1>r, <2>6, <3>1, <3>2, <3>3 DEF WorkerTells, Same
  <2>7. CASE Goes(w, "dag", "dagrun") /\ Sets(w, "running") /\ UNCHANGED dir
    BY <2>7 DEF WorkerTells, Goes, UploadPcs
  <2>8. CASE /\ Goes(w, "dagrun", "report") /\ UNCHANGED dir
             /\ \/ f.raised /\ UNCHANGED run
                \/ Sets(w, f.result)
    <3>1. f.raised \/ run'[r] = f.result
      BY <1>0, <1>r, <2>8, <2>g DEF Goes, Sets
    <3> QED BY <1>r, <2>8, <2>g, <3>1 DEF WorkerTells, Goes
  <2>9. CASE Goes(w, "source", "report") /\ UNCHANGED <<run, dir>>
    BY <1>r, <2>9, <2>s DEF WorkerTells, Goes
  <2> QED BY <1>3, <2>1, <2>2, <2>3, <2>4, <2>5, <2>6, <2>7, <2>8, <2>9 DEF Effect
<1>10. \A t \in Task : task[t].run # None /\ Terminal(t) => run'[task[t].run] = run[task[t].run]
  BY <1>2, <1>5 DEF Terminal
<1> QED BY <1>4, <1>6, <1>7, <1>8, <1>9, <1>10 DEF Tells, WorkersTell

\* A request that begins, prepares its run or ends leaves the workers' tale alone.
LEMMA RequestTells ==
  ASSUME PoolInv, Tells, UNCHANGED <<task, exec>>,
         \A r \in Run : run[r] # "absent" => run'[r] = run[r],
         \A d \in Dir : dir'[d] = "present" => dir[d] \in {"present", "unused"},
         \A q \in Req : req'[q].pc = "enqueue" /\ req'[q].run # None =>
           req'[q] = req[q] \/ run'[req'[q].run] = "running"
  PROVE  Tells'
<1>0. /\ RowsFit /\ RunsOwned /\ DirsOwned /\ WorkersFit
      /\ RequestsTell /\ RowsTell /\ WorkersTell /\ LinkInv /\ StatusByPlace
      /\ \A t \in Task : task[t].run \in Run \cup {None} /\ task[t].dir \in Dir \cup {None}
      /\ \A q \in Req : req[q].run \in Run \cup {None}
  BY DEF PoolInv, Placed, LinkInv, TypeOK, TaskRow, ReqState, Tells
<1>1. \A t \in Task : task[t].run # None => run'[task[t].run] = run[task[t].run]
  BY <1>0 DEF RunsOwned
<1>2. RequestsTell'
  <2> SUFFICES ASSUME NEW q \in Req, req'[q].pc = "enqueue", req'[q].run # None
               PROVE  run'[req'[q].run] = "running"
    BY DEF RequestsTell
  <2>1. CASE req'[q] = req[q]
    BY <1>0, <2>1 DEF RequestsTell, RunsOwned
  <2>2. CASE run'[req'[q].run] = "running"
    BY <2>2
  <2> QED BY <2>1, <2>2
<1>3. RowsTell'
  BY <1>0, <1>1 DEF RowsTell
<1>4. ASSUME NEW x \in Worker PROVE WorkerTells(x)'
  <2>1. WorkerTells(x) /\ WorkerFits(x)
    BY <1>0 DEF WorkersTell, WorkersFit
  <2>2. CASE exec[x].pc \in {"idle", "ack"}
    BY <2>2 DEF WorkerTells, UploadPcs
  <2>3. CASE exec[x].pc \notin {"idle", "ack"}
    <3>1. PICK t \in Task : t = exec[x].task
      BY <1>0, <2>3 DEF LinkInv, HoldersHaveTask, WorkerHolds
    <3>2. Row(x) = task[t] /\ Row(x)' = task[t]
      BY <3>1 DEF Row
    <3>3. task[t].run # None => run'[task[t].run] = run[task[t].run]
      BY <1>1
    <3>4. /\ exec[x].pc = "ingest" => task[t].run # None
          /\ task[t].dir # None => task[t].run # None
      BY <1>0, <2>1, <3>2 DEF WorkerFits, UploadPcs, RowsFit, WithRun
    <3>5. task[t].dir # None /\ dir'[task[t].dir] = "present" => dir[task[t].dir] = "present"
      BY <1>0 DEF DirsOwned
    <3> QED BY <2>1, <3>2, <3>3, <3>4, <3>5 DEF WorkerTells, UploadPcs
  <2> QED BY <2>2, <2>3
<1> QED BY <1>2, <1>3, <1>4 DEF Tells, WorkersTell

\* A step in which nothing fails keeps what is told and who answers.
LEMMA TellsNext ==
  ASSUME PoolInv, ~ Durable, Tells, Accounted, [Next]_vars, faults' = faults
  PROVE  Tells' /\ Accounted'
<1> DEFINE Story == Tells' /\ Accounted'
<1>0. /\ LinkInv /\ TypeOK /\ RowsFit /\ RequestsFit /\ RunsOwned /\ DirsOwned /\ WorkersFit
      /\ StatusByPlace /\ SingleDelivery /\ RequestsTell /\ RowsTell /\ WorkersTell
      /\ req \in [Req -> ReqState] /\ task \in [Task -> TaskRow] /\ run \in [Run -> RunStatus]
      /\ dir \in [Dir -> {"unused", "present", "removed"}] /\ exec \in [Worker -> ExecState]
      /\ faults \in Nat
  BY DEF PoolInv, Placed, LinkInv, TypeOK, Tells
<1>t. /\ \A t \in Task : task[t].run \in Run \cup {None} /\ task[t].dir \in Dir \cup {None}
      /\ \A q \in Req : req[q].run \in Run \cup {None} /\ req[q].dir \in Dir \cup {None}
      /\ \A t \in Task : task[t].dir # None => task[t].run # None
  BY <1>0 DEF TaskRow, ReqState, RowsFit, WithRun
<1>r. NoReq.pc = "idle" /\ NoReq.run = None /\ NoReq.target = None /\ NoReq.dir = None
  BY DEF NoReq
<1>b. ASSUME NEW q \in Req, NEW v, req[q].pc = "idle", req' = [req EXCEPT ![q] = v], v.run = None,
             UNCHANGED <<task, run, exec>>,
             \A d \in Dir : dir'[d] = "present" => dir[d] = "present" \/ (dir[d] = "unused" /\ v.dir = d)
      PROVE  Story
  <2>1. req'[q] = v /\ (\A r \in Req \ {q} : req'[r] = req[r]) /\ req[q].dir = None
    BY <1>0, <1>b, <1>r DEF RequestsFit
  <2>2. Tells'
    BY <1>b, <2>1, RequestTells
  <2>3. Accounted'
    <3> SUFFICES ASSUME NEW d \in Dir, dir'[d] = "present"
                 PROVE  \/ \E r \in Req : req'[r].dir = d
                        \/ \E t \in Task : task[t].dir = d /\ (Terminal(t) => run[task[t].run] # "completed")
      BY <1>b DEF Accounted, Terminal
    <3>1. CASE dir[d] = "present"
      BY <2>1, <3>1, Nones DEF Accounted
    <3>2. CASE v.dir = d
      BY <2>1, <3>2
    <3> QED BY <1>b, <3>1, <3>2
  <2> QED BY <2>2, <2>3
<1>e. ASSUME NEW q \in Req, UNCHANGED <<task, run, exec, dir>>, req' = [req EXCEPT ![q] = NoReq],
             req[q].dir # None => \E t \in Task : /\ task[t].dir = req[q].dir
                                                  /\ Terminal(t) => run[task[t].run] # "completed"
      PROVE  Story
  <2>1. \A r \in Req : req'[r] = IF r = q THEN NoReq ELSE req[r]
    BY <1>0, <1>e
  <2>2. Tells'
    BY <1>e, <1>r, <2>1, RequestTells
  <2>3. Accounted'
    <3> SUFFICES ASSUME NEW d \in Dir, dir[d] = "present"
                 PROVE  \/ \E r \in Req : req'[r].dir = d
                        \/ \E t \in Task : task[t].dir = d /\ (Terminal(t) => run[task[t].run] # "completed")
      BY <1>e DEF Accounted, Terminal
    <3> QED BY <1>e, <2>1, Nones DEF Accounted
  <2> QED BY <2>2, <2>3
<1> HIDE DEF Story
<1>1. ASSUME NEW q \in Req, Upload(q) PROVE Story
  <2>1. PICK d \in Dir :
          /\ dir[d] = "unused" /\ dir' = [dir EXCEPT ![d] = "present"]
          /\ req' = [req EXCEPT ![q] = [NoReq EXCEPT !.pc = "prepare",
                       !.type = "knowledge_base_upload", !.dir = d]]
    BY <1>1 DEF Upload
  <2> DEFINE v == [NoReq EXCEPT !.pc = "prepare", !.type = "knowledge_base_upload", !.dir = d]
  <2>2. v.dir = d /\ v.run = None
    BY DEF NoReq
  <2>3. /\ req[q].pc = "idle" /\ UNCHANGED <<task, run, exec>> /\ req' = [req EXCEPT ![q] = v]
    BY <1>1, <2>1 DEF Upload
  <2> HIDE DEF v
  <2>4. \A e \in Dir : dir'[e] = "present" => dir[e] = "present" \/ (dir[e] = "unused" /\ v.dir = e)
    BY <1>0, <2>1, <2>2
  <2> QED BY <1>b, <2>2, <2>3, <2>4
<1>2. ASSUME NEW q \in Req, IngestionDag(q) PROVE Story
  <2>1. [NoReq EXCEPT !.pc = "prepare", !.type = "pipeline_dag_ingestion"].run = None
    BY DEF NoReq
  <2> QED BY <1>2, <1>b, <2>1 DEF IngestionDag
<1>3. ASSUME NEW q \in Req, SourceIngest(q) PROVE Story
  <2>1. [NoReq EXCEPT !.pc = "enqueue", !.type = "source_ingest"].run = None
    BY DEF NoReq
  <2> QED BY <1>3, <1>b, <2>1 DEF SourceIngest
<1>4. ASSUME NEW q \in Req, NEW t \in Task, Retry(q, t) PROVE Story
  <2>1. [NoReq EXCEPT !.pc = "prepare", !.type = task[t].type, !.target = t,
                      !.attempts = task[t].attempts, !.dir = task[t].dir].run = None
    BY DEF NoReq
  <2> QED BY <1>4, <1>b, <2>1 DEF Retry
<1>5. ASSUME NEW q \in Req, CreateRun(q) PROVE Story
  <2>1. PICK r \in Run :
          /\ run[r] = "absent" /\ run' = [run EXCEPT ![r] = "running"]
          /\ req' = [req EXCEPT ![q] = [@ EXCEPT !.pc = "enqueue", !.run = r]]
    BY <1>5 DEF CreateRun
  <2>2. /\ UNCHANGED <<task, dir, exec>>
        /\ req'[q].run = r /\ req'[q].dir = req[q].dir
        /\ \A s \in Req \ {q} : req'[s] = req[s]
        /\ run'[r] = "running" /\ \A x \in Run \ {r} : run'[x] = run[x]
    BY <1>0, <1>5, <2>1 DEF CreateRun, ReqState
  <2>3. \A x \in Run : run[x] # "absent" => run'[x] = run[x]
    BY <2>1, <2>2
  <2>4. Tells'
    BY <2>2, <2>3, RequestTells
  <2>5. Accounted'
    <3>1. \A t \in Task : task[t].run # None => run'[task[t].run] = run[task[t].run]
      BY <1>0, <1>t, <2>3 DEF RunsOwned
    <3> QED BY <1>t, <2>2, <3>1, Nones DEF Accounted, Terminal
  <2> QED BY <2>4, <2>5 DEF Story
<1>6. ASSUME NEW q \in Req, Enqueue(q) \/ EnqueueRetry(q) PROVE Story
  <2>1. PICK u \in Task :
          /\ task[u].status = "absent" /\ task'[u] = NewRow(q)
          /\ \A t \in Task \ {u} : task'[t] = [task[t] EXCEPT !.next = task'[t].next]
          /\ req' = [req EXCEPT ![q] = [@ EXCEPT !.pc = "submit", !.task = u]]
          /\ UNCHANGED <<run, dir, queue, exec, faults>>
    BY <1>0, <1>6, Inserts
  <2>2. ASSUME NEW t \in Task \ {u}
        PROVE  /\ task'[t].status = task[t].status /\ task'[t].type = task[t].type
               /\ task'[t].run = task[t].run /\ task'[t].dir = task[t].dir
               /\ task'[t].result = task[t].result
    <3> DEFINE x == task[t]  n == task'[t].next
    <3>1. task'[t] = [x EXCEPT !.next = n] /\ x \in TaskRow
      BY <1>0, <2>1
    <3> HIDE DEF n
    <3> QED BY <3>1 DEF TaskRow
  <2>3. /\ task'[u].status = "pending" /\ task'[u].run = req[q].run /\ req[q].pc = "enqueue"
    <3>1. req[q].pc = "enqueue"
      BY <1>6 DEF Enqueue, EnqueueRetry
    <3> QED BY <2>1, <3>1 DEF NewRow
  <2>4. /\ req'[q].pc = "submit" /\ req'[q].dir = req[q].dir
        /\ \A s \in Req \ {q} : req'[s] = req[s]
    BY <1>0, <2>1 DEF ReqState
  <2>5. RequestsTell' /\ RowsTell'
    BY <1>0, <2>1, <2>2, <2>3, <2>4 DEF RequestsTell, RowsTell
  <2>6. ASSUME NEW x \in Worker PROVE WorkerTells(x)'
    <3>1. WorkerTells(x)
      BY <1>0 DEF WorkersTell
    <3>2. CASE exec[x].pc \in {"idle", "ack"}
      BY <2>1, <3>2 DEF WorkerTells, UploadPcs
    <3>3. CASE exec[x].pc \notin {"idle", "ack"}
      <4>1. PICK t \in Task : t = exec[x].task
        BY <1>0, <3>3 DEF LinkInv, HoldersHaveTask, WorkerHolds
      <4>2. t # u
        BY <1>0, <2>1, <3>3, <4>1 DEF StatusByPlace, Executing
      <4>3. Row(x) = task[t] /\ Row(x)' = task'[t]
        BY <2>1, <4>1 DEF Row
      <4> QED BY <2>1, <2>2, <3>1, <4>2, <4>3 DEF WorkerTells, UploadPcs
    <3> QED BY <3>2, <3>3
  <2>7. Accounted'
    <3>u. task[u].dir = None
      BY <1>0, <2>1 DEF LinkInv, AbsentIsBlank, NoTask
    <3> SUFFICES ASSUME NEW d \in Dir, dir[d] = "present"
                 PROVE  \/ \E r \in Req : req'[r].dir = d
                        \/ \E t \in Task : task'[t].dir = d /\ (Terminal(t)' => run[task'[t].run] # "completed")
      BY <2>1 DEF Accounted
    <3>1. CASE \E r \in Req : req[r].dir = d
      BY <2>4, <3>1
    <3>2. ASSUME NEW t \in Task, task[t].dir = d, Terminal(t) => run[task[t].run] # "completed"
          PROVE  \E x \in Task : task'[x].dir = d /\ (Terminal(x)' => run[task'[x].run] # "completed")
      <4>1. t # u
        BY <3>2, <3>u, Nones
      <4> QED BY <2>2, <3>2, <4>1 DEF Terminal
    <3> QED BY <3>1, <3>2 DEF Accounted
  <2> QED BY <2>5, <2>6, <2>7 DEF Story, Tells, WorkersTell
<1>7. ASSUME NEW q \in Req, RetryRejected(q) PROVE Story
  <2>1. UNCHANGED <<task, run, exec, dir>> /\ req' = [req EXCEPT ![q] = NoReq]
    BY <1>7 DEF RetryRejected
  <2>2. ASSUME req[q].dir # None
        PROVE  \E t \in Task : /\ task[t].dir = req[q].dir
                               /\ Terminal(t) => run[task[t].run] # "completed"
    <3>1. PICK t \in Task : t = req[q].target
      BY <1>0, <1>7 DEF RetryRejected, ReqState
    <3>2. /\ task[t].dir = req[q].dir /\ task[t].status = "failed"
          /\ task[t].type = "knowledge_base_upload"
      BY <1>0, <2>2, <3>1, Nones DEF RequestsFit
    <3>3. run[task[t].run] \in {"running", "failed"}
      BY <1>0, <1>t, <2>2, <3>2 DEF RowsTell
    <3> QED BY <3>2, <3>3
  <2> QED BY <1>e, <2>1, <2>2
<1>8. ASSUME NEW q \in Req, Submit(q) PROVE Story
  <2>1. UNCHANGED <<task, run, exec, dir>> /\ req' = [req EXCEPT ![q] = NoReq]
    BY <1>8 DEF Submit
  <2>2. PICK t \in Task : t = req[q].task
    BY <1>0, <1>8 DEF Submit, LinkInv, HoldersHaveTask, RequestHolds
  <2>3. task[t].dir = req[q].dir /\ task[t].status = "pending"
    BY <1>0, <1>8, <2>2 DEF Submit, RequestsFit, StatusByPlace, Submitting
  <2> QED BY <1>e, <2>1, <2>3 DEF Terminal
<1>9. \A q \in Req : ~ SubmitRaises(q)
  BY DEF SubmitRaises, Submittable
<1>f. /\ \A q \in Req : ~ RequestFails(q)
      /\ \A w \in Worker : ~ JobFails(w) /\ ~ Requeue(w)
      /\ \A p \in Proc : ~ Crash(p)
  BY <1>0 DEF RequestFails, JobFails, Requeue, Crash
<1>10. ASSUME NEW w \in Worker, NEW e \in ExecState, exec' = [exec EXCEPT ![w] = e],
              UNCHANGED <<task, run, req, dir>>,
              e.pc = "ack" \/ e.pc = "idle" \/ (e.pc = "start" /\ ~ e.raised /\ ~ e.retain)
       PROVE Story
  <2>1. exec'[w] = e /\ \A x \in Worker \ {w} : exec'[x] = exec[x]
    BY <1>0, <1>10
  <2>2. RequestsTell' /\ RowsTell' /\ Accounted'
    BY <1>0, <1>10 DEF RequestsTell, RowsTell, Accounted, Terminal
  <2>3. ASSUME NEW x \in Worker PROVE WorkerTells(x)'
    <3>1. CASE x = w
      BY <1>10, <2>1, <3>1 DEF WorkerTells, UploadPcs
    <3>2. CASE x # w
      BY <1>0, <1>10, <2>1, <3>2 DEF WorkersTell, WorkerTells, Row
    <3> QED BY <3>1, <3>2
  <2> QED BY <2>2, <2>3 DEF Story, Tells, WorkersTell
<1>11. ASSUME NEW w \in Worker, Take(w) PROVE Story
  <2>1. PICK t \in queue[QueueOf(ProcOf[w])] :
          exec' = [exec EXCEPT ![w] = [NoExec EXCEPT !.pc = "start", !.task = t]]
    BY <1>11 DEF Take
  <2>2. t \in Task
    BY <1>0, QueueOfType DEF TypeOK
  <2> DEFINE e == [NoExec EXCEPT !.pc = "start", !.task = t]
  <2>3. e \in ExecState /\ e.pc = "start" /\ ~ e.raised /\ ~ e.retain
    BY <2>2 DEF NoExec, ExecState, ExecPc, Result
  <2>4. exec' = [exec EXCEPT ![w] = e] /\ UNCHANGED <<task, run, req, dir>>
    BY <1>11, <2>1 DEF Take
  <2> HIDE DEF e
  <2> QED BY <1>10, <2>3, <2>4
<1>12. ASSUME NEW w \in Worker, Ack(w) PROVE Story
  <2>1. NoExec \in ExecState /\ NoExec.pc = "idle"
    BY DEF NoExec, ExecState, ExecPc, Result
  <2> QED BY <1>12, <1>10, <2>1 DEF Ack
<1>13. ASSUME NEW w \in Worker, Middle(w) PROVE Story
  <2>1. /\ Tells'
        /\ \A t \in Task : task[t].run # None /\ Terminal(t) => run'[task[t].run] = run[task[t].run]
        /\ \A d \in Dir : dir'[d] = "present" => dir[d] = "present"
    BY <1>13, MiddleTells
  <2>2. UNCHANGED <<task, req>>
    BY <1>0, <1>13, MiddleFrame
  <2>3. Accounted'
    BY <1>t, <2>1, <2>2, Nones DEF Accounted, Terminal
  <2> QED BY <2>1, <2>3 DEF Story
<1>14. ASSUME NEW w \in Worker, Start(w) \/ Report(w) PROVE Story
  <2>1. PICK u \in Task : u = exec[w].task
    BY <1>0, <1>14 DEF Start, Report, LinkInv, HoldersHaveTask, WorkerHolds
  <2>2. /\ \A t \in Task : /\ task'[t].type = task[t].type /\ task'[t].run = task[t].run
                           /\ task'[t].dir = task[t].dir /\ task'[t].next = task[t].next
        /\ \A t \in Task \ {u} : task'[t] = task[t]
        /\ Start(w) => task'[u].status = "running"
        /\ Report(w) => /\ task'[u].status = IF exec[w].raised THEN "failed" ELSE "completed"
                        /\ task'[u].result = exec[w].result
        /\ UNCHANGED <<run, dir, req, faults>>
    BY <1>0, <1>14, <2>1, StatusWrites
  <2>r. Row(w) = task[u] /\ WorkerTells(w) /\ exec[w] \in ExecState
    BY <1>0, <2>1 DEF Row, WorkersTell
  <2>3. RequestsTell'
    BY <1>0, <2>2 DEF RequestsTell
  <2>4. /\ task'[u].status \in {"running", "completed", "failed"}
        /\ task'[u].status = "completed" => Report(w) /\ ~ exec[w].raised /\ task'[u].result = exec[w].result
        /\ task'[u].status = "failed" => Report(w) /\ exec[w].raised
    BY <1>14, <2>2
  <2>5. task[u].run # None =>
          /\ task'[u].status = "completed" => run[task[u].run] = task'[u].result
          /\ task'[u].status = "failed" /\ task[u].dir # None => run[task[u].run] \in {"running", "failed"}
    BY <2>r, <2>4 DEF WorkerTells, Report
  <2>6. RowsTell'
    <3>1. ASSUME NEW t \in Task \ {u}, task[t].run # None
          PROVE  /\ task'[t].status = "pending" => run[task[t].run] = "running"
                 /\ task'[t].status = "completed" => run[task[t].run] = task'[t].result
                 /\ task'[t].status = "failed" /\ task[t].type = "knowledge_base_upload" =>
                      run[task[t].run] \in {"running", "failed"}
      BY <1>0, <2>2, <3>1 DEF RowsTell
    <3>2. task[u].type = "knowledge_base_upload" => task[u].dir # None
      BY <1>0 DEF RowsFit
    <3> QED BY <2>2, <2>4, <2>5, <3>1, <3>2 DEF RowsTell
  <2>7. ASSUME NEW x \in Worker \ {w} PROVE WorkerTells(x)'
    <3>1. exec'[x] = exec[x] /\ WorkerTells(x)
      BY <1>0, <1>14 DEF Start, Report, WorkersTell
    <3>2. CASE exec[x].pc \in {"idle", "ack"}
      BY <3>1, <3>2 DEF WorkerTells, UploadPcs
    <3>3. CASE exec[x].pc \notin {"idle", "ack"}
      <4>1. PICK t \in Task : t = exec[x].task
        BY <1>0, <3>3 DEF LinkInv, HoldersHaveTask, WorkerHolds
      <4>2. Row(x) = task[t] /\ Row(x)' = task'[t]
        BY <3>1, <4>1 DEF Row
      <4> QED BY <2>2, <3>1, <4>2 DEF WorkerTells, UploadPcs
    <3> QED BY <3>2, <3>3
  <2>8. WorkerTells(w)'
    <3>1. exec'[w].task = u
      BY <1>0, <1>14, <2>1, CarriesFrame DEF Carries
    <3>2. CASE Report(w)
      <4>1. exec'[w].pc = "ack"
        BY <1>0, <2>r, <3>2 DEF Report, ExecState
      <4> QED BY <4>1 DEF WorkerTells, UploadPcs
    <3>3. CASE Start(w)
      <4>1. exec'[w].pc = FirstStep(task[u].type) /\ Same(w)
        BY <1>0, <2>1, <2>r, <3>3 DEF Start, Row, ExecState, Same
      <4>2. ~ exec[w].raised /\ ~ exec[w].retain
        BY <2>r, <3>3 DEF WorkerTells, Start
      <4>3. Row(w)' = task'[u]
        BY <3>1 DEF Row
      <4>4. CASE task[u].type = "knowledge_base_upload"
        <5>1. task[u].status = "pending"
          BY <1>0, <2>1, <3>3 DEF Start, StatusByPlace, Executing
        <5>2. task[u].run # None
          BY <1>0, <4>4 DEF RowsFit, WithRun
        <5>3. run[task[u].run] = "running"
          BY <1>0, <5>1, <5>2 DEF RowsTell
        <5>4. exec'[w].pc = "ingest"
          BY <4>1, <4>4 DEF FirstStep
        <5> QED BY <2>2, <4>1, <4>2, <4>3, <5>3, <5>4 DEF WorkerTells, Same
      <4>5. CASE task[u].type # "knowledge_base_upload"
        <5>1. exec'[w].pc \in {"dag", "source"}
          BY <4>1, <4>5 DEF FirstStep
        <5> QED BY <5>1 DEF WorkerTells, UploadPcs
      <4> QED BY <4>4, <4>5
    <3> QED BY <1>14, <3>2, <3>3
  <2>9. Accounted'
    <3> SUFFICES ASSUME NEW d \in Dir, dir[d] = "present"
                 PROVE  \/ \E r \in Req : req[r].dir = d
                        \/ \E t \in Task : task[t].dir = d /\ (Terminal(t)' => run[task[t].run] # "completed")
      BY <2>2 DEF Accounted
    <3>1. ASSUME NEW t \in Task, task[t].dir = d, Terminal(t) => run[task[t].run] # "completed"
          PROVE  Terminal(t)' => run[task[t].run] # "completed"
      <4>1. CASE t = u
        <5>1. Terminal(u)' => Report(w)
          BY <2>4 DEF Terminal
        <5>2. Report(w) => run[task[u].run] # "completed"
          BY <2>r, <3>1, <4>1, Nones DEF WorkerTells, Report
        <5> QED BY <4>1, <5>1, <5>2
      <4>2. CASE t # u
        BY <2>2, <3>1, <4>2 DEF Terminal
      <4> QED BY <4>1, <4>2
    <3> QED BY <3>1 DEF Accounted
  <2> QED BY <2>3, <2>6, <2>7, <2>8, <2>9 DEF Story, Tells, WorkersTell
<1>15. ASSUME UNCHANGED vars PROVE Story
  <2>1. UNCHANGED <<task, run, dir, req, exec>>
    BY <1>15 DEF vars
  <2>2. Tells'
    BY <2>1, RequestTells
  <2>3. Accounted'
    BY <2>1 DEF Accounted, Terminal
  <2> QED BY <2>2, <2>3 DEF Story
<1>16. Story
  BY <1>1, <1>2, <1>3, <1>4, <1>5, <1>6, <1>7, <1>8, <1>9, <1>f, <1>11, <1>12, <1>13, <1>14,
     <1>15
  DEF Next, RequestStep, WorkerStep, Middle, Quiescent
<1> QED BY <1>16 DEF Story

-----------------------------------------------------------------------------
(* Runs without a task, against the retries that were lost.                *)

\* Requests on their way to insert a retry that has already been inserted.
Losers == {q \in Req : Preparer(q) /\ req[q].target # None /\ task[req[q].target].next # None}

\* Each retry lost leaves one run, and each process loses at most one per task.
OrphanBound ==
  Cardinality(Orphans) + Cardinality(Losers) <= (Cardinality(ApiProcs) - 1) * Cardinality(Retried)

\* The sets that are counted are finite.
LEMMA Finite ==
  /\ IsFiniteSet(Orphans) /\ IsFiniteSet(Losers) /\ IsFiniteSet(Retried) /\ IsFiniteSet(ApiProcs)
  /\ IsFiniteSet(Orphans') /\ IsFiniteSet(Losers') /\ IsFiniteSet(Retried')
<1>1. /\ Orphans \subseteq Run /\ Losers \subseteq Req /\ Retried \subseteq Task
      /\ Orphans' \subseteq Run /\ Losers' \subseteq Req /\ Retried' \subseteq Task
  BY DEF Orphans, Losers, Retried
<1>2. IsFiniteSet(ApiProcs)
  <2> DEFINE f == [q \in Req |-> ProcOf[q]]
  <2>1. f \in [Req -> ApiProcs] /\ \A p \in ApiProcs : \E q \in Req : f[q] = p
    BY DEF ApiProcs
  <2>2. f \in Surjection(Req, ApiProcs)
    BY <2>1, Fun_IsSurj
  <2> QED BY <2>2, FiniteAssumption, FS_Surjection
<1> QED BY <1>1, <1>2, FiniteAssumption, FS_Subset

\* A step by which neither count grows keeps the bound.
LEMMA BoundKept ==
  ASSUME OrphanBound, Orphans' \subseteq Orphans, Losers' \subseteq Losers, Retried' = Retried
  PROVE  OrphanBound'
<1>1. Cardinality(Orphans') <= Cardinality(Orphans) /\ Cardinality(Losers') <= Cardinality(Losers)
  BY Finite, FS_Subset
<1>2. /\ Cardinality(Orphans) \in Nat /\ Cardinality(Losers) \in Nat /\ Cardinality(Retried) \in Nat
      /\ Cardinality(Orphans') \in Nat /\ Cardinality(Losers') \in Nat /\ Cardinality(ApiProcs) \in Nat
  BY Finite, FS_CardinalityType
<1> DEFINE m == (Cardinality(ApiProcs) - 1) * Cardinality(Retried)
<1>3. m \in Int
  BY <1>2
<1>4. Cardinality(Orphans) + Cardinality(Losers) <= m
  BY DEF OrphanBound
<1> HIDE DEF m
<1>5. Cardinality(Orphans') + Cardinality(Losers') <= m
  BY <1>1, <1>2, <1>3, <1>4
<1> QED BY <1>5 DEF OrphanBound, m, ApiProcs

\* A retry that is refused leaves the run it prepared, and is a loser no more.
LEMMA RejectedBound ==
  ASSUME PoolInv, OrphanBound, NEW q \in Req, RetryRejected(q)
  PROVE  OrphanBound'
<1>0. /\ LinkInv /\ RequestsFit /\ req \in [Req -> ReqState] /\ NoReq.pc = "idle" /\ NoReq.target = None
  BY DEF PoolInv, LinkInv, TypeOK, NoReq
<1>1. /\ req[q].pc = "enqueue" /\ req[q].target # None /\ UNCHANGED <<task, run>>
      /\ \A r \in Req : req'[r] = IF r = q THEN NoReq ELSE req[r]
      /\ ~ Linkable(req[q].target)
  BY <1>0 DEF RetryRejected
<1>2. q \in Losers
  <2>1. PICK t \in Task : t = req[q].target
    BY <1>0, <1>1 DEF ReqState
  <2>2. task[t].next # None
    BY <1>0, <1>1, <2>1, Nones DEF Linkable, EdgeFree, LinkInv, LinearHistory
  <2> QED BY <1>1, <2>1, <2>2 DEF Losers, Preparer
<1>3. Losers' \subseteq Losers \ {q}
  BY <1>0, <1>1 DEF Losers, Preparer
<1>4. Orphans' \subseteq Orphans \cup {req[q].run}
  BY <1>1 DEF Orphans
<1>5. /\ Cardinality(Losers') <= Cardinality(Losers) - 1
      /\ Cardinality(Orphans') <= Cardinality(Orphans) + 1
  <2>1. IsFiniteSet(Losers \ {q}) /\ Cardinality(Losers \ {q}) = Cardinality(Losers) - 1
    BY <1>2, Finite, FS_RemoveElement
  <2>2. Cardinality(Losers') <= Cardinality(Losers \ {q})
    BY <1>3, <2>1, FS_Subset
  <2>3. /\ IsFiniteSet(Orphans \cup {req[q].run})
        /\ Cardinality(Orphans \cup {req[q].run}) <= Cardinality(Orphans) + 1
    <3>1. Cardinality(Orphans) \in Nat
      BY Finite, FS_CardinalityType
    <3> DEFINE r == req[q].run
    <3>2. /\ IsFiniteSet(Orphans \cup {r})
          /\ Cardinality(Orphans \cup {r})
               = IF r \in Orphans THEN Cardinality(Orphans) ELSE Cardinality(Orphans) + 1
      <4> HIDE DEF r
      <4> QED BY Finite, FS_AddElement
    <3> QED BY <3>1, <3>2
  <2>4. Cardinality(Orphans') <= Cardinality(Orphans \cup {req[q].run})
    BY <1>4, <2>3, FS_Subset
  <2>5. Cardinality(Orphans \cup {req[q].run}) \in Nat /\ Cardinality(Orphans') \in Nat
        /\ Cardinality(Orphans) \in Nat
    BY <2>3, Finite, FS_CardinalityType
  <2> QED BY <2>1, <2>2, <2>3, <2>4, <2>5
<1>6. /\ Cardinality(Orphans) \in Nat /\ Cardinality(Losers) \in Nat /\ Cardinality(Retried) \in Nat
      /\ Cardinality(Orphans') \in Nat /\ Cardinality(Losers') \in Nat /\ Cardinality(ApiProcs) \in Nat
  BY Finite, FS_CardinalityType
<1> DEFINE m == (Cardinality(ApiProcs) - 1) * Cardinality(Retried)
<1>7. m \in Int
  BY <1>6
<1>8. Cardinality(Orphans) + Cardinality(Losers) <= m
  BY DEF OrphanBound
<1> HIDE DEF m
<1>9. Cardinality(Orphans') + Cardinality(Losers') <= m
  BY <1>5, <1>6, <1>7, <1>8
<1>10. Retried' = Retried
  BY <1>1 DEF Retried
<1> QED BY <1>9, <1>10 DEF OrphanBound, m, ApiProcs

\* A retry that is inserted makes losers of the requests that prepare another
\* retry of the same task: one per other process, as each process has one lock.
LEMMA RetryBound ==
  ASSUME PoolInv, OrphanBound, NEW q \in Req, EnqueueRetry(q)
  PROVE  OrphanBound'
<1>0. /\ LinkInv /\ RequestsFit /\ RowsFit /\ req \in [Req -> ReqState] /\ task \in [Task -> TaskRow]
  BY DEF PoolInv, LinkInv, TypeOK
<1>1. PICK u \in Task :
        /\ task[u].status = "absent" /\ task'[u] = NewRow(q)
        /\ \A t \in Task \ {u} : task'[t] = [task[t] EXCEPT !.next = task'[t].next]
        /\ \A t \in Task \ {u} : task'[t].next = IF t = req[q].target THEN u ELSE task[t].next
        /\ req' = [req EXCEPT ![q] = [@ EXCEPT !.pc = "submit", !.task = u]]
        /\ UNCHANGED <<run, dir, queue, exec, faults>>
  BY <1>0, Inserts
<1>2. PICK t \in Task : t = req[q].target
  BY <1>0 DEF EnqueueRetry, ReqState
<1>3. /\ req[q].pc = "enqueue" /\ task[t].next = None /\ task[t].status # "absent"
      /\ task[u].next = None /\ task'[u].next = None /\ task'[u].run = req[q].run
      /\ task[u].run = None
  BY <1>0, <1>1, <1>2 DEF EnqueueRetry, Linkable, LinkInv, TargetExists, AbsentIsBlank, NoTask, NewRow
<1>4. \A x \in Task \ {u} : task'[x].run = task[x].run
  <2> SUFFICES ASSUME NEW x \in Task \ {u} PROVE task'[x].run = task[x].run
    OBVIOUS
  <2> DEFINE y == task[x]  n == task'[x].next
  <2>1. task'[x] = [y EXCEPT !.next = n] /\ y \in TaskRow
    BY <1>0, <1>1
  <2> HIDE DEF n
  <2> QED BY <2>1 DEF TaskRow
<1>5. /\ req'[q].pc = "submit" /\ req'[q].run = req[q].run
      /\ \A r \in Req \ {q} : req'[r] = req[r]
  BY <1>0, <1>1 DEF ReqState
<1>6. Retried' = Retried \cup {t} /\ t \notin Retried
  BY <1>1, <1>2, <1>3, Nones DEF Retried
<1>7. Orphans' \subseteq Orphans
  BY <1>1, <1>3, <1>4, <1>5, Nones DEF Orphans
<1> DEFINE New == {r \in Req \ {q} : Preparer(r) /\ req[r].target = t}
<1>8. Losers' \subseteq Losers \cup New
  <2> SUFFICES ASSUME NEW r \in Losers' PROVE r \in Losers \cup New
    OBVIOUS
  <2>1. /\ r \in Req \ {q} /\ Preparer(r) /\ req[r].target # None
        /\ task'[req[r].target].next # None
    BY <1>5 DEF Losers, Preparer
  <2>2. PICK x \in Task : x = req[r].target
    BY <1>0, <2>1 DEF ReqState
  <2>3. x # u
    BY <1>3, <2>1, <2>2
  <2>4. task'[x].next = IF x = t THEN u ELSE task[x].next
    BY <1>1, <1>2, <2>3
  <2> QED BY <2>1, <2>2, <2>4 DEF Losers
<1>9. IsFiniteSet(New) /\ Cardinality(New) <= Cardinality(ApiProcs) - 1
  <2> DEFINE Others == ApiProcs \ {ProcOf[q]}
             f == [r \in New |-> ProcOf[r]]
  <2>1. IsFiniteSet(Others) /\ Cardinality(Others) = Cardinality(ApiProcs) - 1
    <3>1. ProcOf[q] \in ApiProcs
      BY DEF ApiProcs
    <3> QED BY <3>1, Finite, FS_RemoveElement
  <2>2. \A r \in New : ProcOf[r] \in Others
    <3> SUFFICES ASSUME NEW r \in New PROVE ProcOf[r] # ProcOf[q]
      BY DEF ApiProcs
    <3> QED BY <1>0, <1>2, Nones DEF RequestsFit
  <2>3. ASSUME NEW a \in New, NEW b \in New, ProcOf[a] = ProcOf[b] PROVE a = b
    BY <1>0, <2>3, Nones DEF RequestsFit
  <2>4. f \in [New -> Others] /\ \A a, b \in New : f[a] = f[b] => a = b
    BY <2>2, <2>3
  <2> HIDE DEF f, New, Others
  <2>5. f \in Injection(New, Others)
    BY <2>4, Fun_IsInj
  <2> QED BY <2>1, <2>5, FS_Injection
<1> HIDE DEF New
<1>10. /\ Cardinality(Orphans) \in Nat /\ Cardinality(Losers) \in Nat /\ Cardinality(Retried) \in Nat
       /\ Cardinality(Orphans') \in Nat /\ Cardinality(Losers') \in Nat
       /\ Cardinality(ApiProcs) \in Nat /\ Cardinality(New) \in Nat
  BY <1>9, Finite, FS_CardinalityType
<1>11. Cardinality(Retried') = Cardinality(Retried) + 1
  BY <1>6, Finite, FS_AddElement
<1>12. Cardinality(Orphans') <= Cardinality(Orphans)
  BY <1>7, Finite, FS_Subset
<1>13. Cardinality(Losers') <= Cardinality(Losers) + Cardinality(New)
  <2>1. /\ IsFiniteSet(Losers \cup New)
        /\ Cardinality(Losers \cup New)
             = Cardinality(Losers) + Cardinality(New) - Cardinality(Losers \cap New)
    BY <1>9, Finite, FS_Union
  <2>2. Cardinality(Losers') <= Cardinality(Losers \cup New)
    BY <1>8, <2>1, FS_Subset
  <2>3. Cardinality(Losers \cap New) \in Nat
    <3>1. IsFiniteSet(Losers \cap New)
      BY Finite, FS_Intersection
    <3> QED BY <3>1, FS_CardinalityType
  <2>4. Cardinality(Losers \cup New) \in Nat
    BY <2>1, FS_CardinalityType
  <2> QED BY <1>10, <2>1, <2>2, <2>3, <2>4
<1> DEFINE a == Cardinality(ApiProcs) - 1
           m == a * Cardinality(Retried)
<1>14. m \in Int /\ a * (Cardinality(Retried) + 1) = m + a
  BY <1>10
<1>15. Cardinality(Orphans) + Cardinality(Losers) <= m
  BY DEF OrphanBound
<1>16. a \in Int /\ Cardinality(New) <= a
  BY <1>9, <1>10
<1> HIDE DEF m, a
<1>17. Cardinality(Orphans') + Cardinality(Losers') <= m + a
  BY <1>10, <1>12, <1>13, <1>14, <1>15, <1>16
<1>18. Cardinality(Orphans') + Cardinality(Losers') <= a * Cardinality(Retried')
  BY <1>11, <1>14, <1>17
<1> QED BY <1>18 DEF OrphanBound, a, ApiProcs

\* Every other step leaves the two counts alone.
LEMMA CountsKept ==
  ASSUME PoolInv, OrphanBound,
         \A t \in Task : task'[t].run = task[t].run /\ task'[t].next = task[t].next,
         \A r \in Run : run'[r] # "absent" =>
           run[r] # "absent" \/ (\E q \in Req : req'[q].run = r) \/ (\E t \in Task : task[t].run = r),
         \A q \in Req : req'[q].run = req[q].run \/ req[q].run = None
                          \/ (\E t \in Task : task[t].run = req[q].run),
         \A q \in Req : Preparer(q)' /\ req'[q].target # None =>
           (Preparer(q) /\ req'[q].target = req[q].target) \/ task[req'[q].target].next = None,
         \A q \in Req : req'[q].target \in Task \cup {None}
  PROVE  OrphanBound'
<1>1. Orphans' \subseteq Orphans
  <2> SUFFICES ASSUME NEW r \in Orphans' PROVE r \in Orphans
    OBVIOUS
  <2>1. /\ r \in Run /\ run'[r] # "absent"
        /\ \A t \in Task : task[t].run # r
        /\ \A q \in Req : req'[q].run # r
    BY DEF Orphans
  <2>2. \A q \in Req : req[q].run # r
    BY <2>1, Nones
  <2> QED BY <2>1, <2>2 DEF Orphans
<1>2. Losers' \subseteq Losers
  <2> SUFFICES ASSUME NEW q \in Losers' PROVE q \in Losers
    OBVIOUS
  <2>1. q \in Req /\ Preparer(q)' /\ req'[q].target # None /\ task'[req'[q].target].next # None
    BY DEF Losers
  <2>2. task[req'[q].target].next # None
    BY <2>1
  <2> QED BY <2>1, <2>2 DEF Losers
<1>3. Retried' = Retried
  BY DEF Retried
<1> QED BY <1>1, <1>2, <1>3, BoundKept

\* An insert takes its run off the count.
LEMMA EnqueueBound ==
  ASSUME PoolInv, OrphanBound, NEW q \in Req, Enqueue(q)
  PROVE  OrphanBound'
<1>0. LinkInv /\ req \in [Req -> ReqState] /\ task \in [Task -> TaskRow]
  BY DEF PoolInv, LinkInv, TypeOK
<1>1. PICK u \in Task :
        /\ task' = [task EXCEPT ![u] = NewRow(q)] /\ task[u].status = "absent"
        /\ req' = [req EXCEPT ![q] = [@ EXCEPT !.pc = "submit", !.task = u]]
  BY DEF Enqueue, Absent
<1>2. /\ task'[u].run = req[q].run /\ task'[u].next = None
      /\ task[u].run = None /\ task[u].next = None
      /\ \A t \in Task \ {u} : task'[t] = task[t]
  BY <1>0, <1>1 DEF NewRow, LinkInv, AbsentIsBlank, NoTask
<1>3. /\ req'[q].pc = "submit" /\ req'[q].run = req[q].run
      /\ \A r \in Req \ {q} : req'[r] = req[r]
      /\ UNCHANGED run
  BY <1>0, <1>1 DEF Enqueue, ReqState
<1>4. Retried' = Retried
  BY <1>2 DEF Retried
<1>5. Orphans' \subseteq Orphans
  BY <1>2, <1>3, Nones DEF Orphans
<1>6. Losers' \subseteq Losers
  <2> SUFFICES ASSUME NEW r \in Losers' PROVE r \in Losers
    OBVIOUS
  <2>1. /\ r \in Req \ {q} /\ Preparer(r) /\ req[r].target # None
        /\ task'[req[r].target].next # None
    BY <1>3 DEF Losers, Preparer
  <2>2. req[r].target \in Task
    BY <1>0, <2>1 DEF ReqState
  <2> QED BY <1>2, <2>1, <2>2 DEF Losers
<1> QED BY <1>4, <1>5, <1>6, BoundKept

\* A step in which nothing fails keeps the bound.
LEMMA OrphansNext ==
  ASSUME PoolInv, ~ Durable, OrphanBound, [Next]_vars, faults' = faults
  PROVE  OrphanBound'
<1>0. /\ LinkInv /\ TypeOK /\ RowsFit /\ RequestsFit /\ RunsOwned /\ WorkersFit
      /\ req \in [Req -> ReqState] /\ task \in [Task -> TaskRow] /\ run \in [Run -> RunStatus]
      /\ faults \in Nat
  BY DEF PoolInv, LinkInv, TypeOK
<1>t. /\ \A q \in Req : req[q].target \in Task \cup {None}
      /\ \A q \in Req : req'[q].target \in Task \cup {None}
  <2>1. TypeOK'
    BY PoolNext DEF PoolInv, LinkInv
  <2> QED BY <1>0, <2>1 DEF TypeOK, ReqState
<1>b. ASSUME NEW q \in Req, NEW v, req[q].pc = "idle", req' = [req EXCEPT ![q] = v],
             UNCHANGED <<task, run>>, v.target # None => task[v.target].next = None
      PROVE  OrphanBound'
  <2>1. req'[q] = v /\ (\A r \in Req \ {q} : req'[r] = req[r]) /\ req[q].run = None
    BY <1>0, <1>b DEF RequestsFit, NoReq
  <2> QED BY <1>b, <1>t, <2>1, CountsKept DEF Preparer
<1>1. ASSUME NEW q \in Req, Upload(q) PROVE OrphanBound'
  <2>1. PICK d \in Dir : req' = [req EXCEPT ![q] = [NoReq EXCEPT !.pc = "prepare",
                           !.type = "knowledge_base_upload", !.dir = d]]
    BY <1>1 DEF Upload
  <2>2. [NoReq EXCEPT !.pc = "prepare", !.type = "knowledge_base_upload",
                      !.dir = d].target = None
    BY DEF NoReq
  <2> QED BY <1>1, <1>b, <2>1, <2>2 DEF Upload
<1>2. ASSUME NEW q \in Req, IngestionDag(q) PROVE OrphanBound'
  <2>1. [NoReq EXCEPT !.pc = "prepare", !.type = "pipeline_dag_ingestion"].target = None
    BY DEF NoReq
  <2> QED BY <1>2, <1>b, <2>1 DEF IngestionDag
<1>3. ASSUME NEW q \in Req, SourceIngest(q) PROVE OrphanBound'
  <2>1. [NoReq EXCEPT !.pc = "enqueue", !.type = "source_ingest"].target = None
    BY DEF NoReq
  <2> QED BY <1>3, <1>b, <2>1 DEF SourceIngest
<1>4. ASSUME NEW q \in Req, NEW t \in Task, Retry(q, t) PROVE OrphanBound'
  <2>1. [NoReq EXCEPT !.pc = "prepare", !.type = task[t].type, !.target = t,
                      !.attempts = task[t].attempts, !.dir = task[t].dir].target = t
    BY DEF NoReq
  <2>2. task[t].next = None
    BY <1>4 DEF Retry, IsRetryable
  <2> QED BY <1>4, <1>b, <2>1, <2>2 DEF Retry
<1>5. ASSUME NEW q \in Req, CreateRun(q) PROVE OrphanBound'
  <2>1. PICK r \in Run :
          /\ run' = [run EXCEPT ![r] = "running"]
          /\ req' = [req EXCEPT ![q] = [@ EXCEPT !.pc = "enqueue", !.run = r]]
    BY <1>5 DEF CreateRun
  <2>2. /\ req[q].pc = "prepare" /\ UNCHANGED task /\ req[q].run = None
        /\ req'[q].run = r /\ req'[q].target = req[q].target
        /\ \A s \in Req \ {q} : req'[s] = req[s]
        /\ \A x \in Run \ {r} : run'[x] = run[x]
    BY <1>0, <1>5, <2>1 DEF CreateRun, ReqState, RequestsFit
  <2>3. \A s \in Req : Preparer(s)' => Preparer(s) /\ req'[s].target = req[s].target
    BY <2>2 DEF Preparer
  <2>4. \A s \in Req : req'[s].run = req[s].run \/ req[s].run = None
    BY <2>2
  <2>5. \A x \in Run : run'[x] # "absent" => run[x] # "absent" \/ req'[q].run = x
    BY <2>2
  <2> QED BY <1>t, <2>2, <2>3, <2>4, <2>5, CountsKept
<1>6. ASSUME NEW q \in Req, Submit(q) PROVE OrphanBound'
  <2>1. /\ UNCHANGED <<task, run>> /\ NoReq.pc = "idle"
        /\ \A r \in Req : req'[r] = IF r = q THEN NoReq ELSE req[r]
    BY <1>0, <1>6 DEF Submit, NoReq
  <2>2. req[q].task \in Task /\ task[req[q].task].run = req[q].run
    BY <1>0, <1>6 DEF Submit, RequestsFit, LinkInv, HoldersHaveTask, RequestHolds
  <2> QED BY <1>t, <2>1, <2>2, CountsKept DEF Preparer
<1>7. \A q \in Req : ~ SubmitRaises(q)
  BY DEF SubmitRaises, Submittable
<1>f. /\ \A q \in Req : ~ RequestFails(q)
      /\ \A w \in Worker : ~ JobFails(w) /\ ~ Requeue(w)
      /\ \A p \in Proc : ~ Crash(p)
  BY <1>0 DEF RequestFails, JobFails, Requeue, Crash
<1>w. ASSUME UNCHANGED req,
             \A t \in Task : task'[t].run = task[t].run /\ task'[t].next = task[t].next,
             \A r \in Run : run'[r] = run[r] \/ (\E t \in Task : task[t].run = r)
      PROVE  OrphanBound'
  <2>1. \A q \in Req : req'[q] = req[q] /\ (Preparer(q)' <=> Preparer(q))
    BY <1>w DEF Preparer
  <2> QED BY <1>t, <1>w, <2>1, CountsKept
<1>8. ASSUME NEW w \in Worker, Take(w) \/ Ack(w) PROVE OrphanBound'
  BY <1>8, <1>w DEF Take, Ack
<1>9. ASSUME NEW w \in Worker, Start(w) \/ Report(w) PROVE OrphanBound'
  <2>1. PICK u \in Task : u = exec[w].task
    BY <1>0, <1>9 DEF Start, Report, LinkInv, HoldersHaveTask, WorkerHolds
  <2>2. /\ \A t \in Task : task'[t].run = task[t].run /\ task'[t].next = task[t].next
        /\ UNCHANGED <<run, req>>
    BY <1>0, <1>9, <2>1, StatusWrites
  <2> QED BY <1>w, <2>2
<1>10. ASSUME NEW w \in Worker, Middle(w) PROVE OrphanBound'
  <2>1. Working(w) /\ UNCHANGED <<task, req>>
    BY <1>0, <1>10, MiddleFrame
  <2>2. PICK u \in Task : u = exec[w].task
    BY <1>0, <2>1 DEF Working, LinkInv, HoldersHaveTask, WorkerHolds
  <2>3. UNCHANGED run \/ \E s : run' = [run EXCEPT ![task[u].run] = s]
    BY <1>0, <1>10, <2>2, MiddleEffect DEF Effect, Sets, Row
  <2>4. \A r \in Run : run'[r] = run[r] \/ task[u].run = r
    BY <1>0, <2>3
  <2> QED BY <1>w, <2>1, <2>4
<1>11. ASSUME UNCHANGED vars PROVE OrphanBound'
  BY <1>11, <1>w DEF vars
<1> QED
  BY <1>1, <1>2, <1>3, <1>4, <1>5, <1>6, <1>7, <1>f, <1>8, <1>9, <1>10, <1>11,
     EnqueueBound, RetryBound, RejectedBound
  DEF Next, RequestStep, WorkerStep, Middle, Quiescent

-----------------------------------------------------------------------------
(* The theorems.                                                           *)

\* What holds as long as nothing has failed.
Story == faults = 0 => Tells /\ Accounted /\ OrphanBound

\* Every step keeps the story; one that fails ends it.
LEMMA StoryNext ==
  ASSUME PoolInv, ~ Durable, Story, [Next]_vars
  PROVE  Story'
<1> SUFFICES ASSUME faults' = 0 PROVE Tells' /\ Accounted' /\ OrphanBound'
  BY DEF Story
<1>1. faults \in Nat
  BY DEF PoolInv, LinkInv, TypeOK
<1>2. faults' = faults \/ faults' = faults + 1
  <2>1. ASSUME NEW q \in Req,
               \/ Upload(q) \/ IngestionDag(q) \/ SourceIngest(q) \/ RequestStep(q)
               \/ \E t \in Task : Retry(q, t)
        PROVE  faults' = faults
    BY <2>1 DEF Upload, IngestionDag, SourceIngest, Retry, RequestStep, CreateRun, Enqueue,
       EnqueueRetry, RetryRejected, Submit, SubmitRaises
  <2>2. ASSUME NEW w \in Worker, WorkerStep(w) PROVE faults' = faults
    BY <2>2 DEF WorkerStep, Take, Start, Ingest, LockIndex, Index, MarkRunFailed, Cleanup,
       BeginDag, EndDag, EndSource, Report, Ack
  <2>3. /\ \A q \in Req : RequestFails(q) => faults' = faults + 1
        /\ \A w \in Worker : JobFails(w) \/ Requeue(w) => faults' = faults + 1
        /\ \A p \in Proc : Crash(p) => faults' = faults + 1
    BY DEF RequestFails, JobFails, Requeue, Crash
  <2>4. UNCHANGED vars => faults' = faults
    BY DEF vars
  <2> QED BY <2>1, <2>2, <2>3, <2>4 DEF Next, Quiescent
<1>3. faults = 0 /\ faults' = faults
  BY <1>1, <1>2
<1> QED BY <1>3, TellsNext, OrphansNext DEF Story

\* The initial state satisfies it.
LEMMA StoryInit == Init => Story
<1> SUFFICES ASSUME Init PROVE Tells /\ Accounted /\ OrphanBound
  BY DEF Story
<1>1. /\ \A t \in Task : task[t] = NoTask
      /\ \A r \in Run : run[r] = "absent"
      /\ \A d \in Dir : dir[d] = "unused"
      /\ \A q \in Req : req[q] = NoReq
      /\ \A w \in Worker : exec[w] = NoExec
  BY DEF Init
<1>2. Tells /\ Accounted
  BY <1>1 DEF Tells, RequestsTell, RowsTell, WorkersTell, WorkerTells, Accounted, NoTask, NoReq,
     NoExec, UploadPcs
<1>3. Orphans = {} /\ Losers = {} /\ Retried = {}
  BY <1>1 DEF Orphans, Losers, Retried, NoTask, NoReq
<1>4. Cardinality({}) = 0 /\ Cardinality(ApiProcs) \in Nat
  BY Finite, FS_EmptySet, FS_CardinalityType
<1> DEFINE a == Cardinality(ApiProcs) - 1
<1>5. a \in Int /\ a * 0 = 0
  BY <1>4
<1> HIDE DEF a
<1>6. Cardinality(Orphans) + Cardinality(Losers) <= a * Cardinality(Retried)
  BY <1>3, <1>4, <1>5
<1> QED BY <1>2, <1>6 DEF OrphanBound, a

\* So both invariants always hold.
LEMMA StoryInvariant == ASSUME ~ Durable PROVE Spec => [](PoolInv /\ Story)
<1>1. PoolInv /\ Story /\ [Next]_vars => PoolInv' /\ Story'
  BY PoolNext, StoryNext
<1> QED BY <1>1, PoolInit, StoryInit, PTL DEF Spec

\* The pool runs a task at most once, for any number of threads and crashes.
THEOREM DeliveredOnce == ASSUME ~ Durable PROVE Spec => []SingleDelivery
<1>1. PoolInv => SingleDelivery
  BY DEF PoolInv, Placed
<1> QED BY <1>1, PoolInvariant, PTL

\* In the pool a finished task and its run tell the same story, and the runs
\* without a task are no more than the retries lost between processes.
THEOREM RunsMatchTasks == ASSUME ~ Durable PROVE Spec => []RunMatchesTask
<1>1. PoolInv /\ Story => RunMatchesTask
  <2> SUFFICES ASSUME PoolInv, Story, faults = 0 PROVE
        /\ \A t \in Task :
             /\ task[t].status = "completed" /\ task[t].run # None =>
                  run[task[t].run] = task[t].result
             /\ task[t].status = "failed" /\ task[t].type = "knowledge_base_upload" =>
                  run[task[t].run] \notin {"completed", "completed_with_failures"}
        /\ Cardinality(Orphans) <= (Cardinality(ApiProcs) - 1) * Cardinality(Retried)
    BY DEF RunMatchesTask, NoOrphanRun
  <2>1. RowsTell /\ RowsFit /\ OrphanBound
    BY DEF Story, Tells, PoolInv
  <2>2. /\ Cardinality(Orphans) \in Nat /\ Cardinality(Losers) \in Nat
        /\ Cardinality(Retried) \in Nat /\ Cardinality(ApiProcs) \in Nat
    BY Finite, FS_CardinalityType
  <2> DEFINE m == (Cardinality(ApiProcs) - 1) * Cardinality(Retried)
  <2>3. m \in Int /\ Cardinality(Orphans) + Cardinality(Losers) <= m
    BY <2>1, <2>2 DEF OrphanBound
  <2> HIDE DEF m
  <2>4. Cardinality(Orphans) <= m
    BY <2>2, <2>3
  <2> QED BY <2>1, <2>4 DEF m, RowsTell, RowsFit, WithRun
<1> QED BY <1>1, StoryInvariant, PTL

\* In the pool no upload starts on a directory an earlier attempt removed, and
\* no directory is left without somebody who answers for it.
THEOREM StagingIsAccounted == ASSUME ~ Durable PROVE Spec => []StagingAccounted
<1>1. PoolInv /\ Story => StagingAccounted
  BY DEF PoolInv, WorkersFit, WorkerFits, UploadPcs, Story, Accounted, StagingAccounted
<1> QED BY <1>1, StoryInvariant, PTL

-----------------------------------------------------------------------------
(* The pool implements RetryChain.                                         *)

\* A row that is inserted, linked or finished is a step of RetryChain.
LEMMA ChainStep ==
  ASSUME PoolInv, ~ Durable, [Next]_vars
  PROVE  [Chain!Next]_(Chain!vars)
<1> DEFINE phase == [t \in Task |-> Phase(t)]
           next == [t \in Task |-> task[t].next]
<1>0. /\ LinkInv /\ TypeOK /\ RowsFit /\ RequestsFit /\ StatusByPlace
      /\ req \in [Req -> ReqState] /\ task \in [Task -> TaskRow]
  BY DEF PoolInv, Placed, LinkInv, TypeOK
<1>1. ASSUME UNCHANGED task PROVE UNCHANGED <<phase, next>>
  BY <1>1 DEF Phase
<1>2. ASSUME NEW q \in Req, Enqueue(q) \/ EnqueueRetry(q) PROVE Chain!Next
  <2>1. PICK u \in Task :
          /\ task[u].status = "absent" /\ task'[u] = NewRow(q)
          /\ \A t \in Task \ {u} : task'[t] = [task[t] EXCEPT !.next = task'[t].next]
          /\ \A t \in Task \ {u} : task'[t].next = IF t = req[q].target THEN u ELSE task[t].next
    BY <1>0, <1>2, Inserts
  <2>2. /\ task'[u].status = "pending" /\ task'[u].next = None /\ task[u].next = None
    BY <1>0, <2>1 DEF NewRow, LinkInv, AbsentIsBlank, NoTask
  <2>3. ASSUME NEW t \in Task \ {u} PROVE task'[t].status = task[t].status
    <3> DEFINE x == task[t]  n == task'[t].next
    <3>1. task'[t] = [x EXCEPT !.next = n] /\ x \in TaskRow
      BY <1>0, <2>1
    <3> HIDE DEF n
    <3> QED BY <3>1 DEF TaskRow
  <2>4. phase[u] = "absent" /\ phase' = [phase EXCEPT ![u] = "live"]
    <3>1. Phase(u) = "absent" /\ Phase(u)' = "live"
      BY <2>1, <2>2 DEF Phase
    <3>2. \A t \in Task \ {u} : Phase(t)' = Phase(t)
      BY <2>3 DEF Phase
    <3> QED BY <3>1, <3>2
  <2>5. CASE req[q].target \in Task
    <3>1. PICK t \in Task : t = req[q].target
      BY <2>5
    <3>2. Terminal(t) /\ t # u
      BY <1>0, <2>1, <3>1, Nones DEF RequestsFit, Terminal
    <3>3. task[t].next = None
      BY <1>2, <3>1, Nones DEF Enqueue, EnqueueRetry, Linkable
    <3>4. phase[t] = "done" /\ next[t] = None
      BY <3>2, <3>3 DEF Phase, Terminal
    <3>5. next' = [next EXCEPT ![t] = u]
      BY <2>1, <2>2, <3>1, <3>2
    <3> QED BY <2>4, <3>4, <3>5 DEF Chain!Next, Chain!Retry
  <2>6. CASE req[q].target \notin Task
    <3>1. \A t \in Task : task'[t].next = task[t].next
      BY <2>1, <2>2, <2>6
    <3>2. UNCHANGED next
      BY <3>1
    <3> QED BY <2>4, <3>2 DEF Chain!Next, Chain!Submit
  <2> QED BY <2>5, <2>6
<1>3. ASSUME NEW w \in Worker, Start(w) \/ Report(w)
      PROVE  Chain!Next \/ UNCHANGED <<phase, next>>
  <2>1. PICK u \in Task : u = exec[w].task
    BY <1>0, <1>3 DEF Start, Report, LinkInv, HoldersHaveTask, WorkerHolds
  <2>2. /\ \A t \in Task : task'[t].next = task[t].next
        /\ \A t \in Task \ {u} : task'[t] = task[t]
        /\ Start(w) => task'[u].status = "running"
        /\ Report(w) => task'[u].status = IF exec[w].raised THEN "failed" ELSE "completed"
    BY <1>0, <1>3, <2>1, StatusWrites
  <2>3. UNCHANGED next /\ \A t \in Task \ {u} : Phase(t)' = Phase(t)
    BY <2>2 DEF Phase
  <2>4. CASE Start(w)
    <3>1. task[u].status = "pending"
      BY <1>0, <2>1, <2>4 DEF Start, StatusByPlace, Executing
    <3>2. Phase(u)' = Phase(u)
      BY <2>2, <2>4, <3>1 DEF Phase
    <3> QED BY <2>3, <3>2
  <2>5. CASE Report(w)
    <3>1. task[u].status = "running"
      BY <1>0, <2>1, <2>5 DEF Report, StatusByPlace, Executing
    <3>2. Phase(u) = "live" /\ Phase(u)' = "done"
      BY <2>2, <2>5, <3>1 DEF Phase
    <3>3. phase[u] = "live" /\ phase' = [phase EXCEPT ![u] = "done"]
      BY <2>3, <3>2
    <3> QED BY <2>3, <3>3 DEF Chain!Next, Chain!Finish
  <2> QED BY <1>3, <2>4, <2>5
<1>4. \/ UNCHANGED task
      \/ \E q \in Req : Enqueue(q) \/ EnqueueRetry(q)
      \/ \E w \in Worker : Start(w) \/ Report(w)
  BY TaskWriters
<1> HIDE DEF phase, next
<1>5. Chain!Next \/ UNCHANGED <<phase, next>>
  BY <1>1, <1>2, <1>3, <1>4
<1> QED BY <1>5 DEF Chain!vars, phase, next

\* Every step of the thread pool runtime, failures and crashes included, is a
\* step of RetryChain or none: what it promises its operators is kept.
THEOREM PoolImplementsChain == ASSUME ~ Durable PROVE Spec => ImplementsRetryChain
<1>1. Init => Chain!Init
  BY DEF Init, Chain!Init, Phase, NoTask
<1>2. PoolInv /\ [Next]_vars => [Chain!Next]_(Chain!vars)
  BY ChainStep
<1> QED BY <1>1, <1>2, PoolInvariant, PTL DEF Spec, ImplementsRetryChain, Chain!Spec

=============================================================================
