----------------------------- MODULE TaskQueue -----------------------------
(***************************************************************************)
(* The background task runtime of ragrig: task records, the two executors  *)
(* (in-process thread pool, ARQ worker), operator-triggered retry, the     *)
(* pipeline runs the tasks drive and the staged files an upload leaves on  *)
(* disk.  One action is one database transaction, one file-system effect   *)
(* or one hand-over between a request, the queue and a worker thread, so a *)
(* crash or another actor can fall between any two of them.                *)
(*                                                                         *)
(* Every upload and every indexing run targets one knowledge base: the     *)
(* index lock of run_upload_pipeline then has one instance per process.    *)
(***************************************************************************)
EXTENDS Naturals, FiniteSets

CONSTANTS
  Task,       \* identities of rows of task_records
  Run,        \* identities of rows of pipeline_runs
  Dir,        \* upload staging directories
  Proc,       \* operating-system processes: API servers and ARQ workers
  Req,        \* threads serving HTTP requests
  Worker,     \* threads executing tasks
  ProcOf,     \* the process each request and worker thread lives in
  Durable,    \* TRUE: ARQ and Redis.  FALSE: ThreadPoolTaskExecutor
  Faults,     \* which kinds of fault can happen
  MaxFaults,  \* bound on their number
  None        \* SQL NULL

ASSUME ProcOfAssumption == ProcOf \in [Req \cup Worker -> Proc]
ASSUME DurableAssumption == Durable \in BOOLEAN
ASSUME ProcAssumption == "redis" \notin Proc
ASSUME FaultsAssumption == Faults \subseteq {"request", "database", "crash", "redelivery"}
ASSUME MaxFaultsAssumption == MaxFaults \in Nat
\* A database holds finitely many rows, a server runs finitely many threads.
ASSUME FiniteAssumption == IsFiniteSet(Task) /\ IsFiniteSet(Run) /\ IsFiniteSet(Req)
Types == {"knowledge_base_upload", "pipeline_dag_ingestion", "source_ingest"}
ASSUME NoneAssumption ==
  None \notin Task \cup Run \cup Dir \cup Types \cup {"completed", "completed_with_failures"}

TaskStatus == {"absent", "pending", "running", "completed", "failed"}
RunStatus == {"absent", "running", "completed", "completed_with_failures", "failed"}
Result == {"completed", "completed_with_failures", None}   \* result_json.status

VARIABLES
  task,    \* task_records
  run,     \* pipeline_runs.status
  dir,     \* staging directories: "unused", "present", "removed"
  queue,   \* tasks submitted and not taken: one queue per pool, or one in Redis
  req,     \* request threads
  exec,    \* worker threads
  faults   \* faults so far

vars == <<task, run, dir, queue, req, exec, faults>>

\* The queue a process submits to and takes from.
Queue == Proc \cup {"redis"}
QueueOf(p) == IF Durable THEN "redis" ELSE p

TaskRow == [status: TaskStatus, type: Types \cup {None}, result: Result,
            attempts: Nat, prev: Task \cup {None}, next: Task \cup {None},
            run: Run \cup {None}, dir: Dir \cup {None}]

ReqPc == {"idle", "prepare", "enqueue", "submit"}
ReqState == [pc: ReqPc, type: Types \cup {None}, target: Task \cup {None},
             attempts: Nat, run: Run \cup {None}, dir: Dir \cup {None},
             task: Task \cup {None}]

ExecPc == {"idle", "start", "ingest", "lock", "index", "markfailed", "cleanup",
           "dag", "dagrun", "source", "report", "ack"}
ExecState == [pc: ExecPc, task: Task \cup {None}, retain: BOOLEAN,
              raised: BOOLEAN, result: Result]

NoTask == [status |-> "absent", type |-> None, result |-> None, attempts |-> 0,
           prev |-> None, next |-> None, run |-> None, dir |-> None]
NoReq == [pc |-> "idle", type |-> None, target |-> None, attempts |-> 0,
          run |-> None, dir |-> None, task |-> None]
NoExec == [pc |-> "idle", task |-> None, retain |-> FALSE, raised |-> FALSE,
           result |-> None]

Init ==
  /\ task = [t \in Task |-> NoTask]
  /\ run = [r \in Run |-> "absent"]
  /\ dir = [d \in Dir |-> "unused"]
  /\ queue = [c \in Queue |-> {}]
  /\ req = [q \in Req |-> NoReq]
  /\ exec = [w \in Worker |-> NoExec]
  /\ faults = 0

-----------------------------------------------------------------------------
(* Plausible slips in the definitions below, used to see that the          *)
(* properties notice them; no specification refers to one.                 *)

StagedFilesAssumed(t) == task[t].dir # None
RetryLockFreeNoLock(p, t) == TRUE
LinkableAlways(t) == TRUE
DequeuedTwice(c, t) ==
  IF task[t].status = "pending" THEN queue ELSE [queue EXCEPT ![c] = @ \ {t}]
RaiseUncaught(w, pc) == exec' = [exec EXCEPT ![w] = NoExec]
FailedStatusKept(r) == run[r]
CleanupAfterReport(w) ==
  /\ \/ /\ exec[w].pc = "cleanup"
        /\ exec' = [exec EXCEPT ![w].pc = "report"]
        /\ UNCHANGED dir
     \/ /\ exec[w].pc = "ack"
        /\ task[exec[w].task].dir # None
        /\ ~ exec[w].retain
        /\ dir' = [dir EXCEPT ![task[exec[w].task].dir] = "removed"]
        /\ UNCHANGED exec
  /\ UNCHANGED <<task, run, queue, req, faults>>

-----------------------------------------------------------------------------
(* What the code reads before it decides.                                  *)

\* Path(staged["path"]).exists() for every staged file of the payload: the
\* files of one upload share a directory that is only ever removed as a whole.
StagedFilesAvailable(t) == task[t].dir # None /\ dir[task[t].dir] = "present"

\* is_task_retryable: no successor, and a failure the type can recover from.
IsRetryable(t) ==
  /\ task[t].next = None
  /\ \/ /\ task[t].type = "pipeline_dag_ingestion"
        /\ task[t].status \in {"completed", "failed"}
        /\ task[t].result = "completed_with_failures"
     \/ /\ task[t].type = "knowledge_base_upload"
        /\ task[t].status = "failed"
        /\ StagedFilesAvailable(t)

\* The per-task retry lock of a process is held from the check to the return.
RetryLockFree(p, t) ==
  \A q \in Req : ProcOf[q] = p => req[q].target # t

\* uq_task_records_previous_task_id and uq_task_records_retry_idempotency_key:
\* the retry edge of a task can be inserted once, whichever process does it.
EdgeFree(t) == \A u \in Task : task[u].prev # t

\* _link_previous runs in the transaction of the insert.
Linkable(t) == EdgeFree(t) /\ task[t].next = None

\* knowledge_base_index_lock is process-local.
IndexLockFree(p) ==
  \A w \in Worker : ProcOf[w] = p => exec[w].pc # "index"

Absent == {t \in Task : task[t].status = "absent"}
ReqsAt(pcs) == {q \in Req : req[q].pc \in pcs}

\* Bounds the model: a request starts only if the rows it will insert fit.  Of
\* several retries of one task only one inserts a row.
Preparing == ReqsAt({"prepare", "enqueue"})
RunRoom == Cardinality(ReqsAt({"prepare"})) < Cardinality({r \in Run : run[r] = "absent"})
RowRoom ==
  Cardinality({q \in Preparing : req[q].target = None})
    + Cardinality({req[q].target : q \in Preparing} \ {None}) < Cardinality(Absent)
Room == RunRoom /\ RowRoom
RetryRoom(t) == RunRoom /\ (RowRoom \/ \E q \in Preparing : req[q].target = t)

-----------------------------------------------------------------------------
(* HTTP requests.                                                          *)

\* POST /knowledge-bases/{kb}/upload: validate the files and stage them.
Upload(q) ==
  /\ req[q].pc = "idle"
  /\ Room
  /\ \E d \in Dir :
       /\ dir[d] = "unused"
       /\ dir' = [dir EXCEPT ![d] = "present"]
       /\ req' = [req EXCEPT ![q] = [NoReq EXCEPT !.pc = "prepare",
                    !.type = "knowledge_base_upload", !.dir = d]]
  /\ UNCHANGED <<task, run, queue, exec, faults>>

\* POST /pipeline-dags/ingestion
IngestionDag(q) ==
  /\ req[q].pc = "idle"
  /\ Room
  /\ req' = [req EXCEPT ![q] = [NoReq EXCEPT !.pc = "prepare",
               !.type = "pipeline_dag_ingestion"]]
  /\ UNCHANGED <<task, run, dir, queue, exec, faults>>

\* POST /sources/run-ingest: a task without a pipeline run of its own.
SourceIngest(q) ==
  /\ req[q].pc = "idle"
  /\ Room
  /\ req' = [req EXCEPT ![q] = [NoReq EXCEPT !.pc = "enqueue",
               !.type = "source_ingest"]]
  /\ UNCHANGED <<task, run, dir, queue, exec, faults>>

\* retry_task, first session: take the task's lock, check, copy what the new
\* task inherits.  A task that is not retryable ends the request: no step.
Retry(q, t) ==
  /\ req[q].pc = "idle"
  /\ RetryRoom(t)
  /\ RetryLockFree(ProcOf[q], t)
  /\ IsRetryable(t)
  /\ req' = [req EXCEPT ![q] = [NoReq EXCEPT !.pc = "prepare",
               !.type = task[t].type, !.target = t,
               !.attempts = task[t].attempts, !.dir = task[t].dir]]
  /\ UNCHANGED <<task, run, dir, queue, exec, faults>>

\* create_upload_pipeline_run / create_ingestion_dag_run: the run is committed
\* as "running" before the task that will execute it exists.
CreateRun(q) ==
  /\ req[q].pc = "prepare"
  /\ \E r \in Run :
       /\ run[r] = "absent"
       /\ run' = [run EXCEPT ![r] = "running"]
       /\ req' = [req EXCEPT ![q] = [@ EXCEPT !.pc = "enqueue", !.run = r]]
  /\ UNCHANGED <<task, dir, queue, exec, faults>>

\* The row enqueue_task inserts for a request.
NewRow(q) ==
  [status |-> "pending", type |-> req[q].type, result |-> None,
   attempts |-> req[q].attempts, prev |-> req[q].target, next |-> None,
   run |-> req[q].run, dir |-> req[q].dir]

\* enqueue_task for a new task: one insert.
Enqueue(q) ==
  /\ req[q].pc = "enqueue"
  /\ req[q].target = None
  /\ \E u \in Absent :
       /\ task' = [task EXCEPT ![u] = NewRow(q)]
       /\ req' = [req EXCEPT ![q] = [@ EXCEPT !.pc = "submit", !.task = u]]
  /\ UNCHANGED <<run, dir, queue, exec, faults>>

\* What _link_previous writes: the successor and nothing else.
LinkedRow(t, u) == [task[t] EXCEPT !.next = u]

\* enqueue_task for a retry: the insert and _link_previous commit together.
EnqueueRetry(q) ==
  LET t == req[q].target IN
  /\ req[q].pc = "enqueue"
  /\ t # None
  /\ Linkable(t)
  /\ \E u \in Absent :
       /\ task' = [task EXCEPT ![u] = NewRow(q), ![t] = LinkedRow(t, u)]
       /\ req' = [req EXCEPT ![q] = [@ EXCEPT !.pc = "submit", !.task = u]]
  /\ UNCHANGED <<run, dir, queue, exec, faults>>

\* IntegrityError or duplicate_retry: the insert is rolled back, the request
\* ends with 409 and releases the lock; the prepared run stays behind.
RetryRejected(q) ==
  LET t == req[q].target IN
  /\ req[q].pc = "enqueue"
  /\ t # None
  /\ ~ Linkable(t)
  /\ req' = [req EXCEPT ![q] = NoReq]
  /\ UNCHANGED <<task, run, dir, queue, exec, faults>>

\* ArqTaskExecutor drives its own event loop to completion, which an async
\* handler cannot do from inside the server's running loop; the upload endpoint
\* is async, all others run in threads.
Submittable(q) == ~ Durable \/ req[q].type # "knowledge_base_upload" \/ req[q].target # None

\* submit_task, after the commit; the response is sent and the lock released.
Submit(q) ==
  LET c == QueueOf(ProcOf[q]) IN
  /\ req[q].pc = "submit"
  /\ Submittable(q)
  /\ queue' = [queue EXCEPT ![c] = @ \cup {req[q].task}]
  /\ req' = [req EXCEPT ![q] = NoReq]
  /\ UNCHANGED <<task, run, dir, exec, faults>>

SubmitRaises(q) ==
  /\ req[q].pc = "submit"
  /\ ~ Submittable(q)
  /\ req' = [req EXCEPT ![q] = NoReq]
  /\ UNCHANGED <<task, run, dir, queue, exec, faults>>

MayFail(kind) == kind \in Faults /\ faults < MaxFaults

\* An exception in a request: a database error, or Redis unreachable or the
\* pool shut down at submission.  What was committed stays committed.
RequestFails(q) ==
  /\ MayFail("request")
  /\ req[q].pc # "idle"
  /\ req' = [req EXCEPT ![q] = NoReq]
  /\ faults' = faults + 1
  /\ UNCHANGED <<task, run, dir, queue, exec>>

-----------------------------------------------------------------------------
(* Worker threads: run_task_payload and the three runners.                 *)

Row(w) == task[exec[w].task]

\* The pool's queue hands a job out once.
Dequeued(c, t) == [queue EXCEPT ![c] = @ \ {t}]

Take(w) ==
  LET c == QueueOf(ProcOf[w]) IN
  /\ exec[w].pc = "idle"
  /\ \E t \in queue[c] :
       /\ exec' = [exec EXCEPT ![w] = [NoExec EXCEPT !.pc = "start", !.task = t]]
       /\ queue' = Dequeued(c, t)
  /\ UNCHANGED <<task, run, dir, req, faults>>

FirstStep(type) ==
  CASE type = "knowledge_base_upload" -> "ingest"
    [] type = "pipeline_dag_ingestion" -> "dag"
    [] OTHER -> "source"

\* update_task_status(status="running"): unconditional, whatever the status was.
SetRunning(t) ==
  task' = [task EXCEPT ![t] = [@ EXCEPT
             !.status = "running", !.result = None,
             !.attempts = task[t].attempts + 1]]

Start(w) ==
  /\ exec[w].pc = "start"
  /\ SetRunning(exec[w].task)
  /\ exec' = [exec EXCEPT ![w].pc = FirstStep(Row(w).type)]
  /\ UNCHANGED <<run, dir, queue, req, faults>>

\* The runner raised: run_task_payload will report it.
Raise(w, pc) ==
  exec' = [exec EXCEPT ![w] = [@ EXCEPT !.pc = pc, !.raised = TRUE, !.result = None]]

\* run_upload_pipeline, first session.  It raises before anything is
\* committed, or commits the documents and the run's status.  Each file fails
\* or not; all of them fail once the staging directory is gone.
\* retain_staged_files is set just before the commit, which may still fail.
Ingest(w) ==
  LET r == Row(w).run IN
  /\ exec[w].pc = "ingest"
  /\ \/ /\ Raise(w, "cleanup")
        /\ UNCHANGED run
     \/ /\ exec' = [exec EXCEPT ![w] = [@ EXCEPT !.pc = "cleanup",
                                !.raised = TRUE, !.retain = TRUE]]
        /\ UNCHANGED run
     \/ /\ StagedFilesAvailable(exec[w].task)
        /\ run' = [run EXCEPT ![r] = "completed"]
        /\ exec' = [exec EXCEPT ![w] = [@ EXCEPT !.pc = "lock", !.result = "completed"]]
     \/ /\ run' = [run EXCEPT ![r] = "completed_with_failures"]
        /\ exec' = [exec EXCEPT ![w] = [@ EXCEPT !.pc = "lock", !.retain = TRUE,
                                !.result = "completed_with_failures"]]
  /\ UNCHANGED <<task, dir, queue, req, faults>>

LockIndex(w) ==
  /\ exec[w].pc = "lock"
  /\ IndexLockFree(ProcOf[w])
  /\ exec' = [exec EXCEPT ![w].pc = "index"]
  /\ UNCHANGED <<task, run, dir, queue, req, faults>>

\* index_knowledge_base returns or raises; either way the lock is released.
Index(w) ==
  /\ exec[w].pc = "index"
  /\ \E pc \in {"cleanup", "markfailed"} :
       exec' = [exec EXCEPT ![w].pc = pc]
  /\ UNCHANGED <<task, run, dir, queue, req, faults>>

\* The status mark_pipeline_run_failed writes.
FailedStatus(r) == "failed"

MarkRunFailed(w) ==
  LET r == Row(w).run IN
  /\ exec[w].pc = "markfailed"
  /\ run' = [run EXCEPT ![r] = FailedStatus(r)]
  /\ Raise(w, "cleanup")
  /\ UNCHANGED <<task, dir, queue, req, faults>>

\* The finally clause: the directory goes unless some file failed.
Discards(w) == ~ exec[w].retain

Cleanup(w) ==
  LET d == Row(w).dir IN
  /\ exec[w].pc = "cleanup"
  /\ dir' = IF Discards(w) THEN [dir EXCEPT ![d] = "removed"] ELSE dir
  /\ exec' = [exec EXCEPT ![w].pc = "report"]
  /\ UNCHANGED <<task, run, queue, req, faults>>

\* execute_ingestion_dag_run, at the level of the run's status: it is set to
\* "running" whatever it was, then to the outcome; an exception in between
\* (a failing commit) leaves it "running".
BeginDag(w) ==
  LET r == Row(w).run IN
  /\ exec[w].pc = "dag"
  /\ run' = [run EXCEPT ![r] = "running"]
  /\ exec' = [exec EXCEPT ![w].pc = "dagrun"]
  /\ UNCHANGED <<task, dir, queue, req, faults>>

EndDag(w) ==
  LET r == Row(w).run IN
  /\ exec[w].pc = "dagrun"
  /\ \/ \E s \in {"completed", "completed_with_failures"} :
          /\ run' = [run EXCEPT ![r] = s]
          /\ exec' = [exec EXCEPT ![w] = [@ EXCEPT !.pc = "report", !.result = s]]
     \/ /\ Raise(w, "report")
        /\ UNCHANGED run
  /\ UNCHANGED <<task, dir, queue, req, faults>>

\* run_source_ingest_task returns a report or raises.
EndSource(w) ==
  /\ exec[w].pc = "source"
  /\ \/ Raise(w, "report")
     \/ exec' = [exec EXCEPT ![w] = [@ EXCEPT !.pc = "report", !.result = "completed"]]
  /\ UNCHANGED <<task, run, dir, queue, req, faults>>

\* The final update_task_status: "failed" if the runner raised.
Report(w) ==
  LET t == exec[w].task IN
  /\ exec[w].pc = "report"
  /\ task' = [task EXCEPT ![t] = [@ EXCEPT
       !.status = IF exec[w].raised THEN "failed" ELSE "completed",
       !.result = exec[w].result]]
  /\ exec' = [exec EXCEPT ![w].pc = "ack"]
  /\ UNCHANGED <<run, dir, queue, req, faults>>

\* The wrapper returns; only now does ARQ drop the job.
Ack(w) ==
  /\ exec[w].pc = "ack"
  /\ exec' = [exec EXCEPT ![w] = NoExec]
  /\ UNCHANGED <<task, run, dir, queue, req, faults>>

-----------------------------------------------------------------------------
(* Faults.                                                                 *)

Held(p) == {exec[w].task : w \in {x \in Worker : ProcOf[x] = p /\ exec[x].pc # "idle"}}

\* A process dies: its requests, locks, worker threads and in-memory queue go
\* with it.  ARQ delivers the jobs it held once more.
Crash(p) ==
  /\ MayFail("crash")
  /\ faults' = faults + 1
  /\ req' = [q \in Req |-> IF ProcOf[q] = p THEN NoReq ELSE req[q]]
  /\ exec' = [w \in Worker |-> IF ProcOf[w] = p THEN NoExec ELSE exec[w]]
  /\ queue' = [queue EXCEPT ![QueueOf(p)] = IF Durable THEN @ \cup Held(p) ELSE {}]
  /\ UNCHANGED <<task, run, dir>>

\* An ARQ worker told to stop cancels its jobs and puts them back on the
\* queue, while the thread run_job started cannot be cancelled and runs on.
Requeue(w) ==
  /\ Durable
  /\ MayFail("redelivery")
  /\ exec[w].pc # "idle"
  /\ queue' = [queue EXCEPT !["redis"] = @ \cup {exec[w].task}]
  /\ faults' = faults + 1
  /\ UNCHANGED <<task, run, dir, req, exec>>

\* A database error outside the runner ends the job: nobody reports the task.
\* In mark_pipeline_run_failed it only hides the indexing error.
JobFails(w) ==
  /\ MayFail("database")
  /\ faults' = faults + 1
  /\ \/ /\ exec[w].pc \in {"start", "report"}
        /\ exec' = [exec EXCEPT ![w] = NoExec]
     \/ /\ exec[w].pc = "markfailed"
        /\ Raise(w, "cleanup")
  /\ UNCHANGED <<task, run, dir, queue, req>>

\* Nothing to do and, in the bounded model, nothing left to ask for.
Quiescent ==
  /\ \A q \in Req : req[q].pc = "idle"
  /\ \A w \in Worker : exec[w].pc = "idle"
  /\ UNCHANGED vars

-----------------------------------------------------------------------------

RequestStep(q) ==
  \/ CreateRun(q) \/ Enqueue(q) \/ EnqueueRetry(q) \/ RetryRejected(q)
  \/ Submit(q) \/ SubmitRaises(q)

WorkerStep(w) ==
  \/ Take(w) \/ Start(w) \/ Ingest(w) \/ LockIndex(w) \/ Index(w)
  \/ MarkRunFailed(w) \/ Cleanup(w) \/ BeginDag(w) \/ EndDag(w)
  \/ EndSource(w) \/ Report(w) \/ Ack(w)

Next ==
  \/ \E q \in Req :
       \/ Upload(q) \/ IngestionDag(q) \/ SourceIngest(q)
       \/ \E t \in Task : Retry(q, t)
       \/ RequestStep(q) \/ RequestFails(q)
  \/ \E w \in Worker : WorkerStep(w) \/ Requeue(w) \/ JobFails(w)
  \/ \E p \in Proc : Crash(p)
  \/ Quiescent

Spec == Init /\ [][Next]_vars

\* A thread that can move eventually does; whether requests arrive, and
\* whether anything fails, is left open.
FairSpec ==
  /\ Spec
  /\ \A q \in Req : WF_vars(RequestStep(q))
  /\ \A w \in Worker : WF_vars(WorkerStep(w))

-----------------------------------------------------------------------------
(* Properties.                                                             *)

\* Every variable keeps its type (db/models/pipeline.py:190-226 for the rows).
TypeOK ==
  /\ task \in [Task -> TaskRow]
  /\ run \in [Run -> RunStatus]
  /\ dir \in [Dir -> {"unused", "present", "removed"}]
  /\ queue \in [Queue -> SUBSET Task]
  /\ req \in [Req -> ReqState]
  /\ exec \in [Worker -> ExecState]
  /\ faults \in Nat

\* Retry history is linear: the successor link of one row and the predecessor
\* link of another always agree, so no task has two retries and no retry two
\* origins, whichever processes race (tasks.py:383-413, the unique columns).
LinearHistory ==
  \A t, u \in Task : task[t].next = u <=> task[u].prev = t

Terminal(t) == task[t].status \in {"completed", "failed"}

\* The thread pool runtime implements the promise: pending and running are both
\* "live", and every request, queue and worker step is a step of the chain or
\* invisible (tasks.py:114-424 against RetryChain).
Phase(t) == CASE task[t].status = "absent" -> "absent"
              [] task[t].status \in {"pending", "running"} -> "live"
              [] OTHER -> "done"
Chain == INSTANCE RetryChain WITH
           phase <- [t \in Task |-> Phase(t)],
           next <- [t \in Task |-> task[t].next]
ImplementsRetryChain == Chain!Spec

\* Where a task can be: about to be submitted, queued, on a worker.
Submitting(q, t) == req[q].pc = "submit" /\ req[q].task = t
Queued(c, t) == t \in queue[c]
Executing(w, t) == exec[w].task = t

\* The pool runs a task at most once: it is never in two places
\* (tasks.py:134-157 and the pool of tasks.py:76-86).
SingleDelivery ==
  \A t \in Task :
    /\ \A q, r \in Req : Submitting(q, t) /\ Submitting(r, t) => q = r
    /\ \A c, e \in Queue : Queued(c, t) /\ Queued(e, t) => c = e
    /\ \A w, x \in Worker : Executing(w, t) /\ Executing(x, t) => w = x
    /\ \A q \in Req, c \in Queue : ~ (Submitting(q, t) /\ Queued(c, t))
    /\ \A q \in Req, w \in Worker : ~ (Submitting(q, t) /\ Executing(w, t))
    /\ \A c \in Queue, w \in Worker : ~ (Queued(c, t) /\ Executing(w, t))

\* The retry lock makes check, prepare and enqueue one unit within a process:
\* unless something failed, a run without a task was prepared for a retry that
\* lost to a retry of another process, at most one per lost race and other API
\* process; with one API process there is none (tasks.py:340, 423-429).
Orphans ==
  {r \in Run : /\ run[r] # "absent"
               /\ \A t \in Task : task[t].run # r
               /\ \A q \in Req : req[q].run # r}
Retried == {t \in Task : task[t].next # None}
ApiProcs == {ProcOf[q] : q \in Req}
NoOrphanRun ==
  faults = 0 => Cardinality(Orphans) <= (Cardinality(ApiProcs) - 1) * Cardinality(Retried)

\* Unless something failed, the pipeline run tells the same story as its
\* finished task: a completed task reports its run's status, and a failed
\* upload leaves no run that claims to have completed (tasks.py:866, 888-893;
\* EVI-132 line 91); and there is no run without a task beside those.
RunMatchesTask ==
  /\ faults = 0 => \A t \in Task :
       /\ task[t].status = "completed" /\ task[t].run # None =>
            run[task[t].run] = task[t].result
       /\ task[t].status = "failed" /\ task[t].type = "knowledge_base_upload" =>
            run[task[t].run] \notin {"completed", "completed_with_failures"}
  /\ NoOrphanRun

\* Staged files live as long as they are needed and no longer.  An upload never
\* starts to read a directory that an earlier attempt of its chain has already
\* removed; and unless something failed, a directory on disk has somebody to
\* answer for it: a request on its way to enqueue, an unfinished task, or a
\* finished one some of whose files failed (tasks.py:517-527, 893-895).
StagingAccounted ==
  /\ \A w \in Worker : exec[w].pc = "ingest" => dir[Row(w).dir] = "present"
  /\ faults = 0 => \A d \in Dir : dir[d] = "present" =>
       \/ \E q \in Req : req[q].dir = d
       \/ \E t \in Task : /\ task[t].dir = d
                          /\ Terminal(t) => run[task[t].run] # "completed"

\* Every accepted task is eventually reported completed or failed (EVI-132,
\* State Model), unless something fails on the way to its executor.
EveryTaskEnds ==
  \A t \in Task : task[t].status = "pending" ~> Terminal(t)

\* A task handed to the executor is eventually reported completed or failed.
EverySubmittedTaskEnds ==
  \A t \in Task : (\E c \in Queue : t \in queue[c]) ~> Terminal(t)

-----------------------------------------------------------------------------
(* Strengthenings that make the safety properties inductive.               *)

\* An unused row has no content, so no link can lead to or from it.
AbsentIsBlank == \A t \in Task : task[t].status = "absent" => task[t] = NoTask

\* A request at the end of its way, and a busy worker, hold an existing task.
RequestHolds == \A q \in Req : req[q].pc = "submit" => req[q].task \in Task
WorkerHolds == \A w \in Worker : IF exec[w].pc = "idle" THEN exec[w] = NoExec
                                                       ELSE exec[w].task \in Task
HoldersHaveTask == RequestHolds /\ WorkerHolds

\* A retry's target is a row of the table.
TargetExists ==
  \A q \in Req : req[q].target # None => task[req[q].target].status # "absent"

LinkInv == TypeOK /\ AbsentIsBlank /\ HoldersHaveTask /\ TargetExists /\ LinearHistory

=============================================================================
