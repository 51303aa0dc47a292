---------------------------- MODULE IngestionDag ----------------------------
(***************************************************************************)
(* One ingestion DAG run: its row in pipeline_runs, the background task    *)
(* that executes it and the operators who resume it.  The nodes form a     *)
(* chain.  One action is the work between two commits of an executor, so   *)
(* another executor, or the loss of this one, can fall between any two.    *)
(*                                                                         *)
(* Left out: snapshot_expired, which no code sets; the repair of a failed  *)
(* node with an empty failure queue, which no snapshot of this runner      *)
(* needs (FailureRecorded); the node status "running", never committed.    *)
(***************************************************************************)
EXTENDS Naturals, FiniteSets

CONSTANTS
  Exec,           \* threads that execute or resume the run
  Last,           \* number of nodes: DAG_NODE_IDS
  MaxSerial,      \* deliveries of the task of the run, executed one at a time
  MaxShared,      \* ... and where executions may overlap
  MaxRetries,     \* bound on the retry_count of an entry
  MaxFaults       \* bound on executions that break off

ASSUME LastAssumption == Last \in Nat \ {0}
ASSUME BoundsAssumption ==
  MaxSerial \in Nat /\ MaxShared \in Nat /\ MaxRetries \in Nat /\ MaxFaults \in Nat

Node == 1..Last
RunStatus == {"running", "completed", "completed_with_failures"}

\* One entry per node: an entry is resolved only when every node is completed,
\* so a node that fails never finds a resolved entry beside an open one.
Entry == [status: {"none", "open", "retrying", "resolved"}, retries: Nat]

\* config_snapshot_json["dag"]; inject is request.failure_node, 0 for None.
Dag == [node: [Node -> {"pending", "completed", "failed"}],
        queue: [Node -> Entry],
        inject: 0..Last]

Row == [status: RunStatus, dag: Dag, success: 0..Last, failures: 0..Last]

VARIABLES
  row,         \* the row of pipeline_runs
  pc,          \* where each executor is
  mem,         \* the row as the session of each executor holds it
  resumed,     \* whether the executor was started by a resume
  deliveries,  \* deliveries of the task so far
  faults,      \* executions broken off so far
  overlap      \* whether executions may overlap; it does not change

vars == <<row, pc, mem, resumed, deliveries, faults, overlap>>

MaxDeliveries == IF overlap THEN MaxShared ELSE MaxSerial

NewDag(failureNode) ==
  [node |-> [n \in Node |-> "pending"],
   queue |-> [n \in Node |-> [status |-> "none", retries |-> 0]],
   inject |-> failureNode]

NewRow(failureNode) ==
  [status |-> "running", dag |-> NewDag(failureNode), success |-> 0, failures |-> 0]

Init ==
  /\ \E failureNode \in 0..Last : row = NewRow(failureNode)
  /\ pc = [e \in Exec |-> "idle"]
  /\ mem = [e \in Exec |-> row]
  /\ resumed = [e \in Exec |-> FALSE]
  /\ deliveries = 0
  /\ faults = 0
  /\ overlap \in BOOLEAN

-----------------------------------------------------------------------------
(* Plausible slips in the definitions below, used to see that the          *)
(* properties notice them; no specification refers to one.                 *)

BegunQueueKept(dag, isResume) ==
  [dag EXCEPT !.inject = IF isResume THEN 0 ELSE @]
RemainingAfterFailure(dag) == {n \in Node : dag.node[n] = "pending"}

-----------------------------------------------------------------------------
(* What the runner computes from a snapshot.                               *)

Completed(dag) == {n \in Node : dag.node[n] = "completed"}
Open(dag) == {n \in Node : dag.queue[n].status = "open"}

\* The head of _execute_dag: open failures are being retried, and a resume
\* does not inject the failure of the request.
Begun(dag, isResume) ==
  [dag EXCEPT
     !.queue = [n \in Node |->
                  IF dag.queue[n].status = "open"
                  THEN [dag.queue[n] EXCEPT !.status = "retrying"]
                  ELSE dag.queue[n]],
     !.inject = IF isResume THEN 0 ELSE @]

\* The loop skips completed nodes only.
Remaining(dag) == {n \in Node : dag.node[n] # "completed"}
IsNext(n, dag) ==
  n \in Remaining(dag) /\ \A m \in Remaining(dag) : n <= m

CompletedAt(dag, n) == [dag EXCEPT !.node[n] = "completed"]

\* _upsert_failure reopens the entry of the node or appends one.
FailedAt(dag, n) ==
  [dag EXCEPT
     !.node[n] = "failed",
     !.queue[n] = IF @.status \in {"open", "retrying"}
                  THEN [status |-> "open", retries |-> @.retries + 1]
                  ELSE [status |-> "open", retries |-> 0]]

Resolved(dag) ==
  [dag EXCEPT
     !.queue = [n \in Node |->
                  IF dag.queue[n].status = "retrying"
                  THEN [dag.queue[n] EXCEPT !.status = "resolved"]
                  ELSE dag.queue[n]]]

\* The tail of _execute_dag.
Ended(r) ==
  LET dag == IF Remaining(r.dag) = {} THEN Resolved(r.dag) ELSE r.dag
  IN  [status |-> IF Remaining(r.dag) = {} THEN "completed"
                  ELSE "completed_with_failures",
       dag |-> dag,
       success |-> Cardinality(Completed(dag)),
       failures |-> Cardinality(Open(dag))]

\* A commit updates the columns the session changed, and no others.
Merged(stored, loaded, new) == IF new = loaded THEN stored ELSE new

Commit(e, new) ==
  /\ row' = [status |-> Merged(row.status, mem[e].status, new.status),
             dag |-> Merged(row.dag, mem[e].dag, new.dag),
             success |-> Merged(row.success, mem[e].success, new.success),
             failures |-> Merged(row.failures, mem[e].failures, new.failures)]
  /\ mem' = [mem EXCEPT ![e] = new]

-----------------------------------------------------------------------------
(* The two ways in.  Neither takes a lock on the row.                      *)

Free(e) == IF overlap THEN pc[e] = "idle" ELSE \A f \in Exec : pc[f] = "idle"

\* execute_ingestion_dag_run: the task of the run, without a look at its status.
Execute(e) ==
  /\ Free(e)
  /\ deliveries < MaxDeliveries
  /\ deliveries' = deliveries + 1
  /\ pc' = [pc EXCEPT ![e] = "begin"]
  /\ mem' = [mem EXCEPT ![e] = row]
  /\ resumed' = [resumed EXCEPT ![e] = FALSE]
  /\ UNCHANGED <<row, faults, overlap>>

NothingToRetry == Open(row.dag) = {} /\ Remaining(row.dag) = {}

\* resume_ingestion_dag: a completed and a running DAG are rejected.
Resume(e) ==
  /\ Free(e)
  /\ row.status # "completed"
  /\ ~ NothingToRetry
  /\ row.status # "running"
  /\ pc' = [pc EXCEPT ![e] = "begin"]
  /\ mem' = [mem EXCEPT ![e] = row]
  /\ resumed' = [resumed EXCEPT ![e] = TRUE]
  /\ UNCHANGED <<row, deliveries, faults, overlap>>

-----------------------------------------------------------------------------
(* _execute_dag, commit by commit.                                         *)

\* Where the loop stands after a commit: at a failure it breaks.
After(dag) == IF Remaining(dag) = {} THEN "finish" ELSE "node"

Begin(e) ==
  LET dag == Begun(mem[e].dag, resumed[e])
  IN  /\ pc[e] = "begin"
      /\ Commit(e, [mem[e] EXCEPT !.status = "running", !.dag = dag])
      /\ pc' = [pc EXCEPT ![e] = After(dag)]
      /\ UNCHANGED <<resumed, deliveries, faults, overlap>>

NodeSucceeds(e, n) ==
  LET dag == CompletedAt(mem[e].dag, n)
  IN  /\ pc[e] = "node"
      /\ IsNext(n, mem[e].dag)
      /\ mem[e].dag.inject # n
      /\ Commit(e, [mem[e] EXCEPT !.dag = dag])
      /\ pc' = [pc EXCEPT ![e] = After(dag)]
      /\ UNCHANGED <<resumed, deliveries, faults, overlap>>

\* The node's own work raises, or it succeeds and the failure the request asks
\* for is raised and thereby consumed.
NodeFails(e, n) ==
  LET dag == FailedAt(mem[e].dag, n)
  IN  /\ pc[e] = "node"
      /\ IsNext(n, mem[e].dag)
      /\ \/ /\ mem[e].dag.queue[n].retries < MaxRetries
            /\ Commit(e, [mem[e] EXCEPT !.dag = dag])
         \/ /\ mem[e].dag.inject = n
            /\ Commit(e, [mem[e] EXCEPT !.dag = [dag EXCEPT !.inject = 0]])
      /\ pc' = [pc EXCEPT ![e] = "finish"]
      /\ UNCHANGED <<resumed, deliveries, faults, overlap>>

Finish(e) ==
  /\ pc[e] = "finish"
  /\ Commit(e, Ended(mem[e]))
  /\ pc' = [pc EXCEPT ![e] = "idle"]
  /\ UNCHANGED <<resumed, deliveries, faults, overlap>>

\* A commit that fails, or the end of the process: nothing tidies up.
BreakOff(e) ==
  /\ pc[e] # "idle"
  /\ faults < MaxFaults
  /\ faults' = faults + 1
  /\ pc' = [pc EXCEPT ![e] = "idle"]
  /\ UNCHANGED <<row, mem, resumed, deliveries, overlap>>

Step(e) == Begin(e) \/ (\E n \in Node : NodeSucceeds(e, n) \/ NodeFails(e, n)) \/ Finish(e)

Next == \E e \in Exec : Execute(e) \/ Resume(e) \/ Step(e) \/ BreakOff(e)

Spec == Init /\ [][Next]_vars

-----------------------------------------------------------------------------
(* Properties.                                                             *)

\* Row and session hold rows, whatever was merged by the commits.
TypeOK ==
  /\ row \in Row
  /\ pc \in [Exec -> {"idle", "begin", "node", "finish"}]
  /\ mem \in [Exec -> Row]
  /\ resumed \in [Exec -> BOOLEAN]
  /\ deliveries \in 0..MaxDeliveries
  /\ faults \in 0..MaxFaults
  /\ overlap \in BOOLEAN

PrefixCompleted(dag) ==
  \A m, n \in Node : m < n /\ dag.node[m] # "completed" =>
    dag.node[n] = "pending" /\ dag.queue[n].status = "none"

\* "The v1 runner executes in topological order" (EVI-106:25-26): whoever ran
\* and wherever they broke off, no node is completed behind one that is not,
\* and a node nobody reached has no failure on record.
CompletedIsPrefix == PrefixCompleted(row.dag)

Recorded(dag) ==
  \A n \in Node :
    /\ dag.node[n] = "failed" => dag.queue[n].status \in {"open", "retrying"}
    /\ dag.queue[n].status = "open" => dag.node[n] = "failed"
    /\ dag.queue[n].status = "resolved" => Remaining(dag) = {}

\* The queue tells what the nodes tell (EVI-106:49-53): a failed node has a
\* failure to retry or in retry, an open failure is one of a failed node, and
\* failures are resolved when the run is done.
FailureRecorded == Recorded(row.dag)

\* Executed by one executor at a time, wherever they break off, the run is a
\* chain that advances node by node, skips what is completed, and whose status is
\* the one its nodes call for (EVI-106:30-40).
Abstract ==
  INSTANCE DagRun WITH done <- IF overlap THEN 0 ELSE Cardinality(Completed(row.dag)),
                       outcome <- IF overlap THEN "running" ELSE row.status
ImplementsDagRun == Abstract!Spec

\* What makes the two snapshot invariants inductive: they hold of every copy of
\* the snapshot, the stored one and the ones the executors are about to store,
\* and an executor in the loop has turned every open failure into a retry.
SnapshotInv ==
  /\ TypeOK
  /\ PrefixCompleted(row.dag) /\ Recorded(row.dag)
  /\ \A e \in Exec :
       /\ PrefixCompleted(mem[e].dag) /\ Recorded(mem[e].dag)
       /\ pc[e] = "node" => Open(mem[e].dag) = {}
=============================================================================
